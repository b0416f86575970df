---------------------------- MODULE RelayProofs -----------------------------
(***************************************************************************)
(* The relays: what is marked as published is in the topic, and a second   *)
(* copy takes a disturbance.  With it, the invariant as a whole.           *)
(***************************************************************************)
EXTENDS ConsumerProofs, FiniteSetTheorems

(* What is in the log stays there.                                         *)
LEMMA InLogStays ==
  ASSUME Shape, LogGrows, log' \in [Partition -> Seq(Payload)],
         NEW e, outbox'[e].payload = outbox[e].payload, InLog(e)
  PROVE  InLog(e)'
<1>0. PICK p \in Partition : \E i \in DOMAIN log[p] : log[p][i] = outbox[e].payload
  BY DEF InLog
<1>1. PICK i \in DOMAIN log[p] : log[p][i] = outbox[e].payload
  BY <1>0
<1>2. log[p] \in Seq(Payload) /\ log'[p] \in Seq(Payload)
  BY DEF Shape, TypeOK, KafkaTypeOK
<1>3. i \in 1..Len(log[p]) /\ Len(log[p]) <= Len(log'[p]) /\ log'[p][i] = log[p][i]
  BY <1>2 DEF LogGrows
<1>4. i \in DOMAIN log'[p]
  BY <1>2, <1>3
<1> QED
  BY <1>1, <1>3, <1>4 DEF InLog

(* A written event is in the log.                                          *)
LEMMA WrittenInLog ==
  ASSUME Shape, NEW e \in EventId, outbox[e] # None, WriteEvent(e), UNCHANGED outbox
  PROVE  InLog(e)'
<1> DEFINE p == PartitionOf[outbox[e].shipment]
           x == outbox[e].payload
<1>1. x \in Payload /\ p \in Partition /\ log \in [Partition -> Seq(Payload)]
  BY KafkaAssumption DEF Shape, TypeOK, StoreTypeOK, KafkaTypeOK, OutboxRow
<1>2. log' = [log EXCEPT ![p] = Append(log[p], x)] /\ outbox'[e].payload = x
  BY DEF WriteEvent, Write
<1> HIDE DEF p, x
<1>3. Len(log[p]) + 1 \in DOMAIN log'[p] /\ log'[p][Len(log[p]) + 1] = x
  BY <1>1, <1>2
<1> QED
  BY <1>1, <1>2, <1>3 DEF InLog

(* The events a relay holds are stored. *)
LEMMA AckedStored ==
  ASSUME Shape, NEW r \in RelayProcess, NEW i \in 1..relay[r].acked
  PROVE  relay[r].batch[i] \in EventId /\ outbox[relay[r].batch[i]] # None
<1>1. /\ relay[r].batch \in Seq(EventId) /\ relay[r].acked \in Nat
      /\ relay[r].acked <= Len(relay[r].batch)
      /\ \A j \in 1..Len(relay[r].batch) : outbox[relay[r].batch[j]] # None
  BY DEF Shape, TypeOK, RelayTypeOK, RelayState, ClaimsHeld, BatchHeld
<1>2. i \in 1..Len(relay[r].batch)
  BY <1>1
<1> QED
  BY <1>1, <1>2

(* Stored events keep their payload, and none is newly shown as published. *)
NotNewlyPublished ==
  \A e \in EventId :
    /\ outbox[e] # None => outbox'[e].payload = outbox[e].payload
    /\ outbox'[e] # None /\ outbox'[e].published =>
         outbox[e] # None /\ outbox[e].published

(* Such a step of anybody but a relay keeps PublishInv.                    *)
LEMMA PublishFrame ==
  ASSUME Shape, PublishInv, LogGrows, log' \in [Partition -> Seq(Payload)],
         NotNewlyPublished, UNCHANGED relay
  PROVE  PublishInv'
<1>1. PublishedReachedKafka'
  BY InLogStays DEF PublishInv, PublishedReachedKafka, NotNewlyPublished
<1>2. ASSUME NEW r \in RelayProcess, NEW i \in 1..relay[r].acked
      PROVE  InLog(relay[r].batch[i])'
  <2>1. PICK e : e = relay[r].batch[i]
    OBVIOUS
  <2>2. e \in EventId /\ outbox[e] # None /\ InLog(e)
    BY <2>1, AckedStored DEF PublishInv, AckedInLog
  <2>3. InLog(e)'
    BY <2>2, InLogStays DEF NotNewlyPublished
  <2> QED
    BY <2>1, <2>3
<1> QED
  BY <1>1, <1>2 DEF PublishInv, AckedInLog

(* A call adds events, as not published. *)
LEMMA CallPublishesNothing ==
  ASSUME Shape, StoreInv, NEW c \in Call, CallStep(c)
  PROVE  NotNewlyPublished
<1>1. CASE UNCHANGED storeVars
  BY <1>1 DEF NotNewlyPublished, storeVars
<1>2. CASE call[c].pc = "store" /\ Accepted(c) /\ StoreCall(c)
  <2>1. PICK id, ev, row :
          id = call[c].shipment /\ ev = call[c].event /\ row = call[c].row
    OBVIOUS
  <2> DEFINE new == [shipment |-> id, payload |-> NewShipmentCreated(id, row, ev),
                     created |-> row.created, published |-> FALSE,
                     attempts |-> 0, last_error |-> FALSE]
  <2>2. Stores(id, ev, row)
    BY <1>2, <2>1, StoredRows
  <2>3. /\ ev \in EventId /\ outbox[ev] = None /\ outbox'[ev] = new
        /\ \A e \in EventId : e # ev => outbox'[e] = outbox[e]
    BY <2>2 DEF Stores
  <2>4. new.published = FALSE
    OBVIOUS
  <2> HIDE DEF new
  <2> QED
    BY <2>3, <2>4 DEF NotNewlyPublished
<1> QED
  BY <1>1, <1>2
     DEF CallStep, CallStored, CallPriced, RefuseWeight, RefuseQuote, Price, StoreShipment,
         StoreRefused, StoreFails

(* What a relay knows of acknowledgements after a step: those of before,   *)
(* one more after Publish, none after the end of the poll.                 *)
LEMMA RelayAcks ==
  ASSUME Shape, NEW r \in RelayProcess, RelayStep(r)
  PROVE  \E st : /\ relay' = [relay EXCEPT ![r] = st]
                 /\ \/ st.acked = 0 /\ st.batch = <<>>
                    \/ /\ Claim(r) /\ relay[r].acked = 0
                       /\ st.acked = 0 /\ st.batch \in claimPending
                    \/ /\ PublishFails(r)
                       /\ st.batch = relay[r].batch /\ st.acked = relay[r].acked
                    \/ /\ Publish(r)
                       /\ st.batch = relay[r].batch /\ st.acked = relay[r].acked + 1
<1> DEFINE me == relay[r]
<1>0. /\ me \in RelayState
      /\ me.pc = "idle" => me.acked = 0
  BY DEF Shape, TypeOK, RelayTypeOK, ClaimsHeld, BatchHeld
<1>1. \A pc, b : BetweenPolls(pc, b).acked = 0 /\ BetweenPolls(pc, b).batch = <<>>
  BY DEF BetweenPolls
<1>2. CASE \E pc, b : relay' = [relay EXCEPT ![r] = BetweenPolls(pc, b)]
  <2>1. PICK pc, b : relay' = [relay EXCEPT ![r] = BetweenPolls(pc, b)]
    BY <1>2
  <2>2. PICK st : st = BetweenPolls(pc, b)
    OBVIOUS
  <2>3. relay' = [relay EXCEPT ![r] = st]
    BY <2>1, <2>2
  <2>4. st.acked = 0 /\ st.batch = <<>>
    BY <1>1, <2>2
  <2> QED
    BY <2>3, <2>4
<1>3. CASE \/ ClaimFails(r) \/ SessionLost(r) \/ Commit(r) \/ CommitFails(r)
           \/ StopRelay(r) \/ StartRelay(r)
  BY <1>2, <1>3
     DEF ClaimFails, SessionLost, Commit, CommitFails, StopRelay, StartRelay,
         Idle, Down
<1>4. CASE Claim(r)
  <2>1. PICK b \in claimPending :
          relay' = [relay EXCEPT ![r] =
                      IF b = <<>> THEN Idle(1)
                      ELSE [relay[r] EXCEPT !.pc = "publish", !.batch = b]]
    BY <1>4 DEF Claim
  <2>2. CASE b = <<>>
    BY <1>2, <2>1, <2>2 DEF Idle
  <2>3. CASE b # <<>>
    <3> DEFINE st == [me EXCEPT !.pc = "publish", !.batch = b]
    <3>1. relay' = [relay EXCEPT ![r] = st]
      BY <2>1, <2>3
    <3>2. me.acked = 0 /\ st.acked = 0 /\ st.batch = b
      BY <1>0, <1>4 DEF Claim, RelayState
    <3> HIDE DEF st
    <3> QED
      BY <1>4, <2>1, <3>1, <3>2
  <2> QED
    BY <2>2, <2>3
<1>5. CASE PublishFails(r)
  <2> DEFINE st == [me EXCEPT !.pc = "mark", !.failed = Current(r)]
  <2>1. relay' = [relay EXCEPT ![r] = st]
    BY <1>5 DEF PublishFails
  <2>2. st.batch = me.batch /\ st.acked = me.acked
    BY <1>0 DEF RelayState
  <2> HIDE DEF st
  <2> QED
    BY <1>5, <2>1, <2>2
<1>6. CASE Publish(r)
  <2> DEFINE st == AfterAck(me)
  <2>1. relay' = [relay EXCEPT ![r] = st]
    BY <1>6 DEF Publish
  <2>2. st.batch = me.batch /\ st.acked = me.acked + 1
    BY <1>0, AckedState
  <2> HIDE DEF st
  <2> QED
    BY <1>6, <2>1, <2>2
<1> QED
  BY <1>3, <1>4, <1>5, <1>6 DEF RelayStep, RelayWorks, RelayDisturbed

(* What is shown as published after a relay's step was before, or is one   *)
(* of the events it had acknowledged.                                      *)
LEMMA RelayMarks ==
  ASSUME Shape, NEW r \in RelayProcess, RelayStep(r),
         NEW e \in EventId, outbox'[e] # None, outbox'[e].published
  PROVE  /\ outbox[e] # None
         /\ outbox[e].published \/ e \in Published(r)
<1>1. UNCHANGED outbox \/ RecordRelayResult(r)
  BY DEF RelayStep, RelayWorks, RelayDisturbed, Claim, ClaimFails, Publish,
         PublishFails, SessionLost, Commit, CommitFails, StopRelay, StartRelay,
         storeVars
<1>2. outbox[e] # None
  BY RelayKeepsRows DEF RowsKept
<1>3. CASE RecordRelayResult(r) /\ e \notin Published(r)
  <2>1. outbox'[e] = IF e \in Failed(r)
                     THEN [outbox[e] EXCEPT !.attempts = outbox[e].attempts + 1,
                                            !.last_error = TRUE]
                     ELSE outbox[e]
    BY <1>3 DEF RecordRelayResult, RecordResult
  <2>2. outbox[e] \in OutboxRow
    BY <1>2 DEF Shape, TypeOK, StoreTypeOK
  <2> DEFINE n == outbox[e].attempts + 1
  <2> HIDE DEF n
  <2>3. outbox'[e].published = outbox[e].published
    BY <2>1, <2>2 DEF OutboxRow, n
  <2> QED
    BY <1>2, <2>3
<1> QED
  BY <1>1, <1>2, <1>3

(* The event a relay is about to publish is stored. *)
LEMMA CurrentStored ==
  ASSUME Shape, NEW r \in RelayProcess, relay[r].pc = "publish"
  PROVE  Current(r) \in EventId /\ outbox[Current(r)] # None
<1>1. /\ relay[r].batch \in Seq(EventId) /\ relay[r].acked \in Nat
      /\ relay[r].acked < Len(relay[r].batch)
      /\ \A i \in 1..Len(relay[r].batch) : outbox[relay[r].batch[i]] # None
  BY DEF Shape, TypeOK, RelayTypeOK, RelayState, ClaimsHeld, BatchHeld
<1>2. relay[r].acked + 1 \in 1..Len(relay[r].batch)
  BY <1>1
<1> QED
  BY <1>1, <1>2 DEF Current

(* A step of a relay keeps PublishInv. *)
LEMMA PublishRelay ==
  ASSUME Shape, PublishInv, NEW r \in RelayProcess, RelayStep(r),
         log' \in [Partition -> Seq(Payload)]
  PROVE  PublishInv'
<1>1. RowsKept /\ LogGrows
  BY RelayKeepsRows, RelayAppends
<1>2. ASSUME NEW e \in EventId, outbox[e] # None, InLog(e) PROVE InLog(e)'
  BY <1>1, <1>2, InLogStays DEF RowsKept
<1>3. ASSUME NEW q \in RelayProcess, NEW i \in 1..relay[q].acked
      PROVE  /\ relay[q].batch[i] \in EventId /\ outbox[relay[q].batch[i]] # None
             /\ InLog(relay[q].batch[i])
  BY <1>3, AckedStored DEF PublishInv, AckedInLog
<1>4. PublishedReachedKafka'
  <2>1. SUFFICES ASSUME NEW e \in EventId, outbox'[e] # None, outbox'[e].published
                 PROVE  InLog(e)'
    BY DEF PublishedReachedKafka
  <2>2. outbox[e] # None /\ (outbox[e].published \/ e \in Published(r))
    BY <2>1, RelayMarks
  <2>3. InLog(e)
    BY <1>3, <2>2 DEF Published, PublishInv, PublishedReachedKafka
  <2> QED
    BY <1>2, <2>2, <2>3
<1>5. PICK st : /\ relay' = [relay EXCEPT ![r] = st]
                /\ \/ st.acked = 0
                   \/ /\ PublishFails(r)
                      /\ st.batch = relay[r].batch /\ st.acked = relay[r].acked
                   \/ /\ Publish(r)
                      /\ st.batch = relay[r].batch /\ st.acked = relay[r].acked + 1
  BY RelayAcks
<1>6. relay \in [RelayProcess -> RelayState]
  BY DEF Shape, TypeOK, RelayTypeOK
<1>7. ASSUME NEW i \in 1..st.acked PROVE InLog(st.batch[i])'
  <2>1. CASE st.acked = 0
    BY <1>7, <2>1
  <2>2. ASSUME NEW e, e = relay[r].batch[i], i \in 1..relay[r].acked PROVE InLog(e)'
    BY <1>2, <1>3, <2>2
  <2>3. CASE PublishFails(r) /\ st.batch = relay[r].batch /\ st.acked = relay[r].acked
    BY <1>7, <2>2, <2>3
  <2>4. CASE /\ Publish(r)
             /\ st.batch = relay[r].batch /\ st.acked = relay[r].acked + 1
    <3>1. CASE i = st.acked
      <4>1. PICK e : e = Current(r)
        OBVIOUS
      <4>2. e \in EventId /\ outbox[e] # None /\ WriteEvent(e) /\ UNCHANGED outbox
        BY <2>4, <4>1, CurrentStored DEF Publish, storeVars
      <4>3. InLog(e)' /\ st.batch[i] = e
        BY <2>4, <3>1, <4>1, <4>2, WrittenInLog DEF Current
      <4> QED
        BY <4>3
    <3>2. CASE i # st.acked
      <4>1. i \in 1..relay[r].acked
        BY <1>6, <1>7, <2>4, <3>2 DEF RelayState
      <4> QED
        BY <2>2, <2>4, <4>1
    <3> QED
      BY <3>1, <3>2
  <2> QED
    BY <1>5, <2>1, <2>3, <2>4
<1>8. AckedInLog'
  <2>1. SUFFICES ASSUME NEW q \in RelayProcess, NEW i \in 1..relay'[q].acked
                 PROVE  InLog(relay[q].batch[i])'
    BY DEF AckedInLog
  <2>2. CASE q = r
    BY <1>5, <1>6, <1>7, <2>1, <2>2
  <2>3. CASE q # r
    <3>1. relay'[q] = relay[q]
      BY <1>5, <1>6, <2>3
    <3>2. PICK e : e = relay[q].batch[i]
      OBVIOUS
    <3> QED
      BY <1>2, <1>3, <2>1, <3>1, <3>2
  <2> QED
    BY <2>2, <2>3
<1> QED
  BY <1>4, <1>8 DEF PublishInv

(* Consumers only read the topic. *)
LEMMA MemberKeepsLog ==
  ASSUME NEW m \in Member, MemberStep(m)
  PROVE  UNCHANGED log
BY DEF MemberStep, MemberWorks, MemberDisturbed, StartMember, Assign, Revoke, Remove,
       Poll, Reject, InsertProcessed, InsertDispatch, Conflict, Orphan, CommitTx,
       StorageFails, CommitOffset, OffsetFenced, OffsetFails, StopMember, kafkaVars

(* Every step keeps PublishInv. *)
LEMMA PublishNext ==
  ASSUME Shape, Shape', StoreInv, PublishInv, [Next]_vars
  PROVE  PublishInv'
<1>0. log' \in [Partition -> Seq(Payload)]
  BY DEF Shape, TypeOK, KafkaTypeOK
<1>1. ASSUME UNCHANGED log PROVE LogGrows
  BY <1>1 DEF LogGrows, Shape, TypeOK, KafkaTypeOK
<1>2. ASSUME UNCHANGED outbox PROVE NotNewlyPublished
  BY <1>2 DEF NotNewlyPublished
<1>3. CASE APINext
  <2>1. NotNewlyPublished
    BY <1>3, CallPublishesNothing DEF APINext
  <2> QED
    BY <1>0, <1>1, <1>3, <2>1, PublishFrame DEF APINext, kafkaVars
<1>4. CASE RelayNext
  BY <1>0, <1>4, PublishRelay DEF RelayNext
<1>5. CASE ConsumerNext
  <2>1. PICK m \in Member : MemberStep(m) /\ UNCHANGED relay
    BY <1>5 DEF ConsumerNext
  <2>2. UNCHANGED log
    BY <2>1, MemberKeepsLog
  <2> QED
    BY <1>0, <1>1, <1>2, <2>1, <2>2, MemberKeepsRows, PublishFrame
<1>6. CASE OutsideNext
  BY <1>0, <1>2, <1>6, OutsideAppends, OutsideKeepsTables, PublishFrame DEF storeVars
<1>7. CASE UNCHANGED vars
  BY <1>0, <1>1, <1>2, <1>7, PublishFrame DEF vars, storeVars, kafkaVars
<1> QED
  BY <1>3, <1>4, <1>5, <1>6, <1>7 DEF Next

(* PublishInv is an invariant: PublishedReachedKafka, and a relay only     *)
(* counts as acknowledged what is in the log.                              *)
THEOREM PublishInvariant == Spec => []PublishInv
<1>1. Init => PublishInv
  BY DEF Init, StoreInit, RelayInit, Down, BetweenPolls, PublishInv,
         PublishedReachedKafka, AckedInLog
<1>2. Shape /\ Shape' /\ StoreInv /\ PublishInv /\ [Next]_vars => PublishInv'
  BY PublishNext
<1> QED
  BY <1>1, <1>2, ShapeInvariant, StoreInvariant, PTL DEF Spec

(* ProcessPending never sets published_at of an event that is not in the   *)
(* topic, whichever of the produces, the UPDATEs or the COMMIT fails, and  *)
(* whichever answer is lost.                                               *)
THEOREM PublishedReachedKafkaInvariant == Spec => []PublishedReachedKafka
<1>1. PublishInv => PublishedReachedKafka
  BY DEF PublishInv
<1> QED
  BY <1>1, PublishInvariant, PTL
-----------------------------------------------------------------------------
(* published_at is never taken back, and set for what was acknowledged.    *)
LEMMA PublishedMarked ==
  ASSUME Shape, NEW r \in RelayProcess, RecordRelayResult(r),
         NEW e \in EventId, outbox[e] # None, outbox[e].published \/ e \in Published(r)
  PROVE  outbox'[e].published
<1>1. outbox'[e] =
        IF e \in Published(r)
        THEN [outbox[e] EXCEPT !.published = TRUE,
                               !.attempts = outbox[e].attempts + 1,
                               !.last_error = FALSE]
        ELSE IF e \in Failed(r)
        THEN [outbox[e] EXCEPT !.attempts = outbox[e].attempts + 1,
                               !.last_error = TRUE]
        ELSE outbox[e]
  BY DEF RecordRelayResult, RecordResult
<1>2. outbox[e] \in OutboxRow
  BY DEF Shape, TypeOK, StoreTypeOK
<1> DEFINE n == outbox[e].attempts + 1
<1> HIDE DEF n
<1> QED
  BY <1>1, <1>2 DEF OutboxRow, n

(* What a claim takes is pending, in no relay's batch, and taken once.     *)
LEMMA ClaimedLocked ==
  ASSUME NEW b \in claimPending, NEW i \in 1..Len(b)
  PROVE  /\ b[i] \in EventId /\ ~outbox[b[i]].published
         /\ \A q \in RelayProcess : b[i] \notin LockedBy(q)
         /\ \A j \in 1..Len(b) : i # j => b[i] # b[j]
<1>1. PICK n \in 0..BatchSize : b \in [1..n -> Claimable]
  BY DEF claimPending
<1>2. n \in Nat /\ Len(b) = n /\ DOMAIN b = 1..n
  BY <1>1, BatchSizeAssumption
<1>3. b[i] \in Claimable
  BY <1>1, <1>2
<1>4. \A j, k \in 1..n : j < k => b[j] # b[k]
  BY <1>2 DEF claimPending
<1>5. \A j \in 1..n : i # j => i < j \/ j < i
  BY <1>2
<1> QED
  BY <1>2, <1>3, <1>4, <1>5 DEF Claimable, Pending

(* The batch of a relay, as what its rows' locks hold.                     *)
LEMMA BatchTyped ==
  ASSUME Shape, NEW r \in RelayProcess
  PROVE  /\ relay[r].batch \in Seq(EventId) /\ relay[r].acked \in Nat
         /\ relay[r].acked <= Len(relay[r].batch)
         /\ \A i \in 1..Len(relay[r].batch) :
              relay[r].batch[i] \in EventId /\ outbox[relay[r].batch[i]] # None
         /\ LockedBy(r) = {relay[r].batch[i] : i \in 1..Len(relay[r].batch)}
<1>1. /\ relay[r].batch \in Seq(EventId) /\ relay[r].acked \in Nat
      /\ relay[r].acked <= Len(relay[r].batch)
      /\ \A i \in 1..Len(relay[r].batch) : outbox[relay[r].batch[i]] # None
  BY DEF Shape, TypeOK, RelayTypeOK, RelayState, ClaimsHeld, BatchHeld
<1> QED
  BY <1>1 DEF LockedBy, Elements

(* Steps of calls, consumers and the broker touch no claimed row.          *)
LEMMA LocksFrame ==
  ASSUME Shape, Shape', LocksHeld, NotNewlyPublished, UNCHANGED relay
  PROVE  LocksHeld'
<1>1. ASSUME NEW r \in RelayProcess, NEW i \in 1..Len(relay[r].batch)
      PROVE  ~outbox'[relay[r].batch[i]].published
  <2>1. PICK e : e = relay[r].batch[i]
    OBVIOUS
  <2>2. e \in EventId /\ ~outbox[e].published
    BY <2>1, BatchTyped DEF LocksHeld
  <2>3. outbox'[e] # None
    BY <2>1 DEF Shape, ClaimsHeld, BatchHeld
  <2> QED
    BY <2>1, <2>2, <2>3 DEF NotNewlyPublished
<1> QED
  BY <1>1 DEF LocksHeld

(* A relay's step keeps the locks: it claims what nobody has claimed, and  *)
(* marks what nobody else has.                                             *)
LEMMA LocksRelay ==
  ASSUME Shape, Shape', LocksHeld, NEW r \in RelayProcess, RelayStep(r)
  PROVE  LocksHeld'
<1>1. PICK st :
        /\ relay' = [relay EXCEPT ![r] = st]
        /\ \/ st.batch = <<>>
           \/ Claim(r) /\ st.batch \in claimPending
           \/ (PublishFails(r) \/ Publish(r)) /\ st.batch = relay[r].batch
  BY RelayAcks
<1>2. relay'[r] = st /\ \A q \in RelayProcess : q # r => relay'[q] = relay[q]
  BY <1>1 DEF Shape, TypeOK, RelayTypeOK
<1>3. UNCHANGED outbox \/ st.batch = <<>>
  BY <1>1 DEF Claim, Publish, PublishFails, storeVars
<1>4. ASSUME NEW i \in 1..Len(st.batch)
      PROVE  /\ ~outbox'[st.batch[i]].published
             /\ \A j \in 1..Len(st.batch) : st.batch[i] = st.batch[j] => i = j
             /\ \A q \in RelayProcess : q # r =>
                  \A j \in 1..Len(relay[q].batch) : st.batch[i] # relay[q].batch[j]
  <2>1. CASE st.batch = <<>>
    BY <1>4, <2>1
  <2>2. CASE Claim(r) /\ st.batch \in claimPending
    <3>1. /\ ~outbox[st.batch[i]].published
          /\ \A q \in RelayProcess : st.batch[i] \notin LockedBy(q)
          /\ \A j \in 1..Len(st.batch) : i # j => st.batch[i] # st.batch[j]
      BY <1>4, <2>2, ClaimedLocked
    <3>2. UNCHANGED outbox
      BY <2>2 DEF Claim, storeVars
    <3>3. \A q \in RelayProcess :
            LockedBy(q) = {relay[q].batch[j] : j \in 1..Len(relay[q].batch)}
      BY BatchTyped
    <3> QED
      BY <3>1, <3>2, <3>3
  <2>3. CASE (PublishFails(r) \/ Publish(r)) /\ st.batch = relay[r].batch
    <3>1. UNCHANGED outbox
      BY <2>3 DEF Publish, PublishFails, storeVars
    <3> QED
      BY <1>4, <2>3, <3>1 DEF LocksHeld
  <2> QED
    BY <1>1, <2>1, <2>2, <2>3
<1>5. ASSUME NEW q \in RelayProcess, q # r, NEW i \in 1..Len(relay[q].batch)
      PROVE  ~outbox'[relay[q].batch[i]].published
  <2>1. PICK e : e = relay[q].batch[i]
    OBVIOUS
  <2>2. e \in EventId /\ outbox[e] # None /\ ~outbox[e].published
    BY <2>1, BatchTyped DEF LocksHeld
  <2>3. e \notin Published(r)
    <3>1. SUFFICES ASSUME NEW j \in 1..relay[r].acked, e = relay[r].batch[j]
                   PROVE  FALSE
      BY DEF Published
    <3>2. j \in 1..Len(relay[r].batch)
      BY BatchTyped
    <3> QED
      BY <1>5, <2>1, <3>1, <3>2 DEF LocksHeld
  <2>4. outbox'[e] # None
    BY <2>2, RelayKeepsRows DEF RowsKept
  <2> QED
    BY <2>1, <2>2, <2>3, <2>4, RelayMarks
<1>6. SUFFICES ASSUME NEW p \in RelayProcess, NEW q \in RelayProcess,
                      NEW i \in 1..Len(relay'[p].batch), NEW j \in 1..Len(relay'[q].batch)
               PROVE  /\ ~outbox'[relay'[p].batch[i]].published
                      /\ relay'[p].batch[i] = relay'[q].batch[j] => p = q /\ i = j
  BY DEF LocksHeld
<1>7. CASE p = r /\ q = r
  BY <1>2, <1>4, <1>6, <1>7
<1>8. CASE p = r /\ q # r
  BY <1>2, <1>4, <1>6, <1>8
<1>9. CASE p # r /\ q = r
  BY <1>2, <1>4, <1>5, <1>6, <1>9
<1>10. CASE p # r /\ q # r
  BY <1>2, <1>5, <1>6, <1>10 DEF LocksHeld
<1> QED
  BY <1>7, <1>8, <1>9, <1>10
(* The log and the copies: writing x puts one more copy of the event x     *)
(* names into the topic, and none of any other.                            *)
LEMMA NamingWritten ==
  ASSUME Shape, NEW p \in Partition, NEW x \in Payload, Write(p, x), NEW e,
         IsFiniteSet(Naming(e))
  PROVE  /\ IsFiniteSet(Naming(e)')
         /\ Cardinality(Naming(e)') =
              Cardinality(Naming(e)) + (IF x.event_id = e THEN 1 ELSE 0)
<1>1. log \in [Partition -> Seq(Payload)] /\ log[p] \in Seq(Payload)
  BY DEF Shape, TypeOK, KafkaTypeOK
<1>2. PICK n : n = Len(log[p])
  OBVIOUS
<1>3. /\ n \in Nat /\ DOMAIN log[p] = 1..n
      /\ DOMAIN log'[p] = 1..(n + 1) /\ log'[p][n + 1] = x
      /\ \A i \in 1..n : log'[p][i] = log[p][i]
      /\ \A q \in Partition : q # p => log'[q] = log[q]
  BY <1>1, <1>2 DEF Write
<1>4. \A c : c \in Naming(e) <=>
        \E q \in Partition : \E i \in DOMAIN log[q] :
          c = <<q, i>> /\ log[q][i].event_id = e
  BY DEF Naming
<1>5. \A c : c \in Naming(e)' <=>
        \E q \in Partition : \E i \in DOMAIN log'[q] :
          c = <<q, i>> /\ log'[q][i].event_id = e
  BY DEF Naming
<1>6. <<p, n + 1>> \notin Naming(e)
  BY <1>3, <1>4
<1>7. \A i \in 1..(n + 1) : i \in 1..n \/ i = n + 1
  BY <1>3
<1>8. n + 1 \in 1..(n + 1) /\ \A i \in 1..n : i \in 1..(n + 1)
  BY <1>3
<1>9. ASSUME NEW c
      PROVE  c \in Naming(e)' => c \in Naming(e) \/ (c = <<p, n + 1>> /\ x.event_id = e)
  BY <1>3, <1>4, <1>5, <1>7
<1>10. ASSUME NEW c PROVE c \in Naming(e) => c \in Naming(e)'
  BY <1>3, <1>4, <1>5, <1>8
<1>11. CASE x.event_id = e
  <2>1. <<p, n + 1>> \in Naming(e)'
    BY <1>3, <1>5, <1>8, <1>11
  <2>2. Naming(e)' = Naming(e) \cup {<<p, n + 1>>}
    BY <1>9, <1>10, <2>1
  <2>3. PICK S, y : S = Naming(e) /\ y = <<p, n + 1>>
    OBVIOUS
  <2>4. /\ IsFiniteSet(S \cup {y})
        /\ Cardinality(S \cup {y}) = Cardinality(S) + 1
    BY <1>6, <2>3, FS_AddElement
  <2> QED
    BY <1>11, <2>2, <2>3, <2>4
<1>12. CASE x.event_id # e
  <2>1. Naming(e)' = Naming(e)
    BY <1>9, <1>10, <1>12
  <2>2. Cardinality(Naming(e)) \in Nat
    BY FS_CardinalityType
  <2> QED
    BY <1>12, <2>1, <2>2
<1> QED
  BY <1>11, <1>12

(* The copies and produces of e grow by at most g; g is paid for by a      *)
(* disturbance or by the one copy owed.                                    *)
GrowsBy(e, g) ==
  /\ IsFiniteSet(Naming(e)')
  /\ Cardinality(Naming(e)') + inflight'[e] <= Cardinality(Naming(e)) + inflight[e] + g

PaysFor(e, g) == disturbances + Owed(e) + g <= disturbances' + Owed(e)'

LEMMA Balance ==
  ASSUME Shape, Shape', CopiesAccounted, NEW e \in EventId, NEW g \in Nat,
         GrowsBy(e, g), PaysFor(e, g)
  PROVE  /\ IsFiniteSet(Naming(e)')
         /\ Cardinality(Naming(e)') + inflight'[e] <= disturbances' + Owed(e)'
<1>1. /\ IsFiniteSet(Naming(e)) /\ IsFiniteSet(Naming(e)')
      /\ Cardinality(Naming(e)) + inflight[e] <= disturbances + Owed(e)
      /\ Cardinality(Naming(e)') + inflight'[e] <= Cardinality(Naming(e)) + inflight[e] + g
      /\ disturbances + Owed(e) + g <= disturbances' + Owed(e)'
  BY DEF CopiesAccounted, GrowsBy, PaysFor
<1>2. Cardinality(Naming(e)) \in Nat /\ Cardinality(Naming(e)') \in Nat
  BY <1>1, FS_CardinalityType
<1>3. inflight[e] \in Nat /\ inflight'[e] \in Nat
  BY DEF Shape, TypeOK, KafkaTypeOK
<1>4. disturbances \in Nat /\ disturbances' \in Nat
  BY MaxDisturbancesAssumption DEF Shape, TypeOK
<1>5. Owed(e) \in Nat /\ Owed(e)' \in Nat
  BY DEF Owed
<1> QED
  BY <1>1, <1>2, <1>3, <1>4, <1>5

(* A topic without a new record holds no new copy.                         *)
LEMMA NothingWritten ==
  ASSUME CopiesAccounted, Shape, Shape', NEW e \in EventId, UNCHANGED log,
         NEW g \in Nat, inflight'[e] <= inflight[e] + g
  PROVE  GrowsBy(e, g)
<1>1. Naming(e)' = Naming(e) /\ IsFiniteSet(Naming(e))
  BY DEF Naming, CopiesAccounted
<1>2. Cardinality(Naming(e)) \in Nat
  BY <1>1, FS_CardinalityType
<1>3. inflight[e] \in Nat /\ inflight'[e] \in Nat
  BY DEF Shape, TypeOK, KafkaTypeOK
<1> QED
  BY <1>1, <1>2, <1>3 DEF GrowsBy

(* Writing the payload of the stored event d adds a copy of d.             *)
LEMMA EventWritten ==
  ASSUME CopiesAccounted, Shape, Shape', StoreInv, NEW d \in EventId, outbox[d] # None,
         WriteEvent(d), NEW e \in EventId, NEW g \in Nat,
         inflight'[e] + (IF d = e THEN 1 ELSE 0) <= inflight[e] + g
  PROVE  GrowsBy(e, g)
<1>1. PICK s, x : s = outbox[d].shipment /\ x = outbox[d].payload
  OBVIOUS
<1>2. s \in ShipmentId /\ x \in Payload /\ x.event_id = d
  <2>1. s \in ShipmentId /\ x \in Payload /\ shipments[s] # None /\ d \in OutboxRowOf(s)
    BY <1>1 DEF Shape, TypeOK, StoreTypeOK, OutboxRow, StoreInv, StoredTogether, OutboxRowOf
  <2>2. x = NewShipmentCreated(s, shipments[s], d)
    BY <1>1, <2>1 DEF StoreInv, StoredTogether
  <2> QED
    BY <2>1, <2>2 DEF NewShipmentCreated
<1>3. PartitionOf[s] \in Partition /\ Write(PartitionOf[s], x)
  BY <1>1, <1>2, KafkaAssumption DEF WriteEvent
<1>4. IsFiniteSet(Naming(e))
  BY DEF CopiesAccounted
<1>5. /\ IsFiniteSet(Naming(e)')
      /\ Cardinality(Naming(e)') = Cardinality(Naming(e)) + (IF d = e THEN 1 ELSE 0)
  BY <1>2, <1>3, <1>4, NamingWritten
<1>6. Cardinality(Naming(e)) \in Nat
  BY <1>4, FS_CardinalityType
<1>7. inflight[e] \in Nat /\ inflight'[e] \in Nat
  BY DEF Shape, TypeOK, KafkaTypeOK
<1> QED
  BY <1>5, <1>6, <1>7 DEF GrowsBy

(* Giving up the produce of d leaves at most one more on its way.          *)
LEMMA ProduceAbandoned ==
  ASSUME Shape, NEW d \in EventId, Abandon(d) \/ UNCHANGED inflight, NEW e \in EventId
  PROVE  inflight'[e] <= inflight[e] + (IF d = e THEN 1 ELSE 0)
<1>1. inflight \in [EventId -> Nat]
  BY DEF Shape, TypeOK, KafkaTypeOK
<1> QED
  BY <1>1 DEF Abandon

(* A disturbance pays for one copy of every event it leaves acknowledged,  *)
(* and for what it makes owed no more.                                     *)
LEMMA Paid ==
  ASSUME Shape, Shape', NEW e \in EventId, Disturb \/ Undisturbed
  PROVE  /\ (Acknowledged(e) => Acknowledged(e)') => PaysFor(e, 0)
         /\ Disturb => PaysFor(e, 0)
         /\ Disturb /\ (Acknowledged(e) => Acknowledged(e)') => PaysFor(e, 1)
         /\ ~Acknowledged(e) /\ Acknowledged(e)' => PaysFor(e, 1)
<1>1. disturbances \in Nat /\ disturbances' \in Nat
  BY MaxDisturbancesAssumption DEF Shape, TypeOK
<1>2. disturbances' = disturbances \/ disturbances' = disturbances + 1
  BY DEF Disturb, Undisturbed
<1>3. Disturb => disturbances' = disturbances + 1
  BY DEF Disturb
<1>4. /\ Owed(e) \in {0, 1} /\ Owed(e)' \in {0, 1}
      /\ Owed(e) = 1 <=> Acknowledged(e)
      /\ Owed(e)' = 1 <=> Acknowledged(e)'
  BY DEF Owed
<1> QED
  BY <1>1, <1>2, <1>3, <1>4 DEF PaysFor

(* An event stays acknowledged when its row does and the relays do.        *)
LEMMA AcknowledgedFrame ==
  ASSUME UNCHANGED relay,
         \A e \in EventId : outbox[e] # None => outbox'[e] = outbox[e],
         NEW e \in EventId, Acknowledged(e)
  PROVE  Acknowledged(e)'
<1>1. \A r \in RelayProcess : Published(r)' = Published(r)
  BY DEF Published
<1> QED
  BY <1>1 DEF Acknowledged

(* After a step of r, an acknowledged event still is, unless r has dropped *)
(* it from its batch without a mark.                                       *)
LEMMA AcknowledgedRelay ==
  ASSUME Shape, NEW r \in RelayProcess, RelayStep(r), NEW e \in EventId, Acknowledged(e),
         RecordRelayResult(r) \/ Published(r) \subseteq Published(r)'
  PROVE  Acknowledged(e)'
<1>1. PICK st : relay' = [relay EXCEPT ![r] = st]
  BY RelayAcks
<1>2. \A q \in RelayProcess : q # r => relay'[q] = relay[q]
  BY <1>1 DEF Shape, TypeOK, RelayTypeOK
<1>3. \A q \in RelayProcess : q # r => Published(q)' = Published(q)
  BY <1>2 DEF Published
<1>4. UNCHANGED outbox \/ RecordRelayResult(r)
  BY DEF RelayStep, RelayWorks, RelayDisturbed, Claim, ClaimFails, Publish,
         PublishFails, SessionLost, Commit, CommitFails, StopRelay, StartRelay,
         storeVars
<1>5. outbox[e] # None => outbox'[e] # None
  BY RelayKeepsRows DEF RowsKept
<1>6. e \in Published(r) => outbox[e] # None
  BY AckedStored DEF Published
<1>7. CASE RecordRelayResult(r)
  BY <1>3, <1>5, <1>6, <1>7, PublishedMarked DEF Acknowledged
<1>8. CASE UNCHANGED outbox /\ Published(r) \subseteq Published(r)'
  BY <1>3, <1>8 DEF Acknowledged
<1> QED
  BY <1>4, <1>7, <1>8

(* The event a relay is at is not acknowledged: it is pending, no other    *)
(* relay has claimed it, and it comes once in the batch.                   *)
LEMMA CurrentUnacknowledged ==
  ASSUME Shape, LocksHeld, NEW r \in RelayProcess, relay[r].pc = "publish"
  PROVE  ~Acknowledged(Current(r))
<1>1. PICK k : k = relay[r].acked + 1
  OBVIOUS
<1>2. k \in 1..Len(relay[r].batch) /\ Current(r) = relay[r].batch[k]
  BY <1>1, BatchTyped DEF Current, Shape, ClaimsHeld, BatchHeld
<1>3. ~outbox[Current(r)].published
  BY <1>2 DEF LocksHeld
<1>4. ASSUME NEW q \in RelayProcess, NEW j \in 1..relay[q].acked,
             Current(r) = relay[q].batch[j]
      PROVE  FALSE
  <2>1. j \in 1..Len(relay[q].batch) /\ relay[q].acked \in Nat
    BY BatchTyped
  <2>2. relay[r].batch[k] = relay[q].batch[j]
    BY <1>2, <1>4
  <2>3. r = q /\ k = j
    BY <1>2, <2>1, <2>2 DEF LocksHeld
  <2> QED
    BY <1>1, <1>4, <2>1, <2>3
<1> QED
  BY <1>3, <1>4 DEF Acknowledged, Published

(* Nor are the events of its batch that it has not come to.                *)
LEMMA RemainingUnacknowledged ==
  ASSUME Shape, LocksHeld, NEW r \in RelayProcess, NEW e \in Remaining(r)
  PROVE  ~Acknowledged(e)
<1>1. PICK k \in 1..Len(relay[r].batch) : e = relay[r].batch[k]
  BY BatchTyped DEF Remaining
<1>2. ~outbox[e].published
  BY <1>1 DEF LocksHeld
<1>3. ASSUME NEW q \in RelayProcess, NEW j \in 1..relay[q].acked,
             e = relay[q].batch[j]
      PROVE  FALSE
  <2>1. j \in 1..Len(relay[q].batch) /\ relay[q].acked \in Nat
    BY BatchTyped
  <2>2. relay[r].batch[k] = relay[q].batch[j]
    BY <1>1, <1>3
  <2>3. r = q
    BY <1>1, <2>1, <2>2 DEF LocksHeld
  <2> QED
    BY <1>3, <2>3 DEF Remaining, Published
<1> QED
  BY <1>2, <1>3 DEF Acknowledged, Published

(* Publish acknowledges the current event, besides those before it.        *)
LEMMA PublishAcks ==
  ASSUME Shape, NEW r \in RelayProcess, Publish(r), NEW d, d = Current(r)
  PROVE  Published(r) \subseteq Published(r)' /\ d \in Published(r)'
<1>1. PICK st : /\ relay' = [relay EXCEPT ![r] = st]
                /\ st.batch = relay[r].batch /\ st.acked = relay[r].acked + 1
  <2>1. relay' = [relay EXCEPT ![r] = AfterAck(relay[r])]
    BY DEF Publish
  <2>2. relay[r] \in RelayState
    BY DEF Shape, TypeOK, RelayTypeOK
  <2> QED
    BY <2>1, <2>2, AckedState
<1>2. /\ Published(r)' = {relay[r].batch[i] : i \in 1..(relay[r].acked + 1)}
      /\ relay[r].acked \in Nat
  BY <1>1, BatchTyped DEF Published, Shape, TypeOK, RelayTypeOK
<1>3. /\ relay[r].acked + 1 \in 1..(relay[r].acked + 1)
      /\ \A i \in 1..relay[r].acked : i \in 1..(relay[r].acked + 1)
  BY <1>2
<1>4. Published(r) = {relay[r].batch[i] : i \in 1..relay[r].acked}
  BY DEF Published
<1>5. d = relay[r].batch[relay[r].acked + 1]
  BY DEF Current
<1> QED
  BY <1>2, <1>3, <1>4, <1>5

(* A relay's step is paid for: a produce that is acknowledged by the copy  *)
(* owed, one that is given up, and a result that is lost, by the failure.  *)
LEMMA RelayPays ==
  ASSUME Shape, Shape', StoreInv, CopyInv, NEW r \in RelayProcess, RelayStep(r)
  PROVE  CopiesAccounted'
<1> SUFFICES ASSUME NEW e \in EventId
             PROVE  \E g \in Nat : GrowsBy(e, g) /\ PaysFor(e, g)
  BY Balance DEF CopiesAccounted, CopyInv
<1>0. inflight[e] \in Nat /\ inflight'[e] \in Nat
  BY DEF Shape, TypeOK, KafkaTypeOK
<1>1. ASSUME UNCHANGED <<log, inflight>> PROVE GrowsBy(e, 0)
  BY <1>0, <1>1, NothingWritten DEF CopyInv
<1>2. CASE Claim(r) \/ ClaimFails(r) \/ StartRelay(r)
  <2>1. relay[r].acked = 0
    BY <1>2 DEF Claim, ClaimFails, StartRelay, Shape, ClaimsHeld, BatchHeld
  <2>2. Published(r) \subseteq Published(r)'
    BY <2>1 DEF Published
  <2>3. UNCHANGED <<log, inflight>> /\ (Disturb \/ Undisturbed)
    BY <1>2 DEF Claim, ClaimFails, StartRelay, kafkaVars
  <2> QED
    BY <1>1, <2>2, <2>3, AcknowledgedRelay, Paid
<1>3. CASE Commit(r)
  BY <1>1, <1>3, AcknowledgedRelay, Paid DEF Commit, kafkaVars
<1>4. CASE CommitFails(r)
  BY <1>1, <1>4, Paid DEF CommitFails, kafkaVars
<1>5. CASE Publish(r)
  <2>1. PICK d : d = Current(r)
    OBVIOUS
  <2>2. /\ d \in EventId /\ outbox[d] # None /\ WriteEvent(d)
        /\ UNCHANGED <<outbox, inflight>> /\ Undisturbed
    BY <1>5, <2>1, CurrentStored DEF Publish, storeVars
  <2>3. Published(r) \subseteq Published(r)' /\ d \in Published(r)'
    BY <1>5, <2>1, PublishAcks
  <2>4. CASE e = d
    <3>1. ~Acknowledged(e) /\ Acknowledged(e)'
      BY <1>5, <2>1, <2>3, <2>4, CurrentUnacknowledged DEF Publish, Acknowledged, CopyInv
    <3>2. GrowsBy(e, 1)
      BY <1>0, <2>2, <2>4, EventWritten DEF CopyInv
    <3> QED
      BY <2>2, <3>1, <3>2, Paid
  <2>5. CASE e # d
    <3>1. GrowsBy(e, 0)
      BY <1>0, <2>2, <2>5, EventWritten DEF CopyInv
    <3> QED
      BY <2>2, <2>3, <3>1, AcknowledgedRelay, Paid
  <2> QED
    BY <2>4, <2>5
<1>6. CASE PublishFails(r)
  <2>1. PICK st : /\ relay' = [relay EXCEPT ![r] = st]
                  /\ st.batch = relay[r].batch /\ st.acked = relay[r].acked
    <3> DEFINE st == [relay[r] EXCEPT !.pc = "mark", !.failed = Current(r)]
    <3>1. relay' = [relay EXCEPT ![r] = st]
      BY <1>6 DEF PublishFails
    <3>2. st.batch = relay[r].batch /\ st.acked = relay[r].acked
      BY DEF Shape, TypeOK, RelayTypeOK, RelayState
    <3> HIDE DEF st
    <3> QED
      BY <3>1, <3>2
  <2>2. Published(r)' = Published(r)
    BY <2>1 DEF Published, Shape, TypeOK, RelayTypeOK
  <2>3. Acknowledged(e) => Acknowledged(e)'
    BY <2>2, AcknowledgedRelay
  <2>4. CASE UNCHANGED inflight
    BY <1>1, <1>6, <2>3, <2>4, Paid DEF PublishFails
  <2>5. CASE Disturb /\ Abandon(Current(r))
    <3>1. inflight'[e] <= inflight[e] + 1
      BY <1>0, <1>6, <2>5, CurrentStored, ProduceAbandoned DEF PublishFails
    <3>2. GrowsBy(e, 1)
      BY <1>6, <3>1, NothingWritten DEF PublishFails, CopyInv
    <3> QED
      BY <2>3, <2>5, <3>2, Paid
  <2> QED
    BY <1>6, <2>4, <2>5 DEF PublishFails
<1>7. CASE StopRelay(r)
  <2>1. Disturb /\ UNCHANGED log
    BY <1>7 DEF StopRelay
  <2>2. CASE UNCHANGED inflight
    BY <1>1, <2>1, <2>2, Paid
  <2>3. CASE relay[r].pc = "publish" /\ Abandon(Current(r))
    <3>1. PICK d \in EventId : d = Current(r)
      BY <2>3, CurrentStored
    <3>2. inflight'[e] <= inflight[e] + (IF d = e THEN 1 ELSE 0)
      BY <2>3, <3>1, ProduceAbandoned
    <3>3. CASE d = e
      <4>1. ~Acknowledged(e)
        BY <2>3, <3>1, <3>3, CurrentUnacknowledged DEF CopyInv
      <4>2. GrowsBy(e, 1)
        BY <2>1, <3>2, <3>3, NothingWritten DEF CopyInv
      <4> QED
        BY <2>1, <4>1, <4>2, Paid
    <3>4. CASE d # e
      <4>1. GrowsBy(e, 0)
        BY <2>1, <3>2, <3>4, NothingWritten DEF CopyInv
      <4> QED
        BY <2>1, <4>1, Paid
    <3> QED
      BY <3>3, <3>4
  <2> QED
    BY <1>7, <2>2, <2>3 DEF StopRelay
<1>8. CASE SessionLost(r)
  <2>1. Disturb /\ UNCHANGED log
    BY <1>8 DEF SessionLost
  <2>2. inflight'[e] = inflight[e] + IF e \in Remaining(r) THEN 1 ELSE 0
    BY <1>8 DEF SessionLost
  <2>3. CASE e \in Remaining(r)
    <3>1. ~Acknowledged(e)
      BY <2>3, RemainingUnacknowledged DEF CopyInv
    <3>2. GrowsBy(e, 1)
      BY <1>0, <2>1, <2>2, <2>3, NothingWritten DEF CopyInv
    <3> QED
      BY <2>1, <3>1, <3>2, Paid
  <2>4. CASE e \notin Remaining(r)
    <3>1. GrowsBy(e, 0)
      BY <1>0, <2>1, <2>2, <2>4, NothingWritten DEF CopyInv
    <3> QED
      BY <2>1, <3>1, Paid
  <2> QED
    BY <2>3, <2>4
<1> QED
  BY <1>2, <1>3, <1>4, <1>5, <1>6, <1>7, <1>8
     DEF RelayStep, RelayWorks, RelayDisturbed

(* A record that lands was counted while it was on its way; a replay and   *)
(* a record of another producer are disturbances.                          *)
LEMMA OutsidePays ==
  ASSUME Shape, Shape', StoreInv, CopyInv, OutsideNext
  PROVE  CopiesAccounted'
<1> SUFFICES ASSUME NEW e \in EventId
             PROVE  \E g \in Nat : GrowsBy(e, g) /\ PaysFor(e, g)
  BY Balance DEF CopiesAccounted, CopyInv
<1>0. inflight[e] \in Nat /\ inflight'[e] \in Nat /\ inflight \in [EventId -> Nat]
  BY DEF Shape, TypeOK, KafkaTypeOK
<1>1. Acknowledged(e) => Acknowledged(e)'
  BY OutsideKeepsTables, AcknowledgedFrame DEF storeVars
<1>2. ASSUME NEW d \in EventId, LateWrite(d)
      PROVE  \E g \in Nat : GrowsBy(e, g) /\ PaysFor(e, g)
  <2>1. /\ outbox[d] # None /\ WriteEvent(d) /\ Undisturbed /\ inflight[d] > 0
        /\ inflight' = [inflight EXCEPT ![d] = inflight[d] - 1]
    BY <1>2 DEF LateWrite, Land, Shape, InflightStored
  <2>2. inflight'[e] + (IF d = e THEN 1 ELSE 0) <= inflight[e] + 0
    BY <1>0, <2>1
  <2>3. GrowsBy(e, 0)
    BY <2>1, <2>2, EventWritten DEF CopyInv
  <2> QED
    BY <1>1, <2>1, <2>3, Paid
<1>3. ASSUME NEW d \in EventId, Replay(d)
      PROVE  \E g \in Nat : GrowsBy(e, g) /\ PaysFor(e, g)
  <2>1. outbox[d] # None /\ Disturb
    BY <1>3 DEF Replay
  <2>2. CASE WriteEvent(d) /\ UNCHANGED inflight
    <3>1. GrowsBy(e, 1)
      BY <1>0, <2>1, <2>2, EventWritten DEF CopyInv
    <3> QED
      BY <1>1, <2>1, <3>1, Paid
  <2>3. CASE Abandon(d) /\ UNCHANGED log
    <3>1. inflight'[e] <= inflight[e] + 1
      BY <1>0, <2>3, ProduceAbandoned
    <3>2. GrowsBy(e, 1)
      BY <2>3, <3>1, NothingWritten DEF CopyInv
    <3> QED
      BY <1>1, <2>1, <3>2, Paid
  <2> QED
    BY <1>3, <2>2, <2>3 DEF Replay
<1>4. ASSUME NEW p \in Partition, NEW payload \in ForeignRecord, ForeignWrite(p, payload)
      PROVE  \E g \in Nat : GrowsBy(e, g) /\ PaysFor(e, g)
  <2>1. Disturb /\ Write(p, payload) /\ UNCHANGED inflight /\ payload \in Payload
    BY <1>4, ForeignRecordAssumption DEF ForeignWrite
  <2>2. IsFiniteSet(Naming(e))
    BY DEF CopyInv, CopiesAccounted
  <2>3. /\ IsFiniteSet(Naming(e)')
        /\ Cardinality(Naming(e)') =
             Cardinality(Naming(e)) + (IF payload.event_id = e THEN 1 ELSE 0)
    BY <2>1, <2>2, NamingWritten
  <2>4. Cardinality(Naming(e)) \in Nat
    BY <2>2, FS_CardinalityType
  <2>5. GrowsBy(e, 1)
    BY <1>0, <2>1, <2>3, <2>4 DEF GrowsBy
  <2> QED
    BY <1>1, <2>1, <2>5, Paid
<1> QED
  BY <1>2, <1>3, <1>4 DEF OutsideNext

(* Calls and consumers put nothing into the topic.                         *)
LEMMA OthersPay ==
  ASSUME Shape, Shape', CopyInv, UNCHANGED <<log, inflight, relay>>,
         \A e \in EventId : outbox[e] # None => outbox'[e] = outbox[e],
         Disturb \/ Undisturbed
  PROVE  CopiesAccounted'
<1> SUFFICES ASSUME NEW e \in EventId
             PROVE  GrowsBy(e, 0) /\ PaysFor(e, 0)
  BY Balance DEF CopiesAccounted, CopyInv
<1>1. Acknowledged(e) => Acknowledged(e)'
  BY AcknowledgedFrame
<1>2. inflight[e] \in Nat
  BY DEF Shape, TypeOK, KafkaTypeOK
<1> QED
  BY <1>1, <1>2, NothingWritten, Paid DEF CopyInv

(* A call leaves the rows that are there as they are.                      *)
LEMMA CallAddsRows ==
  ASSUME Shape, StoreInv, NEW c \in Call, CallStep(c), NEW e \in EventId, outbox[e] # None
  PROVE  outbox'[e] = outbox[e]
<1>1. CASE UNCHANGED storeVars
  BY <1>1 DEF storeVars
<1>2. CASE call[c].pc = "store" /\ Accepted(c) /\ StoreCall(c)
  <2>1. PICK id, ev, row :
          id = call[c].shipment /\ ev = call[c].event /\ row = call[c].row
    OBVIOUS
  <2>2. Stores(id, ev, row)
    BY <1>2, <2>1, StoredRows
  <2> QED
    BY <2>2 DEF Stores
<1> QED
  BY <1>1, <1>2
     DEF CallStep, CallStored, CallPriced, RefuseWeight, RefuseQuote, Price, StoreShipment,
         StoreRefused, StoreFails

(* Every step keeps CopyInv. *)
LEMMA CopyNext ==
  ASSUME Shape, Shape', StoreInv, CopyInv, [Next]_vars
  PROVE  CopyInv'
<1>1. ASSUME UNCHANGED outbox PROVE NotNewlyPublished
  BY <1>1 DEF NotNewlyPublished
<1>2. CASE APINext
  <2>1. PICK c \in Call : CallStep(c)
    BY <1>2 DEF APINext
  <2>2. UNCHANGED <<log, inflight, relay>>
    BY <1>2 DEF APINext, kafkaVars
  <2>3. Disturb \/ Undisturbed
    BY <2>1 DEF CallStep, CallStored, CallPriced, RefuseWeight, RefuseQuote, Price, StoreShipment,
                StoreRefused, StoreFails
  <2>4. CopiesAccounted'
    BY <2>1, <2>2, <2>3, CallAddsRows, OthersPay
  <2>5. LocksHeld'
    BY <2>1, <2>2, CallPublishesNothing, LocksFrame DEF CopyInv
  <2> QED
    BY <2>4, <2>5 DEF CopyInv
<1>3. CASE RelayNext
  BY <1>3, LocksRelay, RelayPays DEF RelayNext, CopyInv
<1>4. CASE ConsumerNext
  <2>1. PICK m \in Member : MemberStep(m) /\ UNCHANGED relay
    BY <1>4 DEF ConsumerNext
  <2>2. UNCHANGED <<log, inflight>> /\ (Disturb \/ Undisturbed)
    BY <2>1
       DEF MemberStep, MemberWorks, MemberDisturbed, StartMember, Assign, Revoke, Remove,
           Poll, Reject, InsertProcessed, InsertDispatch, Conflict, Orphan, CommitTx,
           StorageFails, CommitOffset, OffsetFenced, OffsetFails, StopMember, kafkaVars
  <2>3. UNCHANGED outbox
    BY <2>1, MemberKeepsRows
  <2>4. CopiesAccounted'
    BY <2>1, <2>2, <2>3, OthersPay
  <2> QED
    BY <1>1, <2>1, <2>3, <2>4, LocksFrame DEF CopyInv
<1>5. CASE OutsideNext
  <2>1. UNCHANGED <<outbox, relay>>
    BY <1>5, OutsideKeepsTables DEF storeVars
  <2> QED
    BY <1>1, <1>5, <2>1, OutsidePays, LocksFrame DEF CopyInv
<1>6. CASE UNCHANGED vars
  BY <1>1, <1>6, OthersPay, LocksFrame
     DEF vars, storeVars, kafkaVars, Undisturbed, CopyInv
<1> QED
  BY <1>2, <1>3, <1>4, <1>5, <1>6 DEF Next

(* CopyInv is an invariant: rows are locked by one relay at a time, and    *)
(* every copy of an event beyond the one its relay owes it took a          *)
(* disturbance.                                                            *)
THEOREM CopyInvariant == Spec => []CopyInv
<1>1. ASSUME Init PROVE CopyInv
  <2>1. LocksHeld
    BY <1>1 DEF Init, RelayInit, Down, BetweenPolls, LocksHeld
  <2>2. ASSUME NEW e \in EventId
        PROVE  /\ IsFiniteSet(Naming(e))
               /\ Cardinality(Naming(e)) + inflight[e] <= disturbances + Owed(e)
    <3>1. \A p \in Partition : DOMAIN log[p] = {}
      BY <1>1 DEF Init, KafkaInit
    <3>2. Naming(e) = {}
      BY <3>1 DEF Naming
    <3>3. inflight[e] = 0 /\ disturbances = 0 /\ Owed(e) \in Nat
      BY <1>1 DEF Init, KafkaInit, Owed
    <3> QED
      BY <3>2, <3>3, FS_EmptySet
  <2> QED
    BY <2>1, <2>2 DEF CopyInv, CopiesAccounted
<1>2. Shape /\ Shape' /\ StoreInv /\ CopyInv /\ [Next]_vars => CopyInv'
  BY CopyNext
<1> QED
  BY <1>1, <1>2, ShapeInvariant, StoreInvariant, PTL DEF Spec

(* The transactional outbox by itself publishes every event once: any      *)
(* number of relays, however they interleave, never put a second copy into *)
(* the topic unless a produce timed out, a COMMIT or its answer was lost,  *)
(* a process ended or an operator replayed; and each of these adds one.    *)
THEOREM DuplicatesNeedDisturbanceInvariant == Spec => []DuplicatesNeedDisturbance
<1>1. ASSUME Shape, StoreInv, CopyInv PROVE DuplicatesNeedDisturbance
  <2>1. SUFFICES ASSUME NEW e \in EventId, outbox[e] # None
                 PROVE  Cardinality(Copies(e)) + inflight[e] <= 1 + disturbances
    BY DEF DuplicatesNeedDisturbance
  <2>2. PICK s : s = outbox[e].shipment
    OBVIOUS
  <2>3. s \in ShipmentId /\ shipments[s] # None /\ e \in OutboxRowOf(s)
    BY <1>1, <2>1, <2>2
       DEF Shape, TypeOK, StoreTypeOK, OutboxRow, StoreInv, StoredTogether, OutboxRowOf
  <2>4. outbox[e].payload = NewShipmentCreated(s, shipments[s], e)
    BY <1>1, <2>3 DEF StoreInv, StoredTogether
  <2>5. outbox[e].payload.event_id = e
    BY <2>4 DEF NewShipmentCreated
  <2>6. Copies(e) \subseteq Naming(e)
    BY <2>5 DEF Copies, Naming
  <2>7. /\ IsFiniteSet(Naming(e))
        /\ Cardinality(Naming(e)) + inflight[e] <= disturbances + Owed(e)
    BY <1>1 DEF CopyInv, CopiesAccounted
  <2>8. /\ IsFiniteSet(Copies(e))
        /\ Cardinality(Copies(e)) <= Cardinality(Naming(e))
    BY <2>6, <2>7, FS_Subset
  <2>9. Cardinality(Copies(e)) \in Nat /\ Cardinality(Naming(e)) \in Nat
    BY <2>7, <2>8, FS_CardinalityType
  <2>10. inflight[e] \in Nat /\ disturbances \in Nat /\ Owed(e) \in {0, 1}
    BY <1>1, MaxDisturbancesAssumption DEF Shape, TypeOK, KafkaTypeOK, Owed
  <2> QED
    BY <2>7, <2>8, <2>9, <2>10
<1> QED
  BY <1>1, ShapeInvariant, StoreInvariant, CopyInvariant, PTL

(* The invariant the consumer's run checks as a whole is one: what every   *)
(* call, relay and consumer may rely on between any two of its own steps.  *)
THEOREM Invariant == Spec => []Inv
<1>1. Shape /\ StoreInv /\ OffsetInv /\ DispatchInv /\ PublishInv /\ CopyInv => Inv
  BY DEF Inv
<1> QED
  BY <1>1, ShapeInvariant, StoreInvariant, OffsetInvariant, DispatchInvariant,
     PublishInvariant, CopyInvariant, PTL
=============================================================================

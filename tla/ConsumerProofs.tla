--------------------------- MODULE ConsumerProofs ---------------------------
(***************************************************************************)
(* The consumers: the committed offset never passes an unhandled record,   *)
(* and every event is dispatched once.                                     *)
(***************************************************************************)
EXTENDS StoreProofs

(* Other components only append to the log, and the group, the members and *)
(* processed_events are as they were.                                      *)
LEMMA OffsetFrame ==
  ASSUME Shape, OffsetInv, log' \in [Partition -> Seq(Payload)], LogGrows,
         UNCHANGED <<committed, owner, position, member, processed>>
  PROVE  OffsetInv'
<1>1. /\ ConsumerTypeOK /\ RecordsHeld /\ log \in [Partition -> Seq(Payload)]
      /\ committed \in [Partition -> Nat]
  BY DEF Shape, TypeOK, KafkaTypeOK
<1>2. HandledBeforeCommit'
  <2>1. SUFFICES ASSUME NEW m \in Member, member[m].pc = "offset"
                 PROVE  log'[member[m].part][member[m].offset].event_id \in processed
    BY DEF HandledBeforeCommit, Record
  <2>2. /\ member[m].part \in Partition
        /\ member[m].offset \in 1..Len(log[member[m].part])
    BY <1>1, <2>1 DEF RecordsHeld, RecordHeld
  <2>3. log'[member[m].part][member[m].offset] = Record(m)
    BY <2>2 DEF LogGrows, Record
  <2> QED
    BY <2>1, <2>3 DEF OffsetInv, HandledBeforeCommit
<1>3. OneRecordAhead'
  BY DEF OffsetInv, OneRecordAhead, Busy
<1>4. CommittedAreProcessed'
  <2>1. SUFFICES ASSUME NEW p \in Partition, NEW i \in 1..committed[p]
                 PROVE  /\ i <= Len(log'[p])
                        /\ Decodes(log'[p][i])
                        /\ log'[p][i].event_id \in processed
    BY DEF CommittedAreProcessed
  <2>2. /\ i <= Len(log[p])
        /\ Decodes(log[p][i])
        /\ log[p][i].event_id \in processed
    BY DEF OffsetInv, CommittedAreProcessed
  <2>3. i \in Nat /\ Len(log[p]) \in Nat /\ Len(log'[p]) \in Nat /\ i \in 1..Len(log[p])
    BY <1>1, <2>2
  <2>4. Len(log[p]) <= Len(log'[p]) /\ log'[p][i] = log[p][i]
    BY <2>3 DEF LogGrows
  <2> QED
    BY <2>2, <2>3, <2>4
<1> QED
  BY <1>2, <1>3, <1>4 DEF OffsetInv

(* Rows of processed_events are never deleted.                             *)
LEMMA ProcessedGrows ==
  ASSUME NEW m \in Member, CommittedUnseen(m) \/ UNCHANGED storeVars
  PROVE  processed \subseteq processed'
BY DEF CommittedUnseen, RecordDispatchTx, storeVars

(* Member m moves to st: at an offset commit its event is in the table.    *)
LEMMA HandledMoves ==
  ASSUME Shape, HandledBeforeCommit, NEW m \in Member, NEW st, UNCHANGED log,
         member' = [member EXCEPT ![m] = st], processed \subseteq processed',
         st.pc = "offset" => log[st.part][st.offset].event_id \in processed'
  PROVE  HandledBeforeCommit'
<1>1. member \in [Member -> MemberState]
  BY DEF Shape, TypeOK, ConsumerTypeOK
<1>2. ASSUME NEW n \in Member, member'[n].pc = "offset"
      PROVE  log[member'[n].part][member'[n].offset].event_id \in processed'
  <2>1. CASE n = m
    BY <1>1, <1>2, <2>1
  <2>2. CASE n # m
    <3>1. member'[n] = member[n]
      BY <1>1, <2>2
    <3> QED
      BY <1>2, <3>1 DEF HandledBeforeCommit, Record
  <2> QED
    BY <2>1, <2>2
<1> QED
  BY <1>2 DEF HandledBeforeCommit, Record

(* The owner of the record in hand commits it, or nobody commits.          *)
OffsetStep(m) ==
  \/ UNCHANGED committed
  \/ member[m].pc = "offset" /\ owner[member[m].part] = m /\ MoveOffset(m)

(* The committed offset moves by one, over the record its owner handled.   *)
LEMMA OffsetStepByOne ==
  ASSUME Shape, OffsetInv, NEW m \in Member, member[m].pc = "offset",
         owner[member[m].part] = m, MoveOffset(m)
  PROVE  /\ member[m].part \in Partition
         /\ member[m].offset = committed[member[m].part] + 1
         /\ position[member[m].part] = member[m].offset
         /\ committed' = [committed EXCEPT ![member[m].part] = member[m].offset]
<1>1. member[m].part \in Partition /\ Busy(m)
  BY DEF Shape, RecordsHeld, RecordHeld, Busy
<1> QED
  BY <1>1 DEF OffsetInv, OneRecordAhead, MoveOffset

(* Committing the record in hand keeps CommittedAreProcessed.              *)
LEMMA CommittedMoves ==
  ASSUME Shape, OffsetInv, NEW m \in Member, OffsetStep(m), UNCHANGED log,
         processed \subseteq processed'
  PROVE  CommittedAreProcessed'
<1>1. CASE UNCHANGED committed
  BY <1>1 DEF OffsetInv, CommittedAreProcessed
<1>2. CASE member[m].pc = "offset" /\ owner[member[m].part] = m /\ MoveOffset(m)
  <2> DEFINE q == member[m].part
             k == member[m].offset
  <2>1. /\ q \in Partition /\ k = committed[q] + 1
        /\ committed' = [committed EXCEPT ![q] = k]
    BY <1>2, OffsetStepByOne
  <2>2. /\ k \in 1..Len(log[q]) /\ Decodes(log[q][k])
    BY <1>2 DEF Shape, RecordsHeld, RecordHeld
  <2>3. log[q][k].event_id \in processed
    BY <1>2 DEF OffsetInv, HandledBeforeCommit, Record
  <2>4. committed \in [Partition -> Nat] /\ log \in [Partition -> Seq(Payload)]
    BY DEF Shape, TypeOK, KafkaTypeOK
  <2>5. k <= Len(log[q])
    BY <2>1, <2>2, <2>4
  <2> HIDE DEF q, k
  <2>6. ASSUME NEW p \in Partition, NEW i \in 1..committed'[p]
        PROVE  /\ i <= Len(log[p])
               /\ Decodes(log[p][i])
               /\ log[p][i].event_id \in processed
    <3>1. CASE p = q /\ i = k
      BY <2>2, <2>3, <2>5, <3>1
    <3>2. CASE ~(p = q /\ i = k)
      <4>1. i \in 1..committed[p]
        <5>1. CASE p = q
          BY <2>1, <2>4, <3>2, <5>1
        <5>2. CASE p # q
          BY <2>1, <2>4, <5>2
        <5> QED
          BY <5>1, <5>2
      <4> QED
        BY <4>1 DEF OffsetInv, CommittedAreProcessed
    <3> QED
      BY <3>1, <3>2
  <2> QED
    BY <2>6 DEF CommittedAreProcessed
<1> QED
  BY <1>1, <1>2 DEF OffsetStep

(* A member that ends owns nothing; what it commits was its own partition. *)
LEMMA AheadExit ==
  ASSUME Shape, OffsetInv, NEW m \in Member, Exit(m), UNCHANGED position, OffsetStep(m)
  PROVE  OneRecordAhead'
<1>1. /\ owner \in [Partition -> Member \cup {None}] /\ None \notin Member
      /\ committed \in [Partition -> Nat] /\ member \in [Member -> MemberState]
  BY KafkaAssumption DEF Shape, TypeOK, KafkaTypeOK, ConsumerTypeOK
<1>2. ASSUME NEW p \in Partition, NEW n \in Member, owner'[p] = n
      PROVE  n # m /\ owner[p] = n
  BY <1>1, <1>2 DEF Exit, Release
<1>3. ASSUME NEW n \in Member, n # m PROVE member'[n] = member[n]
  BY <1>1, <1>3 DEF Exit
<1>4. ASSUME NEW p \in Partition, owner[p] # m PROVE committed'[p] = committed[p]
  BY <1>1, <1>4 DEF OffsetStep, MoveOffset
<1> QED
  BY <1>2, <1>3, <1>4 DEF OffsetInv, OneRecordAhead, Busy

(* A busy member goes on with the same record.                             *)
LEMMA AheadStays ==
  ASSUME Shape, OffsetInv, NEW m \in Member, NEW st,
         member' = [member EXCEPT ![m] = st],
         st.pc \notin {"down", "idle"}, Busy(m),
         st.part = member[m].part, st.offset = member[m].offset,
         UNCHANGED <<owner, position, committed>>
  PROVE  OneRecordAhead'
<1>1. member \in [Member -> MemberState]
  BY DEF Shape, TypeOK, ConsumerTypeOK
<1>2. ASSUME NEW n \in Member
      PROVE  /\ member'[n].part = member[n].part
             /\ member'[n].offset = member[n].offset
             /\ Busy(n)' <=> Busy(n)
             /\ member[n].pc # "down" => member'[n].pc # "down"
  <2>1. CASE n = m
    BY <1>1, <2>1 DEF Busy
  <2>2. CASE n # m
    BY <1>1, <2>2 DEF Busy
  <2> QED
    BY <2>1, <2>2
<1> QED
  BY <1>2 DEF OffsetInv, OneRecordAhead

(* The process ends, having perhaps committed the record it held.          *)
LEMMA OffsetExit ==
  ASSUME Shape, OffsetInv, NEW m \in Member, Exit(m), OffsetStep(m),
         UNCHANGED <<log, position>>, processed \subseteq processed'
  PROVE  OffsetInv'
<1>1. OneRecordAhead' /\ CommittedAreProcessed'
  BY AheadExit, CommittedMoves
<1>2. Resting("down").pc # "offset" /\ member' = [member EXCEPT ![m] = Resting("down")]
  BY DEF Exit, Resting
<1>3. HandledBeforeCommit'
  BY <1>2, HandledMoves DEF OffsetInv
<1> QED
  BY <1>1, <1>3 DEF OffsetInv

(* A busy member's next step with its record, the group left alone.        *)
LEMMA OffsetGoto ==
  ASSUME Shape, OffsetInv, NEW m \in Member, Busy(m),
         NEW pc \in {"handle", "dispatch", "commit", "offset"}, Goto(m, pc),
         UNCHANGED <<log, committed, owner, position>>, processed \subseteq processed',
         pc = "offset" => Record(m).event_id \in processed'
  PROVE  OffsetInv'
<1> DEFINE st == [member[m] EXCEPT !.pc = pc]
<1>1. member' = [member EXCEPT ![m] = st]
  BY DEF Goto
<1>2. st.pc = pc /\ st.part = member[m].part /\ st.offset = member[m].offset
  BY DEF Shape, TypeOK, ConsumerTypeOK, MemberState
<1> HIDE DEF st
<1>3. OneRecordAhead'
  BY <1>1, <1>2, AheadStays
<1>4. HandledBeforeCommit'
  BY <1>1, <1>2, HandledMoves DEF OffsetInv, Record
<1>5. CommittedAreProcessed'
  BY CommittedMoves DEF OffsetStep
<1> QED
  BY <1>3, <1>4, <1>5 DEF OffsetInv

(* A failed attempt is repeated with the same record, or ends the process. *)
LEMMA OffsetRetry ==
  ASSUME Shape, OffsetInv, NEW m \in Member, Busy(m), RetryOrGiveUp(m),
         UNCHANGED <<log, committed, position>>, processed \subseteq processed'
  PROVE  OffsetInv'
<1>1. CASE Exit(m)
  BY <1>1, OffsetExit DEF OffsetStep
<1>2. CASE /\ member[m].attempt < MaxAttempts
           /\ member' = [member EXCEPT ![m].pc = "handle", ![m].attempt = @ + 1]
           /\ UNCHANGED owner
  <2> DEFINE n == member[m].attempt + 1
             st == [member[m] EXCEPT !.pc = "handle", !.attempt = n]
  <2>1. member' = [member EXCEPT ![m] = st]
    BY <1>2
  <2>2. st.pc = "handle" /\ st.part = member[m].part /\ st.offset = member[m].offset
    BY DEF Shape, TypeOK, ConsumerTypeOK, MemberState
  <2> HIDE DEF n, st
  <2>3. OneRecordAhead'
    BY <1>2, <2>1, <2>2, AheadStays
  <2>4. HandledBeforeCommit'
    BY <2>1, <2>2, HandledMoves DEF OffsetInv
  <2>5. CommittedAreProcessed'
    BY CommittedMoves DEF OffsetStep
  <2> QED
    BY <2>3, <2>4, <2>5 DEF OffsetInv
<1> QED
  BY <1>1, <1>2 DEF RetryOrGiveUp

(* Members and their records are left alone.                               *)
LEMMA OffsetGroup ==
  ASSUME Shape, OffsetInv, UNCHANGED <<log, committed, member, processed>>,
         OneRecordAhead'
  PROVE  OffsetInv'
BY DEF OffsetInv, HandledBeforeCommit, Record, CommittedAreProcessed

(* A step of a consumer keeps OffsetInv. *)
LEMMA OffsetConsumer ==
  ASSUME Shape, OffsetInv, NEW m \in Member, MemberStep(m)
  PROVE  OffsetInv'
<1>0. /\ owner \in [Partition -> Member \cup {None}] /\ None \notin Member
      /\ committed \in [Partition -> Nat] /\ position \in [Partition -> Nat]
      /\ member \in [Member -> MemberState] /\ OneRecordAhead
  BY KafkaAssumption DEF Shape, TypeOK, KafkaTypeOK, ConsumerTypeOK, OffsetInv
<1>1. ASSUME UNCHANGED storeVars PROVE processed \subseteq processed' /\ UNCHANGED processed
  BY <1>1 DEF storeVars
<1>2. ASSUME UNCHANGED kafkaVars PROVE UNCHANGED <<log, committed, owner, position>>
  BY <1>2 DEF kafkaVars
<1>3. ASSUME NEW n \in Member, NEW st, n # m, member' = [member EXCEPT ![m] = st]
      PROVE  member'[n] = member[n] /\ (Busy(n)' <=> Busy(n))
  BY <1>0, <1>3 DEF Busy
<1>4. CASE StartMember(m)
  <2> DEFINE st == [member[m] EXCEPT !.pc = "idle"]
  <2>1. /\ member[m].pc = "down" /\ member' = [member EXCEPT ![m] = st]
        /\ UNCHANGED storeVars /\ UNCHANGED kafkaVars
    BY <1>4 DEF StartMember, Goto
  <2>2. st.pc = "idle"
    BY <1>0 DEF MemberState
  <2> HIDE DEF st
  <2>3. HandledBeforeCommit'
    BY <1>1, <1>2, <2>1, <2>2, HandledMoves DEF OffsetInv
  <2>4. CommittedAreProcessed'
    BY <1>1, <1>2, <2>1, CommittedMoves DEF OffsetStep
  <2>5. \A p \in Partition : owner[p] # m
    BY <1>0, <2>1 DEF OneRecordAhead
  <2>6. \A n \in Member : n # m => member'[n] = member[n] /\ (Busy(n)' <=> Busy(n))
    BY <1>3, <2>1
  <2>7. OneRecordAhead'
    BY <1>0, <1>2, <2>1, <2>5, <2>6 DEF OneRecordAhead
  <2> QED
    BY <2>3, <2>4, <2>7 DEF OffsetInv
<1>5. ASSUME NEW p \in Partition, Assign(m, p) PROVE OffsetInv'
  <2>1. OneRecordAhead'
    BY <1>0, <1>5 DEF Assign, OneRecordAhead, Busy
  <2> QED
    BY <1>1, <1>5, <2>1, OffsetGroup DEF Assign
<1>6. ASSUME NEW p \in Partition, Revoke(m, p) PROVE OffsetInv'
  <2>1. OneRecordAhead'
    BY <1>0, <1>6 DEF Revoke, OneRecordAhead, Busy
  <2> QED
    BY <1>1, <1>6, <2>1, OffsetGroup DEF Revoke
<1>7. CASE Remove(m)
  <2>1. OneRecordAhead'
    BY <1>0, <1>7 DEF Remove, Release, OneRecordAhead, Busy
  <2> QED
    BY <1>1, <1>7, <2>1, OffsetGroup DEF Remove
<1>8. ASSUME NEW p \in Partition, Poll(m, p) PROVE OffsetInv'
  <2> DEFINE k == position[p] + 1
             st == [pc |-> "handle", part |-> p, offset |-> k, attempt |-> 1]
  <2>1. /\ member[m].pc = "idle" /\ owner[p] = m
        /\ position' = [position EXCEPT ![p] = k]
        /\ member' = [member EXCEPT ![m] = st]
        /\ UNCHANGED storeVars /\ UNCHANGED <<log, committed, owner>>
    BY <1>8 DEF Poll
  <2>2. st.pc = "handle" /\ st.part = p /\ st.offset = k
    OBVIOUS
  <2>3. \A q \in Partition : owner[q] = m => position[q] = committed[q]
    BY <1>0, <2>1 DEF OneRecordAhead, Busy
  <2>4. k = committed[p] + 1
    BY <2>1, <2>3
  <2> HIDE DEF k, st
  <2>5. HandledBeforeCommit'
    BY <1>1, <2>1, <2>2, HandledMoves DEF OffsetInv
  <2>6. CommittedAreProcessed'
    BY <1>1, <2>1, CommittedMoves DEF OffsetStep
  <2>7. member'[m] = st /\ Busy(m)'
    BY <1>0, <2>1, <2>2 DEF Busy
  <2>8. ASSUME NEW q \in Partition, owner[q] = m
        PROVE  /\ member'[m].pc # "down"
               /\ IF Busy(m)' /\ member'[m].part = q
                  THEN member'[m].offset = committed[q] + 1 /\ position'[q] = member'[m].offset
                  ELSE position'[q] = committed[q]
    BY <1>0, <2>1, <2>2, <2>3, <2>4, <2>7, <2>8
  <2>9. ASSUME NEW q \in Partition, NEW n \in Member, n # m, owner[q] = n
        PROVE  /\ member'[n].pc # "down"
               /\ IF Busy(n)' /\ member'[n].part = q
                  THEN member'[n].offset = committed[q] + 1 /\ position'[q] = member'[n].offset
                  ELSE position'[q] = committed[q]
    <3>1. position'[q] = position[q]
      BY <1>0, <2>1, <2>9
    <3>2. member'[n] = member[n] /\ (Busy(n)' <=> Busy(n))
      BY <1>3, <2>1, <2>9
    <3>3. /\ member[n].pc # "down"
          /\ IF Busy(n) /\ member[n].part = q
             THEN member[n].offset = committed[q] + 1 /\ position[q] = member[n].offset
             ELSE position[q] = committed[q]
      BY <1>0, <2>9 DEF OneRecordAhead
    <3> QED
      BY <3>1, <3>2, <3>3
  <2>10. OneRecordAhead'
    BY <2>1, <2>8, <2>9 DEF OneRecordAhead
  <2> QED
    BY <2>5, <2>6, <2>10 DEF OffsetInv
<1>9. CASE Reject(m)
  BY <1>1, <1>9, OffsetExit DEF Reject, OffsetStep
<1>10. CASE InsertProcessed(m)
  <2>1. PICK pc \in {"dispatch", "offset"} :
          Goto(m, pc) /\ (pc = "offset" => Record(m).event_id \in processed)
    BY <1>10 DEF InsertProcessed
  <2>2. UNCHANGED storeVars /\ UNCHANGED kafkaVars /\ Busy(m)
    BY <1>10 DEF InsertProcessed, Busy
  <2> QED
    BY <1>1, <1>2, <2>1, <2>2, OffsetGoto
<1>11. CASE InsertDispatch(m)
  <2>1. UNCHANGED storeVars /\ UNCHANGED kafkaVars /\ Busy(m) /\ Goto(m, "commit")
    BY <1>11 DEF InsertDispatch, AtDispatch, Busy
  <2> QED
    BY <1>1, <1>2, <2>1, OffsetGoto
<1>12. CASE Conflict(m)
  BY <1>1, <1>12, OffsetExit DEF Conflict, OffsetStep
<1>13. CASE Orphan(m)
  <2>1. Busy(m)
    BY <1>13 DEF Orphan, AtDispatch, Busy
  <2> QED
    BY <1>1, <1>13, <2>1, OffsetRetry DEF Orphan
<1>14. CASE CommitTx(m)
  <2>1. UNCHANGED kafkaVars /\ Busy(m) /\ Goto(m, "offset")
    BY <1>14 DEF CommitTx, Busy
  <2>2. processed \subseteq processed' /\ Record(m).event_id \in processed'
    BY <1>14 DEF CommitTx, RecordDispatchTx
  <2> QED
    BY <1>2, <2>1, <2>2, OffsetGoto
<1>15. CASE StorageFails(m)
  <2>1. Busy(m)
    BY <1>15 DEF StorageFails, Busy
  <2> QED
    BY <1>15, <2>1, ProcessedGrows, OffsetRetry DEF StorageFails
<1>16. CASE CommitOffset(m)
  <2> DEFINE q == member[m].part
  <2>1. /\ member[m].pc = "offset" /\ owner[q] = m /\ MoveOffset(m)
        /\ member' = [member EXCEPT ![m] = Resting("idle")]
        /\ UNCHANGED storeVars /\ UNCHANGED <<log, owner, position>>
    BY <1>16 DEF CommitOffset
  <2>2. Resting("idle").pc = "idle"
    BY DEF Resting
  <2>3. HandledBeforeCommit'
    BY <1>1, <2>1, <2>2, HandledMoves DEF OffsetInv
  <2>4. CommittedAreProcessed'
    BY <1>1, <2>1, CommittedMoves DEF OffsetStep
  <2>5. /\ q \in Partition /\ position[q] = member[m].offset
        /\ committed' = [committed EXCEPT ![q] = member[m].offset]
    BY <2>1, OffsetStepByOne
  <2>6. member'[m].pc = "idle" /\ ~Busy(m)'
    BY <1>0, <2>1, <2>2 DEF Busy
  <2> HIDE DEF q
  <2>7. ASSUME NEW p \in Partition, owner[p] = m PROVE position[p] = committed'[p]
    <3>1. CASE p = q
      BY <1>0, <2>5, <3>1
    <3>2. CASE p # q
      <4>1. position[p] = committed[p]
        BY <1>0, <2>7, <3>2 DEF OneRecordAhead, q
      <4> QED
        BY <1>0, <2>5, <3>2, <4>1
    <3> QED
      BY <3>1, <3>2
  <2>8. ASSUME NEW p \in Partition, owner[p] # m PROVE committed'[p] = committed[p]
    BY <1>0, <2>1, <2>5, <2>8
  <2>9. \A n \in Member : n # m => member'[n] = member[n] /\ (Busy(n)' <=> Busy(n))
    BY <1>3, <2>1
  <2>10. OneRecordAhead'
    BY <1>0, <2>1, <2>6, <2>7, <2>8, <2>9 DEF OneRecordAhead
  <2> QED
    BY <2>3, <2>4, <2>10 DEF OffsetInv
<1>17. CASE OffsetFenced(m)
  BY <1>1, <1>17, OffsetExit DEF OffsetFenced, OffsetStep
<1>18. CASE OffsetFails(m)
  BY <1>1, <1>18, OffsetExit DEF OffsetFails, OffsetStep, OffsetMovedUnseen
<1>19. CASE StopMember(m)
  BY <1>19, ProcessedGrows, OffsetExit DEF StopMember, OffsetStep, OffsetMovedUnseen
<1> QED
  BY <1>4, <1>5, <1>6, <1>7, <1>8, <1>9, <1>10, <1>11, <1>12, <1>13, <1>14, <1>15,
     <1>16, <1>17, <1>18, <1>19
     DEF MemberStep, MemberWorks, MemberDisturbed

-----------------------------------------------------------------------------
(* The database steps of calls and relays leave the consumers' tables      *)
(* alone.                                                                  *)
LEMMA ConsumerTablesStay ==
  ASSUME \/ \E c \in Call : CallStep(c)
         \/ \E r \in RelayProcess : RelayStep(r)
  PROVE  UNCHANGED <<processed, dispatches>>
<1> USE DEF storeVars
<1>1. ASSUME NEW c \in Call, NEW w \in Weight, CallPriced(c, w)
      PROVE  UNCHANGED <<processed, dispatches>>
  BY <1>1 DEF CallPriced, RefuseWeight, RefuseQuote, Price
<1>2. ASSUME NEW c \in Call, CallStored(c)
      PROVE  UNCHANGED <<processed, dispatches>>
  BY <1>2 DEF CallStored, StoreShipment, StoreRefused, StoreFails, StoreCall,
              CreateShipmentTx
<1>3. ASSUME NEW r \in RelayProcess, RelayWorks(r)
      PROVE  UNCHANGED <<processed, dispatches>>
  BY <1>3 DEF RelayWorks, Claim, Publish, Commit, StartRelay, RecordRelayResult
<1>4. ASSUME NEW r \in RelayProcess, RelayDisturbed(r)
      PROVE  UNCHANGED <<processed, dispatches>>
  BY <1>4 DEF RelayDisturbed, ClaimFails, PublishFails, SessionLost,
              CommitFails, StopRelay, RecordRelayResult
<1> QED
  BY <1>1, <1>2, <1>3, <1>4 DEF CallStep, RelayStep

(* A relay writes to the log only by appending, and leaves the group alone. *)
LEMMA RelayAppends ==
  ASSUME Shape, NEW r \in RelayProcess, RelayStep(r)
  PROVE  LogGrows /\ UNCHANGED <<committed, owner, position>>
<1>1. ASSUME UNCHANGED log PROVE LogGrows
  BY <1>1 DEF LogGrows, Shape, TypeOK, KafkaTypeOK
<1>2. CASE Publish(r)
  <2>1. Current(r) \in EventId /\ outbox[Current(r)] # None
    <3>1. /\ relay[r].batch \in Seq(EventId) /\ relay[r].acked \in Nat
          /\ relay[r].acked < Len(relay[r].batch)
          /\ \A i \in 1..Len(relay[r].batch) : outbox[relay[r].batch[i]] # None
      BY <1>2
         DEF Publish, Shape, TypeOK, RelayTypeOK, RelayState, ClaimsHeld, BatchHeld
    <3>2. relay[r].acked + 1 \in 1..Len(relay[r].batch)
      BY <3>1
    <3> QED
      BY <3>1, <3>2 DEF Current
  <2> QED
    BY <1>2, <2>1, WriteEventGrows DEF Publish, groupVars
<1>3. CASE PublishFails(r) \/ SessionLost(r) \/ StopRelay(r)
  BY <1>1, <1>3 DEF PublishFails, SessionLost, StopRelay, groupVars
<1>4. CASE Claim(r) \/ ClaimFails(r) \/ Commit(r) \/ CommitFails(r) \/ StartRelay(r)
  BY <1>1, <1>4 DEF Claim, ClaimFails, Commit, CommitFails, StartRelay, kafkaVars
<1> QED
  BY <1>2, <1>3, <1>4 DEF RelayStep, RelayWorks, RelayDisturbed

(* So do late, replayed and foreign records.                               *)
LEMMA OutsideAppends ==
  ASSUME Shape, OutsideNext
  PROVE  LogGrows /\ UNCHANGED <<committed, owner, position, member, processed>>
<1>1. ASSUME NEW e \in EventId, LateWrite(e) PROVE LogGrows
  <2>1. outbox[e] # None /\ WriteEvent(e)
    BY <1>1 DEF LateWrite, Land, Shape, InflightStored
  <2> QED
    BY <2>1, WriteEventGrows
<1>2. ASSUME NEW e \in EventId, Replay(e) PROVE LogGrows
  <2>1. CASE WriteEvent(e)
    BY <1>2, <2>1, WriteEventGrows DEF Replay
  <2>2. CASE UNCHANGED log
    BY <2>2 DEF LogGrows, Shape, TypeOK, KafkaTypeOK
  <2> QED
    BY <1>2, <2>1, <2>2 DEF Replay
<1>3. ASSUME NEW p \in Partition, NEW payload \in ForeignRecord, ForeignWrite(p, payload)
      PROVE  LogGrows
  <2>1. payload \in Payload /\ log \in [Partition -> Seq(Payload)]
    BY ForeignRecordAssumption DEF Shape, TypeOK, KafkaTypeOK
  <2> QED
    BY <1>3, <2>1, WriteGrows DEF ForeignWrite
<1>4. LogGrows
  BY <1>1, <1>2, <1>3 DEF OutsideNext
<1>5. UNCHANGED <<committed, owner, position, member, processed>>
  BY DEF OutsideNext, LateWrite, Land, Replay, ForeignWrite, groupVars, storeVars
<1> QED
  BY <1>4, <1>5

(* Every step keeps OffsetInv. *)
LEMMA OffsetNext ==
  ASSUME Shape, Shape', OffsetInv, [Next]_vars
  PROVE  OffsetInv'
<1>0. log' \in [Partition -> Seq(Payload)]
  BY DEF Shape, TypeOK, KafkaTypeOK
<1>1. ASSUME UNCHANGED log PROVE LogGrows
  BY <1>1 DEF LogGrows, Shape, TypeOK, KafkaTypeOK
<1>2. CASE APINext
  <2>1. UNCHANGED processed
    BY <1>2, ConsumerTablesStay DEF APINext
  <2>2. UNCHANGED <<log, committed, owner, position, member>>
    BY <1>2 DEF APINext, kafkaVars
  <2> QED
    BY <1>0, <1>1, <2>1, <2>2, OffsetFrame
<1>3. CASE RelayNext
  <2>1. UNCHANGED processed /\ UNCHANGED member
    BY <1>3, ConsumerTablesStay DEF RelayNext
  <2>2. LogGrows /\ UNCHANGED <<committed, owner, position>>
    BY <1>3, RelayAppends DEF RelayNext
  <2> QED
    BY <1>0, <2>1, <2>2, OffsetFrame
<1>4. CASE ConsumerNext
  BY <1>4, OffsetConsumer DEF ConsumerNext
<1>5. CASE OutsideNext
  BY <1>0, <1>5, OutsideAppends, OffsetFrame
<1>6. CASE UNCHANGED vars
  <2>1. UNCHANGED <<log, committed, owner, position, member, processed>>
    BY <1>6 DEF vars, kafkaVars, storeVars
  <2> QED
    BY <1>0, <1>1, <2>1, OffsetFrame
<1> QED
  BY <1>2, <1>3, <1>4, <1>5, <1>6 DEF Next

(* Nothing is committed before anything is read. *)
LEMMA OffsetInit == Init => OffsetInv
<1> SUFFICES ASSUME Init PROVE OffsetInv
  OBVIOUS
<1>1. HandledBeforeCommit
  BY DEF Init, ConsumerInit, Resting, HandledBeforeCommit
<1>2. OneRecordAhead
  BY KafkaAssumption DEF Init, KafkaInit, OneRecordAhead
<1>3. CommittedAreProcessed
  BY DEF Init, KafkaInit, CommittedAreProcessed
<1> QED
  BY <1>1, <1>2, <1>3 DEF OffsetInv

(* OffsetInv is an invariant: a member at its offset commit has its event  *)
(* in processed_events, and an owner is at most one record ahead of the    *)
(* committed offset.                                                       *)
THEOREM OffsetInvariant == Spec => []OffsetInv
<1>1. Init => OffsetInv
  BY OffsetInit
<1>2. Shape /\ Shape' /\ OffsetInv /\ [Next]_vars => OffsetInv'
  BY OffsetNext
<1> QED
  BY <1>1, <1>2, ShapeInvariant, PTL DEF Spec

(* At-least-once processing, Run's promise to commit an offset only after  *)
(* Handle returned nil: no record before the committed offset is           *)
(* unhandled, over any number of crashes, rebalances, removals, lost       *)
(* answers, foreign records and retries.                                   *)
THEOREM CommittedAreProcessedInvariant == Spec => []CommittedAreProcessed
<1>1. OffsetInv => CommittedAreProcessed
  BY DEF OffsetInv
<1> QED
  BY <1>1, OffsetInvariant, PTL

(* The committed offset never moves back: CommitRecords of a member the    *)
(* group has removed has no effect, and an owner's moves it by one record. *)
THEOREM OffsetsAdvanceAlways == Spec => OffsetsAdvance
<1> DEFINE Step == \A p \in Partition : committed'[p] >= committed[p]
<1>1. ASSUME Shape, OffsetInv, [Next]_vars PROVE Step
  <2>0. committed \in [Partition -> Nat]
    BY <1>1 DEF Shape, TypeOK, KafkaTypeOK
  <2>1. CASE UNCHANGED committed
    BY <2>0, <2>1
  <2>2. ASSUME NEW m \in Member, member[m].pc = "offset",
               owner[member[m].part] = m, MoveOffset(m)
        PROVE  Step
    BY <1>1, <2>0, <2>2, OffsetStepByOne
  <2>3. CASE ConsumerNext
    <3>1. PICK m \in Member : MemberStep(m)
      BY <2>3 DEF ConsumerNext
    <3>2. \/ UNCHANGED committed
          \/ member[m].pc = "offset" /\ owner[member[m].part] = m /\ MoveOffset(m)
      BY <3>1
         DEF MemberStep, MemberWorks, MemberDisturbed, StartMember, Assign, Revoke,
             Remove, Poll, Reject, InsertProcessed, InsertDispatch, Conflict, Orphan,
             CommitTx, StorageFails, CommitOffset, OffsetFenced, OffsetFails,
             OffsetMovedUnseen, StopMember, kafkaVars
    <3> QED
      BY <2>1, <2>2, <3>2
  <2>4. CASE APINext \/ UNCHANGED vars
    BY <2>1, <2>4 DEF APINext, vars, kafkaVars
  <2>5. CASE RelayNext
    BY <1>1, <2>1, <2>5, RelayAppends DEF RelayNext
  <2>6. CASE OutsideNext
    BY <1>1, <2>1, <2>6, OutsideAppends
  <2> QED
    BY <1>1, <2>3, <2>4, <2>5, <2>6 DEF Next
<1>2. Shape /\ OffsetInv /\ [Next]_vars => [Step]_vars
  BY <1>1
<1> QED
  BY <1>2, ShapeInvariant, OffsetInvariant, PTL DEF Spec, OffsetsAdvance
-----------------------------------------------------------------------------
(* A busy member's record stays what it is while the log grows.            *)
LEMMA RecordStays ==
  ASSUME Shape, LogGrows, UNCHANGED member, NEW m \in Member, Busy(m)
  PROVE  Record(m)' = Record(m)
<1>1. /\ member[m].part \in Partition
      /\ member[m].offset \in 1..Len(log[member[m].part])
  BY DEF Shape, RecordsHeld, RecordHeld, Busy
<1> QED
  BY <1>1 DEF LogGrows, Record

(* Members and the consumers' tables are left alone, the log only grows.   *)
LEMMA DispatchFrame ==
  ASSUME Shape, DispatchInv, LogGrows, UNCHANGED <<member, processed, dispatches>>
  PROVE  DispatchInv'
<1>1. \A m \in Member : member[m].pc \in {"dispatch", "commit"} => Record(m)' = Record(m)
  BY RecordStays DEF Busy
<1>2. DispatchedOnce'
  BY DEF DispatchInv, DispatchedOnce
<1>3. InsertsExclusive'
  <2>1. \A m \in Member : member[m].pc \in {"dispatch", "commit"} =>
          Record(m)'.event_id \notin processed
    BY <1>1 DEF DispatchInv, InsertsExclusive
  <2>2. \A m \in Member : member[m].pc = "commit" =>
          \A i \in DOMAIN dispatches : dispatches[i].shipment # Record(m)'.shipment_id
    BY <1>1 DEF DispatchInv, InsertsExclusive, HasDispatch
  <2>3. \A m, n \in Member :
          m # n /\ member[m].pc \in {"dispatch", "commit"}
                /\ member[n].pc \in {"dispatch", "commit"}
            => Record(m)'.event_id # Record(n)'.event_id
    BY <1>1 DEF DispatchInv, InsertsExclusive
  <2>4. \A m, n \in Member :
          m # n /\ member[m].pc = "commit" /\ member[n].pc = "commit"
            => Record(m)'.shipment_id # Record(n)'.shipment_id
    BY <1>1 DEF DispatchInv, InsertsExclusive
  <2> QED
    BY <2>1, <2>2, <2>3, <2>4 DEF InsertsExclusive, HasDispatch
<1> QED
  BY <1>2, <1>3 DEF DispatchInv

(* The members other than m keep their records and where they are.         *)
LEMMA OthersKept ==
  ASSUME Shape, NEW m \in Member, NEW st, UNCHANGED log,
         member' = [member EXCEPT ![m] = st]
  PROVE  /\ member'[m] = st
         /\ Record(m)' = log[st.part][st.offset]
         /\ \A n \in Member : n # m => member'[n] = member[n] /\ Record(n)' = Record(n)
<1>1. member \in [Member -> MemberState]
  BY DEF Shape, TypeOK, ConsumerTypeOK
<1> QED
  BY <1>1 DEF Record

(* A member that holds no uncommitted insert afterwards.                   *)
LEMMA NoInsertHeld ==
  ASSUME Shape, DispatchInv, NEW m \in Member, NEW st, UNCHANGED log,
         member' = [member EXCEPT ![m] = st], st.pc \notin {"dispatch", "commit"},
         UNCHANGED <<processed, dispatches>>
  PROVE  DispatchInv'
<1>1. /\ member'[m] = st
      /\ \A n \in Member : n # m => member'[n] = member[n] /\ Record(n)' = Record(n)
  BY OthersKept
<1>2. DispatchedOnce'
  BY DEF DispatchInv, DispatchedOnce
<1>3. InsertsExclusive'
  BY <1>1 DEF DispatchInv, InsertsExclusive, HasDispatch
<1> QED
  BY <1>2, <1>3 DEF DispatchInv

(* The row a COMMIT of RecordDispatch adds. *)
LEMMA DispatchAdded ==
  ASSUME Shape, NEW m \in Member, member[m].pc = "commit", RecordDispatchTx(Record(m))
  PROVE  /\ processed' = processed \cup {Record(m).event_id}
         /\ DOMAIN dispatches' = DOMAIN dispatches \cup {Len(dispatches) + 1}
         /\ Len(dispatches) + 1 \notin DOMAIN dispatches
         /\ \A i \in DOMAIN dispatches : dispatches'[i] = dispatches[i]
         /\ dispatches'[Len(dispatches) + 1] =
              [shipment |-> Record(m).shipment_id, event |-> Record(m).event_id,
               amount |-> Record(m).amount, currency |-> Record(m).currency]
<1> DEFINE row == [shipment |-> Record(m).shipment_id, event |-> Record(m).event_id,
                   amount |-> Record(m).amount, currency |-> Record(m).currency]
<1>1. /\ processed' = processed \cup {Record(m).event_id}
      /\ dispatches' = Append(dispatches, row)
  BY DEF RecordDispatchTx
<1>2. dispatches \in Seq(DispatchRow)
  BY DEF Shape, TypeOK, StoreTypeOK
<1>3. row \in DispatchRow
  <2>1. /\ member[m].part \in Partition
        /\ member[m].offset \in 1..Len(log[member[m].part])
        /\ Decodes(Record(m)) /\ log \in [Partition -> Seq(Payload)]
    BY DEF Shape, TypeOK, KafkaTypeOK, RecordsHeld, RecordHeld, Record
  <2>2. Record(m) \in Payload
    BY <2>1 DEF Record
  <2> QED
    BY <2>1, <2>2, DecodedFields DEF DispatchRow
<1> HIDE DEF row
<1>4. /\ DOMAIN dispatches' = DOMAIN dispatches \cup {Len(dispatches) + 1}
      /\ Len(dispatches) + 1 \notin DOMAIN dispatches
      /\ \A i \in DOMAIN dispatches : dispatches'[i] = dispatches[i]
      /\ dispatches'[Len(dispatches) + 1] = row
  BY <1>1, <1>2, <1>3
<1> QED
  BY <1>1, <1>4 DEF row

(* m's transaction is committed, whether or not m learns it.               *)
LEMMA DispatchCommitted ==
  ASSUME Shape, DispatchInv, NEW m \in Member, NEW st, UNCHANGED log,
         member[m].pc = "commit", RecordDispatchTx(Record(m)),
         member' = [member EXCEPT ![m] = st], st.pc \notin {"dispatch", "commit"}
  PROVE  DispatchInv'
<1>1. /\ member'[m] = st
      /\ \A n \in Member : n # m => member'[n] = member[n] /\ Record(n)' = Record(n)
  BY OthersKept
<1>2. PICK e, s, k : e = Record(m).event_id /\ s = Record(m).shipment_id
                     /\ k = Len(dispatches) + 1
  OBVIOUS
<1>3. /\ processed' = processed \cup {e}
      /\ DOMAIN dispatches' = DOMAIN dispatches \cup {k}
      /\ k \notin DOMAIN dispatches
      /\ \A i \in DOMAIN dispatches : dispatches'[i] = dispatches[i]
      /\ dispatches'[k].shipment = s /\ dispatches'[k].event = e
  <2> DEFINE row == [shipment |-> Record(m).shipment_id, event |-> Record(m).event_id,
                     amount |-> Record(m).amount, currency |-> Record(m).currency]
  <2>1. row.shipment = s /\ row.event = e
    BY <1>2
  <2>2. /\ processed' = processed \cup {Record(m).event_id}
        /\ DOMAIN dispatches' = DOMAIN dispatches \cup {Len(dispatches) + 1}
        /\ Len(dispatches) + 1 \notin DOMAIN dispatches
        /\ \A i \in DOMAIN dispatches : dispatches'[i] = dispatches[i]
        /\ dispatches'[Len(dispatches) + 1] = row
    BY DispatchAdded
  <2> HIDE DEF row
  <2> QED
    BY <1>2, <2>1, <2>2
<1>4. /\ e \notin processed
      /\ \A i \in DOMAIN dispatches : dispatches[i].shipment # s
      /\ \A n \in Member : n # m /\ member[n].pc \in {"dispatch", "commit"} =>
           Record(n).event_id # e
      /\ \A n \in Member : n # m /\ member[n].pc = "commit" => Record(n).shipment_id # s
  BY <1>2 DEF DispatchInv, InsertsExclusive, HasDispatch
<1>5. \A i \in DOMAIN dispatches : dispatches[i].event # e
  BY <1>4 DEF DispatchInv, DispatchedOnce
<1>6. DispatchedOnce'
  <2>1. \A i, j \in DOMAIN dispatches' : i # j =>
          /\ dispatches'[i].shipment # dispatches'[j].shipment
          /\ dispatches'[i].event # dispatches'[j].event
    BY <1>3, <1>4, <1>5 DEF DispatchInv, DispatchedOnce
  <2>2. processed' = {dispatches'[i].event : i \in DOMAIN dispatches'}
    <3>1. processed = {dispatches[i].event : i \in DOMAIN dispatches}
      BY DEF DispatchInv, DispatchedOnce
    <3> QED
      BY <1>3, <3>1
  <2> QED
    BY <2>1, <2>2 DEF DispatchedOnce
<1>7. InsertsExclusive'
  BY <1>1, <1>3, <1>4 DEF DispatchInv, InsertsExclusive, HasDispatch
<1> QED
  BY <1>6, <1>7 DEF DispatchInv

(* RecordDispatch's transaction took effect, or nothing was written; the   *)
(* member holds no uncommitted insert any more.                            *)
LEMMA DispatchEnds ==
  ASSUME Shape, DispatchInv, NEW m \in Member, NEW st, UNCHANGED log,
         CommittedUnseen(m) \/ UNCHANGED storeVars,
         member' = [member EXCEPT ![m] = st], st.pc \notin {"dispatch", "commit"}
  PROVE  DispatchInv'
BY DispatchCommitted, NoInsertHeld DEF CommittedUnseen, storeVars

(* The same when the process ends.                                         *)
LEMMA DispatchExit ==
  ASSUME Shape, DispatchInv, NEW m \in Member, UNCHANGED log,
         CommittedUnseen(m) \/ UNCHANGED storeVars, Exit(m)
  PROVE  DispatchInv'
<1>1. /\ member' = [member EXCEPT ![m] = Resting("down")]
      /\ Resting("down").pc \notin {"dispatch", "commit"}
  BY DEF Exit, Resting
<1> QED
  BY <1>1, DispatchEnds

(* And when Handle retries or gives up.                                    *)
LEMMA DispatchRetry ==
  ASSUME Shape, DispatchInv, NEW m \in Member, UNCHANGED log,
         CommittedUnseen(m) \/ UNCHANGED storeVars, RetryOrGiveUp(m)
  PROVE  DispatchInv'
<1>1. CASE Exit(m)
  BY <1>1, DispatchExit
<1>2. CASE member' = [member EXCEPT ![m].pc = "handle", ![m].attempt = @ + 1]
  <2> DEFINE n == member[m].attempt + 1
             st == [member[m] EXCEPT !.pc = "handle", !.attempt = n]
  <2>1. member' = [member EXCEPT ![m] = st]
    BY <1>2
  <2> HIDE DEF n
  <2>2. st.pc = "handle"
    BY DEF Shape, TypeOK, ConsumerTypeOK, MemberState
  <2> HIDE DEF st
  <2> QED
    BY <2>1, <2>2, DispatchEnds
<1> QED
  BY <1>1, <1>2 DEF RetryOrGiveUp

(* A member goes on with the record it holds. *)
LEMMA DispatchGoto ==
  ASSUME Shape, NEW m \in Member, NEW pc, Goto(m, pc), UNCHANGED log
  PROVE  \E st : /\ member' = [member EXCEPT ![m] = st]
                 /\ st.pc = pc /\ member'[m] = st /\ Record(m)' = Record(m)
                 /\ \A n \in Member : n # m =>
                      member'[n] = member[n] /\ Record(n)' = Record(n)
<1> DEFINE st == [member[m] EXCEPT !.pc = pc]
<1>1. member' = [member EXCEPT ![m] = st]
  BY DEF Goto
<1>2. st.pc = pc /\ st.part = member[m].part /\ st.offset = member[m].offset
  BY DEF Shape, TypeOK, ConsumerTypeOK, MemberState
<1> HIDE DEF st
<1>3. /\ member'[m] = st /\ Record(m)' = log[st.part][st.offset]
      /\ \A n \in Member : n # m => member'[n] = member[n] /\ Record(n)' = Record(n)
  BY <1>1, OthersKept
<1>4. Record(m)' = Record(m)
  BY <1>2, <1>3 DEF Record
<1> QED
  BY <1>1, <1>2, <1>3, <1>4

(* A step of a consumer keeps DispatchInv. *)
LEMMA DispatchConsumer ==
  ASSUME Shape, DispatchInv, NEW m \in Member, MemberStep(m)
  PROVE  DispatchInv'
<1>1. ASSUME UNCHANGED kafkaVars PROVE UNCHANGED log
  BY <1>1 DEF kafkaVars
<1>2. ASSUME UNCHANGED storeVars PROVE UNCHANGED <<processed, dispatches>>
  BY <1>2 DEF storeVars
<1>3. ASSUME UNCHANGED log PROVE LogGrows
  BY <1>3 DEF LogGrows, Shape, TypeOK, KafkaTypeOK
<1>4. CASE StartMember(m)
  <2>1. Goto(m, "idle") /\ UNCHANGED log /\ UNCHANGED storeVars
    BY <1>1, <1>4 DEF StartMember
  <2>2. PICK st : member' = [member EXCEPT ![m] = st] /\ st.pc = "idle"
    BY <2>1, DispatchGoto
  <2> QED
    BY <2>1, <2>2, DispatchEnds
<1>5. CASE \/ \E p \in Partition : Assign(m, p) \/ Revoke(m, p)
           \/ Remove(m)
  BY <1>2, <1>3, <1>5, DispatchFrame DEF Assign, Revoke, Remove
<1>6. ASSUME NEW p \in Partition, Poll(m, p) PROVE DispatchInv'
  <2> DEFINE st == [pc |-> "handle", part |-> p, offset |-> position[p] + 1,
                    attempt |-> 1]
  <2>1. /\ member' = [member EXCEPT ![m] = st] /\ st.pc = "handle"
        /\ UNCHANGED log /\ UNCHANGED storeVars
    BY <1>6 DEF Poll
  <2> HIDE DEF st
  <2> QED
    BY <2>1, DispatchEnds
<1>7. CASE Reject(m) \/ Conflict(m) \/ OffsetFenced(m) \/ OffsetFails(m) \/ StopMember(m)
  BY <1>7, DispatchExit DEF Reject, Conflict, OffsetFenced, OffsetFails, StopMember
<1>8. CASE InsertProcessed(m)
  <2>1. /\ UNCHANGED log /\ UNCHANGED storeVars
        /\ \A n \in Member \ {m} : ~Inserting(n, Record(m).event_id)
    BY <1>1, <1>8 DEF InsertProcessed
  <2>2. CASE Record(m).event_id \in processed
    <3>1. Goto(m, "offset")
      BY <1>8, <2>2 DEF InsertProcessed
    <3>2. PICK st : member' = [member EXCEPT ![m] = st] /\ st.pc = "offset"
      BY <2>1, <3>1, DispatchGoto
    <3> QED
      BY <2>1, <3>2, DispatchEnds
  <2>3. CASE Record(m).event_id \notin processed
    <3>1. Goto(m, "dispatch")
      BY <1>8, <2>3 DEF InsertProcessed
    <3>2. /\ member'[m].pc = "dispatch" /\ Record(m)' = Record(m)
          /\ \A n \in Member : n # m => member'[n] = member[n] /\ Record(n)' = Record(n)
      BY <2>1, <3>1, DispatchGoto
    <3>3. InsertsExclusive'
      BY <1>2, <2>1, <2>3, <3>2
         DEF DispatchInv, InsertsExclusive, HasDispatch, Inserting
    <3>4. DispatchedOnce'
      BY <1>2, <2>1 DEF DispatchInv, DispatchedOnce
    <3> QED
      BY <3>3, <3>4 DEF DispatchInv
  <2> QED
    BY <2>2, <2>3
<1>9. CASE InsertDispatch(m)
  <2>1. /\ UNCHANGED log /\ UNCHANGED storeVars /\ member[m].pc = "dispatch"
        /\ \A n \in Member \ {m} : ~Dispatching(n, Record(m).shipment_id)
        /\ ~HasDispatch(Record(m).shipment_id) /\ Goto(m, "commit")
    BY <1>1, <1>9 DEF InsertDispatch, AtDispatch
  <2>2. /\ member'[m].pc = "commit" /\ Record(m)' = Record(m)
        /\ \A n \in Member : n # m => member'[n] = member[n] /\ Record(n)' = Record(n)
    BY <2>1, DispatchGoto
  <2>3. InsertsExclusive'
    BY <1>2, <2>1, <2>2 DEF DispatchInv, InsertsExclusive, HasDispatch, Dispatching
  <2>4. DispatchedOnce'
    BY <1>2, <2>1 DEF DispatchInv, DispatchedOnce
  <2> QED
    BY <2>3, <2>4 DEF DispatchInv
<1>10. CASE Orphan(m) \/ StorageFails(m)
  BY <1>10, DispatchRetry DEF Orphan, StorageFails
<1>11. CASE CommitTx(m)
  <2>1. CommittedUnseen(m) /\ Goto(m, "offset") /\ UNCHANGED log
    BY <1>1, <1>11 DEF CommitTx, CommittedUnseen
  <2>2. PICK st : member' = [member EXCEPT ![m] = st] /\ st.pc = "offset"
    BY <2>1, DispatchGoto
  <2> QED
    BY <2>1, <2>2, DispatchEnds
<1>12. CASE CommitOffset(m)
  <2>1. /\ member' = [member EXCEPT ![m] = Resting("idle")]
        /\ Resting("idle").pc = "idle" /\ UNCHANGED log /\ UNCHANGED storeVars
    BY <1>12 DEF CommitOffset, Resting
  <2> QED
    BY <2>1, DispatchEnds
<1> QED
  BY <1>4, <1>5, <1>6, <1>7, <1>8, <1>9, <1>10, <1>11, <1>12
     DEF MemberStep, MemberWorks, MemberDisturbed

(* Every step keeps DispatchInv. *)
LEMMA DispatchNext ==
  ASSUME Shape, DispatchInv, [Next]_vars
  PROVE  DispatchInv'
<1>1. ASSUME UNCHANGED log PROVE LogGrows
  BY <1>1 DEF LogGrows, Shape, TypeOK, KafkaTypeOK
<1>2. CASE APINext
  <2>1. UNCHANGED <<processed, dispatches>>
    BY <1>2, ConsumerTablesStay DEF APINext
  <2> QED
    BY <1>1, <1>2, <2>1, DispatchFrame DEF APINext, kafkaVars
<1>3. CASE RelayNext
  <2>1. UNCHANGED <<processed, dispatches>>
    BY <1>3, ConsumerTablesStay DEF RelayNext
  <2> QED
    BY <1>3, <2>1, RelayAppends, DispatchFrame DEF RelayNext
<1>4. CASE ConsumerNext
  BY <1>4, DispatchConsumer DEF ConsumerNext
<1>5. CASE OutsideNext
  <2>1. UNCHANGED <<processed, dispatches>> /\ UNCHANGED member
    BY <1>5, OutsideKeepsTables DEF storeVars
  <2> QED
    BY <1>5, <2>1, OutsideAppends, DispatchFrame
<1>6. CASE UNCHANGED vars
  BY <1>1, <1>6, DispatchFrame DEF vars, storeVars, kafkaVars
<1> QED
  BY <1>2, <1>3, <1>4, <1>5, <1>6 DEF Next

(* Nothing is dispatched, and nobody is inserting. *)
LEMMA DispatchInit == Init => DispatchInv
<1> SUFFICES ASSUME Init PROVE DispatchInv
  OBVIOUS
<1>1. processed = {} /\ DOMAIN dispatches = {}
  BY DEF Init, StoreInit
<1>2. DispatchedOnce
  BY <1>1 DEF DispatchedOnce
<1>3. InsertsExclusive
  BY DEF Init, ConsumerInit, Resting, InsertsExclusive
<1> QED
  BY <1>2, <1>3 DEF DispatchInv

(* DispatchInv is an invariant: besides DispatchedOnce, an uncommitted     *)
(* insert holds a key that is in neither table and in no other             *)
(* transaction, which is what the unique indexes make inserts wait for.    *)
THEOREM DispatchInvariant == Spec => []DispatchInv
<1>1. Init => DispatchInv
  BY DispatchInit
<1>2. Shape /\ DispatchInv /\ [Next]_vars => DispatchInv'
  BY DispatchNext
<1> QED
  BY <1>1, <1>2, ShapeInvariant, PTL DEF Spec

(* Idempotent consumption: however often an event is redelivered,          *)
(* republished, replayed or retried, and however many members hold it at   *)
(* once, RecordDispatch adds one dispatch per event and per shipment and   *)
(* processed_events names exactly the dispatched events.                   *)
THEOREM DispatchedOnceInvariant == Spec => []DispatchedOnce
<1>1. DispatchInv => DispatchedOnce
  BY DEF DispatchInv
<1> QED
  BY <1>1, DispatchInvariant, PTL
=============================================================================

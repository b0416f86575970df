----------------------------- MODULE SmokeProofs -----------------------------
(***************************************************************************)
(* The smoke test against services of any size: it raises no false alarm,  *)
(* and in a quiet stack its counter shows the replay it made itself.       *)
(*                                                                         *)
(* The test writes to the topic without a disturbance, so the accounting   *)
(* of copies behind DuplicatesNeedDisturbance does not hold here.  What    *)
(* takes its place is QuietInv: as long as nothing has gone wrong, an      *)
(* event is in the topic once, and the copy of the test is the one         *)
(* exception.                                                              *)
(***************************************************************************)
EXTENDS Smoke, RefinementProofs

(* What the rest of the system keeps, whatever the test does.              *)
SystemInv == Shape /\ StoreInv /\ OffsetInv /\ DispatchInv /\ OwnInv /\ LocksHeld

(* The call of the test is for the example parcel.                         *)
ExampleParcel ==
  call[SmokeCall].pc = "store" \/ call[SmokeCall].code = "OK" =>
    call[SmokeCall].row.weight = exampleWeightGrams

(* The steps after a reply, after the event was found, after the dispatch  *)
(* was seen, and after the replay.                                         *)
Replayed == {"await", "recheck", "metrics", "passed"}
Seen == {"count", "replay"} \cup Replayed
Found == {"dispatch"} \cup Seen
Replied == {"find"} \cup Found

MyEvent == call[SmokeCall].event

SmokeState ==
  [pc : SmokeStep, event : Payload \cup {None}, dispatch : Nat, before : Nat,
   copy : Nat, why : {None, "mismatch", "series", "unanswered"}]

SmokeTypeOK ==
  /\ smoke \in SmokeState
  /\ \A m \in Member : metrics[m].duplicates \in Nat

(* What the test has seen is still there: its shipment, the event of it,   *)
(* the dispatch of it.                                                     *)
SmokeKnows ==
  /\ smoke.pc \in Replied \/ smoke.copy > 0 =>
       call[SmokeCall].pc = "done" /\ call[SmokeCall].code = "OK"
  /\ smoke.pc \in Found => smoke.event = outbox[MyEvent].payload
  /\ smoke.pc \in Seen =>
       /\ smoke.dispatch \in DOMAIN dispatches
       /\ dispatches[smoke.dispatch].shipment = Mine
  /\ smoke.pc \notin Replayed \cup {"failed"} => smoke.copy = 0

SmokeInv == SystemInv /\ ExampleParcel /\ SmokeTypeOK /\ SmokeKnows

-----------------------------------------------------------------------------
(* A step of the services beside the test is one of theirs.                *)
LEMMA SystemIsNext == ASSUME SystemStep PROVE Next
<1>1. ASSUME NEW c \in Call, IF c = SmokeCall THEN SmokeCallStep ELSE CallStep(c)
      PROVE  CallStep(c)
  BY <1>1, SmokeAssumption DEF SmokeCallStep, CallStep
<1> QED
  BY <1>1 DEF SystemStep, Next, APINext

LEMMA LocksNext ==
  ASSUME Shape, Shape', StoreInv, LocksHeld, [Next]_vars
  PROVE  LocksHeld'
<1>1. ASSUME UNCHANGED outbox PROVE NotNewlyPublished
  BY <1>1 DEF NotNewlyPublished
<1>2. CASE APINext
  BY <1>2, CallPublishesNothing, LocksFrame DEF APINext
<1>3. CASE RelayNext
  BY <1>3, LocksRelay DEF RelayNext
<1>4. CASE ConsumerNext
  BY <1>1, <1>4, MemberKeepsRows, LocksFrame DEF ConsumerNext
<1>5. CASE OutsideNext
  BY <1>1, <1>5, OutsideKeepsTables, LocksFrame DEF storeVars
<1>6. CASE UNCHANGED vars
  BY <1>1, <1>6, LocksFrame DEF vars, storeVars
<1> QED
  BY <1>2, <1>3, <1>4, <1>5, <1>6 DEF Next

(* The services keep SystemInv, as they do without the test.               *)
LEMMA SystemInvNext ==
  ASSUME ForeignRecord = {}, SystemInv, [Next]_vars
  PROVE  SystemInv'
<1>1. Shape'
  BY ShapeNext DEF SystemInv
<1>2. StoreInv' /\ OffsetInv' /\ DispatchInv' /\ OwnInv' /\ LocksHeld'
  BY <1>1, StoreInvNext, OffsetNext, DispatchNext, OwnNext, LocksNext DEF SystemInv
<1> QED
  BY <1>1, <1>2 DEF SystemInv

(* So does a step that writes at most to the topic, and a stored event.    *)
LEMMA SystemFrame ==
  ASSUME SystemInv, Disturb \/ Undisturbed,
         UNCHANGED <<storeVars, inflight, groupVars, relay, member, call>>,
         log' \in [Partition -> Seq(Payload)], LogGrows, OwnRecords'
  PROVE  SystemInv'
<1>0. /\ disturbances \in 0..MaxDisturbances /\ StoreTypeOK /\ KafkaTypeOK
      /\ RelayTypeOK /\ APITypeOK /\ CallsReady /\ InflightStored /\ ClaimsHeld
  BY DEF SystemInv, Shape, TypeOK
<1>1. /\ UNCHANGED <<shipments, outbox, processed, dispatches>>
      /\ UNCHANGED <<inflight, committed, owner, position, relay, member, call>>
  BY DEF storeVars, groupVars
<1>2. Shape'
  <2>1. KafkaTypeOK' /\ StoreTypeOK' /\ InflightStored'
    BY <1>0, <1>1 DEF KafkaTypeOK, StoreTypeOK, InflightStored
  <2>2. RelayTypeOK' /\ ClaimsHeld' /\ APITypeOK' /\ CallsReady'
    BY <1>0, <1>1 DEF RelayTypeOK, ClaimsHeld, APITypeOK, CallsReady
  <2>3. ConsumerTypeOK' /\ RecordsHeld'
    BY <1>1, RecordsKept DEF SystemInv
  <2> QED
    BY <1>0, <2>1, <2>2, <2>3, DisturbanceType DEF Shape, TypeOK
<1>3. StoreInv'
  BY <1>1, StoreFrame DEF RowsKept, SystemInv
<1>4. OffsetInv' /\ DispatchInv'
  BY <1>1, OffsetFrame, DispatchFrame DEF SystemInv
<1>5. OwnInv'
  BY <1>1, MatchesFrame DEF RowsKept, SystemInv, OwnInv
<1>6. LocksHeld'
  BY <1>1, <1>2, LocksFrame DEF NotNewlyPublished, SystemInv
<1> QED
  BY <1>2, <1>3, <1>4, <1>5, <1>6 DEF SystemInv

(* A call that returned OK has its shipment and its event in the tables.   *)
LEMMA OkMine ==
  ASSUME SystemInv, call[SmokeCall].code = "OK", NEW s, NEW e, s = Mine, e = MyEvent
  PROVE  /\ s \in ShipmentId /\ e \in EventId
         /\ shipments[s] = call[SmokeCall].row /\ shipments[s] # None
         /\ OutboxRowOf(s) = {e}
         /\ outbox[e] # None /\ outbox[e].shipment = s
         /\ EventOf(outbox[e].payload, e, s)
         /\ Decodes(outbox[e].payload)
<1>1. /\ s \in ShipmentId /\ e \in EventId /\ call[SmokeCall].row \in ShipmentRow
  BY SmokeAssumption DEF SystemInv, StoreInv, OkDrawn, Mine, MyEvent
<1>2. shipments[s] = call[SmokeCall].row /\ OutboxRowOf(s) = {e}
  BY SmokeAssumption DEF SystemInv, StoreInv, OkIsStored, Mine, MyEvent
<1>3. outbox[e] # None /\ outbox[e].shipment = s
  BY <1>2 DEF OutboxRowOf
<1>4. EventOf(outbox[e].payload, e, s)
  BY <1>1, <1>3, StoredEvent DEF SystemInv
<1>5. Decodes(outbox[e].payload)
  BY <1>1, <1>3 DEF SystemInv, StoreInv, NoPoisonRow
<1> QED
  BY <1>1, <1>2, <1>3, <1>4, <1>5, RowAssumption

(* No stored event is rewritten and no dispatch taken back.                *)
TablesKept ==
  /\ \A e \in EventId : outbox[e] # None =>
       outbox'[e] # None /\ outbox'[e].payload = outbox[e].payload
  /\ \A i \in DOMAIN dispatches :
       i \in DOMAIN dispatches' /\ dispatches'[i] = dispatches[i]

LEMMA TablesStay ==
  ASSUME SystemInv, [Next]_vars
  PROVE  TablesKept
<1>0. Shape /\ StoreInv
  BY DEF SystemInv
<1>1. CASE APINext
  BY <1>0, <1>1, CallAddsRows, ConsumerTablesStay DEF APINext, TablesKept
<1>2. CASE RelayNext
  BY <1>0, <1>2, RelayKeepsRows, ConsumerTablesStay
     DEF RelayNext, RowsKept, TablesKept
<1>3. CASE ConsumerNext
  <2>1. PICK m \in Member : MemberStep(m)
    BY <1>3 DEF ConsumerNext
  <2>2. UNCHANGED outbox
    BY <2>1, MemberKeepsRows
  <2>3. UNCHANGED storeVars \/ (member[m].pc = "commit" /\ RecordDispatchTx(Record(m)))
    BY <2>1, MemberDispatches
  <2>4. \A i \in DOMAIN dispatches :
          i \in DOMAIN dispatches' /\ dispatches'[i] = dispatches[i]
    BY <1>0, <2>3, DispatchAdded DEF storeVars
  <2> QED
    BY <2>2, <2>4 DEF TablesKept
<1>4. CASE OutsideNext
  BY <1>4, OutsideKeepsTables DEF storeVars, TablesKept
<1>5. CASE UNCHANGED vars
  BY <1>5 DEF vars, storeVars, TablesKept
<1> QED
  BY <1>1, <1>2, <1>3, <1>4, <1>5 DEF Next

(* The call of the test takes its steps while the test waits for it.       *)
LEMMA SmokeCallKept ==
  ASSUME Shape, SystemStep
  PROVE  \/ SmokeCallStep
         \/ call'[SmokeCall] = call[SmokeCall]
<1>0. call \in [Call -> CallState]
  BY DEF Shape, TypeOK, APITypeOK
<1>1. ASSUME NEW c \in Call, c # SmokeCall, CallStep(c)
      PROVE  call'[SmokeCall] = call[SmokeCall]
  BY <1>0, <1>1, SmokeAssumption
     DEF CallStep, CallPriced, CallStored, RefuseWeight, RefuseQuote, Price,
         StoreShipment, StoreRefused, StoreFails, Return
<1>2. RelayNext \/ ConsumerNext \/ OutsideNext => UNCHANGED call
  BY OutsideKeepsTables DEF RelayNext, ConsumerNext
<1> QED
  BY <1>1, <1>2 DEF SystemStep

(* It stores the example parcel or nothing.                                *)
LEMMA ExampleStays ==
  ASSUME Shape, ExampleParcel, SystemStep
  PROVE  ExampleParcel'
<1>0. call \in [Call -> CallState] /\ SmokeCall \in Call
  BY SmokeAssumption DEF Shape, TypeOK, APITypeOK
<1>1. ASSUME NEW code, Return(SmokeCall, code), code = "OK" => call[SmokeCall].pc = "store"
      PROVE  ExampleParcel'
  <2>1. /\ call'[SmokeCall].pc = "done" /\ call'[SmokeCall].code = code
        /\ call'[SmokeCall].row = call[SmokeCall].row
    BY <1>0, <1>1 DEF Return, CallState
  <2> QED
    BY <1>1, <2>1 DEF ExampleParcel
<1>2. CASE CallPriced(SmokeCall, exampleWeightGrams)
  <2>1. ASSUME NEW a, RefuseWeight(SmokeCall, exampleWeightGrams)
                        \/ RefuseQuote(SmokeCall, exampleWeightGrams, a)
        PROVE  ExampleParcel'
    BY <1>1, <2>1, StatusOfError DEF RefuseWeight, RefuseQuote
  <2>2. ASSUME NEW a, NEW id, NEW e, NEW t,
               Price(SmokeCall, exampleWeightGrams, a, id, e, t)
        PROVE  ExampleParcel'
    BY <1>0, <2>2 DEF Price, ExampleParcel
  <2> QED
    BY <1>2, <2>1, <2>2 DEF CallPriced
<1>3. CASE CallStored(SmokeCall)
  BY <1>1, <1>3 DEF CallStored, StoreShipment, StoreRefused, StoreFails
<1>4. CASE call'[SmokeCall] = call[SmokeCall]
  BY <1>4 DEF ExampleParcel
<1> QED
  BY <1>2, <1>3, <1>4, SmokeCallKept DEF SmokeCallStep

(* What the test knows outlives a step that keeps the tables and the call. *)
LEMMA KnowsStays ==
  ASSUME SystemInv, SmokeKnows, TablesKept, UNCHANGED smoke,
         smoke.pc # "create" => call'[SmokeCall] = call[SmokeCall]
  PROVE  SmokeKnows'
<1>1. CASE smoke.pc = "create"
  BY <1>1 DEF SmokeKnows, Replied, Found, Seen, Replayed
<1>2. CASE smoke.pc # "create"
  <2>1. PICK s, e, d : s = Mine /\ e = MyEvent /\ d = smoke.dispatch
    OBVIOUS
  <2>2. s = Mine' /\ e = MyEvent' /\ d = smoke'.dispatch
    BY <1>2, <2>1 DEF Mine, MyEvent
  <2>3. smoke.pc \in Found => outbox'[e].payload = outbox[e].payload
    <3>1. smoke.pc \in Found => call[SmokeCall].code = "OK"
      BY DEF SmokeKnows, Replied
    <3> QED
      BY <2>1, <3>1, OkMine DEF TablesKept
  <2>4. smoke.pc \in Found => smoke.event = outbox[e].payload
    BY <2>1 DEF SmokeKnows
  <2>5. smoke.pc \in Seen =>
          d \in DOMAIN dispatches' /\ dispatches'[d].shipment = s
    BY <2>1 DEF SmokeKnows, TablesKept
  <2>6. SmokeKnows' =
          /\ smoke.pc \in Replied \/ smoke.copy > 0 =>
               call'[SmokeCall].pc = "done" /\ call'[SmokeCall].code = "OK"
          /\ smoke.pc \in Found => smoke.event = outbox'[e].payload
          /\ smoke.pc \in Seen =>
               d \in DOMAIN dispatches' /\ dispatches'[d].shipment = s
          /\ smoke.pc \notin Replayed \cup {"failed"} => smoke.copy = 0
    BY <2>2 DEF SmokeKnows, Replied, Found, Seen, Replayed
  <2> QED
    BY <1>2, <2>3, <2>4, <2>5, <2>6 DEF SmokeKnows
<1> QED
  BY <1>1, <1>2

(* The metrics of a step of the services.                                  *)
LEMMA CountType ==
  ASSUME SmokeTypeOK, Count
  PROVE  \A m \in Member : metrics'[m].duplicates \in Nat
<1> SUFFICES ASSUME NEW m \in Member PROVE metrics'[m].duplicates \in Nat
  OBVIOUS
<1>1. metrics[m].duplicates \in Nat
  BY DEF SmokeTypeOK
<1>2. \/ metrics'[m] = Zero
      \/ metrics'[m].duplicates = metrics[m].duplicates + 1
      \/ metrics'[m].duplicates = metrics[m].duplicates
  <2>1. metrics[m].duplicates + 0 = metrics[m].duplicates
    BY <1>1
  <2> QED
    BY <2>1 DEF Count
<1> QED
  BY <1>1, <1>2 DEF Zero

(* The one record the topic holds for the shipment of the test.            *)
LEMMA MyRecord ==
  ASSUME SystemInv, call[SmokeCall].code = "OK",
         NEW p \in Partition, NEW i \in 1..Len(log[p]), log[p][i].shipment_id = Mine
  PROVE  log[p][i] = outbox[MyEvent].payload
<1>1. PICK e \in EventId : outbox[e] # None /\ log[p][i] = outbox[e].payload
  BY DEF SystemInv, OwnInv, OwnRecords
<1>2. PICK s : s = outbox[e].shipment
  OBVIOUS
<1>3. EventOf(outbox[e].payload, e, s)
  BY <1>1, <1>2, StoredEvent DEF SystemInv
<1>4. s = Mine /\ OutboxRowOf(s) = {e}
  BY <1>1, <1>3 DEF EventOf
<1>5. OutboxRowOf(s) = {MyEvent}
  BY <1>4, OkMine
<1> QED
  BY <1>1, <1>4, <1>5

LEMMA MyPartition ==
  ASSUME SystemInv, call[SmokeCall].code = "OK"
  PROVE  /\ PartitionOf[Mine] \in Partition
         /\ DOMAIN log[PartitionOf[Mine]] = 1..Len(log[PartitionOf[Mine]])
         /\ \A i \in DOMAIN log[PartitionOf[Mine]] :
              log[PartitionOf[Mine]][i] \in Payload
<1>1. PartitionOf[Mine] \in Partition
  BY OkMine, KafkaAssumption
<1>2. log[PartitionOf[Mine]] \in Seq(Payload)
  BY <1>1 DEF SystemInv, Shape, TypeOK, KafkaTypeOK
<1> QED
  BY <1>1, <1>2

(* The dispatch waitForDispatch chooses is one of the shipment.            *)
LEMMA ChosenDispatch ==
  ASSUME NEW s, HasDispatch(s)
  PROVE  /\ DispatchIdOf(s) \in DOMAIN dispatches
         /\ dispatches[DispatchIdOf(s)].shipment = s
  BY DEF HasDispatch, DispatchIdOf

LEMMA ArrivedDispatched ==
  ASSUME Arrived
  PROVE  HasDispatch(Mine)
  BY DEF Arrived, GetShipment, View

(* Each check leaves the test with what it has just seen.                  *)
LEMMA ChecksKnow ==
  ASSUME SystemInv, SmokeTypeOK, SmokeKnows, UNCHANGED vars, Checks
  PROVE  smoke' \in SmokeState /\ SmokeKnows'
<1>0. /\ smoke \in SmokeState
      /\ \A m \in Member : metrics[m].duplicates \in Nat
  BY DEF SmokeTypeOK
<1>1. UNCHANGED <<call, outbox, dispatches>>
  BY DEF vars, storeVars
<1>2. PICK s, e : s = Mine /\ e = MyEvent
  OBVIOUS
<1>3. s = Mine' /\ e = MyEvent'
  BY <1>1, <1>2 DEF Mine, MyEvent
<1> DEFINE Knows(st) ==
      /\ st.pc \in Replied \/ st.copy > 0 =>
           call[SmokeCall].pc = "done" /\ call[SmokeCall].code = "OK"
      /\ st.pc \in Found => st.event = outbox[e].payload
      /\ st.pc \in Seen =>
           st.dispatch \in DOMAIN dispatches /\ dispatches[st.dispatch].shipment = s
      /\ st.pc \notin Replayed \cup {"failed"} => st.copy = 0
<1>4. Knows(smoke)
  BY <1>2 DEF SmokeKnows
<1>5. SUFFICES ASSUME NEW st, st = smoke' PROVE st \in SmokeState /\ Knows(st)
  <2>1. SmokeKnows' =
          /\ smoke'.pc \in Replied \/ smoke'.copy > 0 =>
               call[SmokeCall].pc = "done" /\ call[SmokeCall].code = "OK"
          /\ smoke'.pc \in Found => smoke'.event = outbox[e].payload
          /\ smoke'.pc \in Seen =>
               /\ smoke'.dispatch \in DOMAIN dispatches
               /\ dispatches[smoke'.dispatch].shipment = s
          /\ smoke'.pc \notin Replayed \cup {"failed"} => smoke'.copy = 0
    BY <1>1, <1>3 DEF SmokeKnows, Replied, Found, Seen, Replayed
  <2> QED
    BY <1>5, <2>1
<1>6. ASSUME NEW pc \in SmokeStep, st = [smoke EXCEPT !.pc = pc],
             pc \in Replied =>
               call[SmokeCall].pc = "done" /\ call[SmokeCall].code = "OK",
             pc \in Found => smoke.pc \in Found,
             pc \in Seen => smoke.pc \in Seen,
             pc \notin Replayed \cup {"failed"} =>
               smoke.pc \notin Replayed \cup {"failed"}
      PROVE  st \in SmokeState /\ Knows(st)
  <2>1. /\ st \in SmokeState /\ st.pc = pc /\ st.copy = smoke.copy
        /\ st.event = smoke.event /\ st.dispatch = smoke.dispatch
    BY <1>0, <1>6 DEF SmokeState
  <2> QED
    BY <1>4, <1>6, <2>1
<1>7. ASSUME NEW why \in {"mismatch", "series", "unanswered"},
             st = [smoke EXCEPT !.pc = "failed", !.why = why]
      PROVE  st \in SmokeState /\ Knows(st)
  <2>1. st \in SmokeState /\ st.pc = "failed" /\ st.copy = smoke.copy
    BY <1>0, <1>7 DEF SmokeState, SmokeStep
  <2> QED
    BY <1>4, <2>1 DEF Replied, Found, Seen, Replayed
<1> HIDE DEF Knows
<1>8. CASE getQuote
  <2>1. st = [smoke EXCEPT !.pc = "create"]
          \/ st = [smoke EXCEPT !.pc = "failed", !.why = "mismatch"]
    BY <1>5, <1>8 DEF getQuote, Expect, Pass, Wrong
  <2> QED
    BY <1>6, <1>7, <1>8, <2>1
       DEF getQuote, SmokeStep, Replied, Found, Seen, Replayed
<1>9. CASE createShipment
  <2>1. \/ /\ st = [smoke EXCEPT !.pc = "find"]
           /\ call[SmokeCall].pc = "done" /\ call[SmokeCall].code = "OK"
        \/ st = [smoke EXCEPT !.pc = "failed", !.why = "mismatch"]
        \/ st = [smoke EXCEPT !.pc = "failed", !.why = "unanswered"]
    BY <1>5, <1>9 DEF createShipment, Expect, Pass, Wrong
  <2> QED
    BY <1>6, <1>7, <1>9, <2>1
       DEF createShipment, SmokeStep, Replied, Found, Seen, Replayed
<1>10. CASE findEventInKafka
  <2>1. smoke.pc = "find" /\ call[SmokeCall].pc = "done" /\ call[SmokeCall].code = "OK"
        /\ smoke.copy = 0
    BY <1>10 DEF findEventInKafka, SmokeKnows, Replied, Replayed, Found, Seen
  <2>2. PICK p, i : /\ p = PartitionOf[Mine] /\ i \in DOMAIN log[p]
                    /\ log[p][i].shipment_id = Mine
                    /\ \/ st = [smoke EXCEPT !.pc = "dispatch", !.event = log[p][i]]
                       \/ st = [smoke EXCEPT !.pc = "failed", !.why = "mismatch"]
    BY <1>5, <1>10 DEF findEventInKafka, Keyed, Wrong
  <2>3. p \in Partition /\ i \in 1..Len(log[p]) /\ log[p][i] \in Payload
    BY <2>1, <2>2, MyPartition
  <2>4. log[p][i] = outbox[e].payload
    BY <1>2, <2>1, <2>2, <2>3, MyRecord
  <2>5. ASSUME st = [smoke EXCEPT !.pc = "dispatch", !.event = log[p][i]]
        PROVE  st \in SmokeState /\ Knows(st)
    <3>1. /\ st \in SmokeState /\ st.pc = "dispatch" /\ st.event = log[p][i]
          /\ st.copy = smoke.copy
      BY <1>0, <2>3, <2>5 DEF SmokeState, SmokeStep
    <3> QED
      BY <2>1, <2>4, <3>1 DEF Knows, Seen, Replayed
  <2> QED
    BY <1>7, <2>2, <2>5
<1>11. CASE waitForDispatch
  <2>1. /\ smoke.pc = "dispatch" /\ call[SmokeCall].pc = "done"
        /\ call[SmokeCall].code = "OK" /\ smoke.event = outbox[e].payload
        /\ smoke.copy = 0
    BY <1>2, <1>11 DEF waitForDispatch, SmokeKnows, Replied, Found, Seen, Replayed
  <2>2. PICK d : /\ d = DispatchIdOf(Mine)
                 /\ \/ st = [smoke EXCEPT !.pc = "count", !.dispatch = d]
                    \/ st = [smoke EXCEPT !.pc = "failed", !.why = "mismatch"]
    BY <1>5, <1>11 DEF waitForDispatch, Wrong
  <2>3. d \in DOMAIN dispatches /\ dispatches[d].shipment = s
    BY <1>2, <1>11, <2>2, ArrivedDispatched, ChosenDispatch DEF waitForDispatch
  <2>4. d \in Nat
    BY <2>3 DEF SystemInv, Shape, TypeOK, StoreTypeOK
  <2>5. ASSUME st = [smoke EXCEPT !.pc = "count", !.dispatch = d]
        PROVE  st \in SmokeState /\ Knows(st)
    <3>1. /\ st \in SmokeState /\ st.pc = "count" /\ st.dispatch = d
          /\ st.copy = smoke.copy /\ st.event = smoke.event
      BY <1>0, <2>4, <2>5 DEF SmokeState, SmokeStep
    <3> QED
      BY <2>1, <2>3, <3>1 DEF Knows
  <2> QED
    BY <1>7, <2>2, <2>5
<1>12. ASSUME NEW m \in Member, readCounter(m) PROVE st \in SmokeState /\ Knows(st)
  <2>1. smoke.pc = "count"
    BY <1>12 DEF readCounter
  <2>2. st = [smoke EXCEPT !.pc = "replay", !.before = metrics[m].duplicates]
    BY <1>5, <1>12 DEF readCounter
  <2>3. /\ st \in SmokeState /\ st.pc = "replay" /\ st.dispatch = smoke.dispatch
        /\ st.copy = smoke.copy /\ st.event = smoke.event
    BY <1>0, <2>2 DEF SmokeState, SmokeStep
  <2> QED
    BY <1>4, <2>1, <2>3 DEF Knows, Replied, Found, Seen, Replayed
<1>13. ASSUME NEW m \in Member, awaitDuplicate(m) PROVE st \in SmokeState /\ Knows(st)
  <2>1. smoke.pc = "await" /\ st = [smoke EXCEPT !.pc = "recheck"]
    BY <1>5, <1>13 DEF awaitDuplicate, Pass
  <2> QED
    BY <1>4, <1>6, <2>1 DEF Knows, SmokeStep, Replied, Found, Seen, Replayed
<1>14. CASE recheck
  <2>1. /\ smoke.pc = "recheck"
        /\ \/ st = [smoke EXCEPT !.pc = "metrics"]
           \/ st = [smoke EXCEPT !.pc = "failed", !.why = "mismatch"]
    BY <1>5, <1>14 DEF recheck, Expect, Pass, Wrong
  <2> QED
    BY <1>4, <1>6, <1>7, <2>1 DEF Knows, SmokeStep, Replied, Found, Seen, Replayed
<1>15. ASSUME NEW m \in Member, checkMetrics(m) PROVE st \in SmokeState /\ Knows(st)
  <2>1. /\ smoke.pc = "metrics"
        /\ \/ st = [smoke EXCEPT !.pc = "passed"]
           \/ st = [smoke EXCEPT !.pc = "failed", !.why = "series"]
    BY <1>5, <1>15 DEF checkMetrics, Pass, Wrong
  <2> QED
    BY <1>4, <1>6, <1>7, <2>1 DEF Knows, SmokeStep, Replied, Found, Seen, Replayed
<1> QED
  BY <1>8, <1>9, <1>10, <1>11, <1>12, <1>13, <1>14, <1>15 DEF Checks

(* The replay of the test writes the stored event of its shipment again.   *)
LEMMA ReplayWrites ==
  ASSUME SystemInv, SmokeKnows, replay, NEW s, NEW e, s = Mine, e = MyEvent
  PROVE  /\ s \in ShipmentId /\ e \in EventId /\ outbox[e] # None
         /\ outbox[e].shipment = s /\ outbox[e].payload.event_id = e
         /\ PartitionOf[s] \in Partition
         /\ call[SmokeCall].pc = "done" /\ call[SmokeCall].code = "OK"
         /\ smoke.event = outbox[e].payload
         /\ WriteEvent(e)
         /\ log' \in [Partition -> Seq(Payload)] /\ LogGrows
<1>1. /\ call[SmokeCall].pc = "done" /\ call[SmokeCall].code = "OK"
      /\ smoke.event = outbox[e].payload
  BY DEF replay, SmokeKnows, Replied, Found, Seen
<1>2. /\ s \in ShipmentId /\ e \in EventId /\ outbox[e] # None
      /\ outbox[e].shipment = s /\ outbox[e].payload.event_id = e
  BY <1>1, OkMine DEF EventOf
<1>3. WriteEvent(e)
  BY <1>1, <1>2 DEF replay, WriteEvent
<1>4. log' \in [Partition -> Seq(Payload)] /\ LogGrows
  BY <1>2, <1>3, WriteEventGrows DEF SystemInv
<1> QED
  BY <1>1, <1>2, <1>3, <1>4, KafkaAssumption

LEMMA SmokeInvReplay ==
  ASSUME SmokeInv, replay,
         UNCHANGED <<disturbances, storeVars, inflight, groupVars, relay, member,
                     call, metrics>>
  PROVE  SmokeInv'
<1>0. SystemInv /\ ExampleParcel /\ SmokeTypeOK /\ SmokeKnows
  BY DEF SmokeInv
<1>1. PICK s, e : s = Mine /\ e = MyEvent
  OBVIOUS
<1>2. /\ e \in EventId /\ outbox[e] # None /\ WriteEvent(e)
      /\ s \in ShipmentId /\ PartitionOf[s] \in Partition
      /\ log' \in [Partition -> Seq(Payload)] /\ LogGrows
  BY <1>0, <1>1, ReplayWrites
<1>3. OwnRecords'
  BY <1>0, <1>2, OwnRecordsWritten DEF SystemInv, OwnInv, storeVars
<1>4. SystemInv'
  BY <1>0, <1>2, <1>3, SystemFrame DEF Undisturbed
<1>5. ExampleParcel'
  BY <1>0 DEF ExampleParcel
<1>6. PICK n \in Nat : n = Len(log[PartitionOf[s]]) + 1
  BY <1>0, <1>2 DEF SystemInv, Shape, TypeOK, KafkaTypeOK
<1>7. smoke.pc = "replay" /\ smoke' = [smoke EXCEPT !.pc = "await", !.copy = n]
  BY <1>1, <1>6 DEF replay
<1>8. /\ smoke' \in SmokeState /\ smoke'.pc = "await"
      /\ smoke'.event = smoke.event /\ smoke'.dispatch = smoke.dispatch
  <2>1. smoke \in SmokeState
    BY <1>0 DEF SmokeTypeOK
  <2> QED
    BY <1>7, <2>1 DEF SmokeState, SmokeStep
<1>9. SmokeTypeOK'
  BY <1>0, <1>8 DEF SmokeTypeOK
<1>10. Mine' = Mine /\ MyEvent' = MyEvent /\ UNCHANGED <<outbox, dispatches, call>>
  BY DEF Mine, MyEvent, storeVars
<1>11. /\ call[SmokeCall].pc = "done" /\ call[SmokeCall].code = "OK"
       /\ smoke.event = outbox[e].payload
       /\ smoke.dispatch \in DOMAIN dispatches
       /\ dispatches[smoke.dispatch].shipment = s
  BY <1>0, <1>1, <1>7 DEF SmokeKnows, Replied, Found, Seen
<1>12. MyEvent' = e /\ Mine' = s
  BY <1>1, <1>10
<1>13. SmokeKnows'
  BY <1>8, <1>10, <1>11, <1>12 DEF SmokeKnows, Replayed
<1> QED
  BY <1>4, <1>5, <1>9, <1>13 DEF SmokeInv

LEMMA SmokeInvFails ==
  ASSUME SmokeInv, StepFails
  PROVE  SmokeInv'
<1>0. SystemInv /\ ExampleParcel /\ SmokeTypeOK /\ SmokeKnows
  BY DEF SmokeInv
<1>1. /\ UNCHANGED <<storeVars, inflight, groupVars, relay, member, call>>
      /\ UNCHANGED <<log, outbox, dispatches, metrics>> /\ Disturb
  BY DEF StepFails, kafkaVars, groupVars, storeVars
<1>2. log' \in [Partition -> Seq(Payload)] /\ LogGrows
  BY <1>0, <1>1 DEF SystemInv, Shape, TypeOK, KafkaTypeOK, LogGrows
<1>3. OwnRecords'
  BY <1>0, <1>1 DEF OwnRecords, SystemInv, OwnInv
<1>4. SystemInv'
  BY <1>0, <1>1, <1>2, <1>3, SystemFrame
<1>5. ExampleParcel'
  BY <1>0, <1>1 DEF ExampleParcel
<1>6. smoke' \in SmokeState /\ smoke'.pc = "failed" /\ smoke'.copy = smoke.copy
  BY <1>0 DEF StepFails, Wrong, SmokeTypeOK, SmokeState, SmokeStep
<1>7. SmokeTypeOK'
  BY <1>0, <1>1, <1>6 DEF SmokeTypeOK
<1>8. SmokeKnows'
  BY <1>0, <1>1, <1>6 DEF SmokeKnows, Replied, Found, Seen, Replayed
<1> QED
  BY <1>4, <1>5, <1>7, <1>8 DEF SmokeInv

LEMMA SmokeInvNext ==
  ASSUME ForeignRecord = {}, SmokeInv, [SmokeNext]_smokeVars
  PROVE  SmokeInv'
<1>0. SystemInv /\ ExampleParcel /\ SmokeTypeOK /\ SmokeKnows
  BY DEF SmokeInv
<1>1. CASE SystemStep
  <2>1. Next /\ Count /\ UNCHANGED smoke
    BY <1>1, SystemIsNext DEF SystemStep
  <2>2. SystemInv' /\ TablesKept
    BY <1>0, <2>1, SystemInvNext, TablesStay
  <2>3. ExampleParcel'
    BY <1>0, <1>1, ExampleStays DEF SystemInv
  <2>4. SmokeTypeOK'
    BY <1>0, <2>1, CountType DEF SmokeTypeOK
  <2>5. smoke.pc # "create" => call'[SmokeCall] = call[SmokeCall]
    BY <1>0, <1>1, SmokeCallKept DEF SmokeCallStep, SystemInv
  <2>6. SmokeKnows'
    BY <1>0, <2>1, <2>2, <2>5, KnowsStays
  <2> QED
    BY <2>2, <2>3, <2>4, <2>6 DEF SmokeInv
<1>2. CASE Checks /\ UNCHANGED <<vars, metrics>>
  <2>1. SystemInv'
    BY <1>0, <1>2, SystemInvNext
  <2>2. smoke' \in SmokeState /\ SmokeKnows'
    BY <1>0, <1>2, ChecksKnow
  <2>3. ExampleParcel' /\ SmokeTypeOK'
    BY <1>0, <1>2, <2>2 DEF ExampleParcel, SmokeTypeOK, vars
  <2> QED
    BY <2>1, <2>2, <2>3 DEF SmokeInv
<1>3. CASE SmokeTest
  BY <1>2, <1>3, SmokeInvReplay DEF SmokeTest
<1>4. CASE StepFails
  BY <1>4, SmokeInvFails
<1>5. CASE UNCHANGED smokeVars
  <2>1. UNCHANGED <<vars, smoke, metrics>>
    BY <1>5 DEF smokeVars
  <2>2. SystemInv' /\ TablesKept
    BY <1>0, <2>1, SystemInvNext, TablesStay
  <2>3. UNCHANGED call
    BY <2>1 DEF vars
  <2>4. SmokeKnows'
    BY <1>0, <2>1, <2>2, <2>3, KnowsStays
  <2> QED
    BY <1>0, <2>1, <2>2, <2>3, <2>4 DEF SmokeInv, ExampleParcel, SmokeTypeOK
<1> QED
  BY <1>1, <1>3, <1>4, <1>5 DEF SmokeNext

LEMMA SmokeInvInit == SmokeInit => SmokeInv
<1> SUFFICES ASSUME SmokeInit PROVE SmokeInv
  OBVIOUS
<1>1. Init
  BY DEF SmokeInit
<1>2. SystemInv
  <2>1. LocksHeld
    BY <1>1 DEF Init, RelayInit, Down, BetweenPolls, LocksHeld
  <2>2. OwnInv
    BY <1>1 DEF Init, StoreInit, KafkaInit, OwnInv, OwnRecords, DispatchMatchesShipment
  <2> QED
    BY <1>1, <2>1, <2>2, ShapeInit, StoreInvInit, OffsetInit, DispatchInit DEF SystemInv
<1>3. call[SmokeCall].pc = "new" /\ call[SmokeCall].code = None
  BY <1>1, SmokeAssumption DEF Init, APIInit, NewCall
<1>4. ExampleParcel
  BY <1>3, CodeAssumption DEF ExampleParcel, Code
<1>5. SmokeTypeOK
  BY DEF SmokeInit, SmokeTypeOK, SmokeState, SmokeStep, Zero
<1>6. SmokeKnows
  BY DEF SmokeInit, SmokeKnows, Replied, Found, Seen, Replayed
<1> QED
  BY <1>2, <1>4, <1>5, <1>6 DEF SmokeInv

(* SmokeInv is an invariant of the smoke test: what a step of it has seen  *)
(* of its shipment, event and dispatch is still there for the next one,    *)
(* whatever the services and their failures do in between.                 *)
THEOREM SmokeInvariant ==
  ASSUME ForeignRecord = {}
  PROVE  SmokeSpec => []SmokeInv
<1>1. SmokeInv /\ [SmokeNext]_smokeVars => SmokeInv'
  BY SmokeInvNext
<1> QED
  BY <1>1, SmokeInvInit, PTL DEF SmokeSpec
-----------------------------------------------------------------------------
(* The example parcel starts its second kilogram, so it costs 700 cents.   *)
LEMMA ExamplePrice ==
  ASSUME NEW row, AtPublishedRule(row), row.weight = exampleWeightGrams
  PROVE  row.amount = exampleAmountCents
<1>1. PICK k \in 1..30 : CostsKilograms(row, k)
  BY DEF AtPublishedRule
<1> QED
  BY <1>1 DEF CostsKilograms, exampleWeightGrams, exampleAmountCents

(* What getQuote is answered.                                              *)
LEMMA ExampleQuote ==
  /\ Quoted(post_quote(exampleWeightGrams)).err = {}
  /\ Quoted(post_quote(exampleWeightGrams)).money.amount = exampleAmountCents
  /\ Quoted(post_quote(exampleWeightGrams)).money.currency = CURRENCY
<1>1. /\ exampleWeightGrams \in Int /\ validate_weight(exampleWeightGrams)
      /\ 1 <= exampleWeightGrams /\ exampleWeightGrams <= 30000
  BY DEF exampleWeightGrams, validate_weight, MIN_WEIGHT_GRAMS,
         MAX_WEIGHT_GRAMS
<1>2. PICK k : k = started_kilograms(exampleWeightGrams)
  OBVIOUS
<1>3. k \in 1..30 /\ 1000 * (k - 1) < 1500 /\ 1500 <= 1000 * k
  BY <1>1, <1>2, StartedKilograms DEF exampleWeightGrams
<1>4. k = 2
  BY <1>3
<1>5. PICK q : q = quote(exampleWeightGrams)
  OBVIOUS
<1>6. q.amount = 700 /\ q.currency = CURRENCY
  <2>1. q = [amount |-> BASE_CENTS + PER_STARTED_KG_CENTS * k, currency |-> CURRENCY]
    BY <1>2, <1>5 DEF quote
  <2>2. BASE_CENTS + PER_STARTED_KG_CENTS * k = 700
    BY <1>4 DEF BASE_CENTS, PER_STARTED_KG_CENTS
  <2> QED
    BY <2>1, <2>2
<1>7. post_quote(exampleWeightGrams) =
        [transport |-> "done", status |-> 200, json |-> TRUE,
         amount |-> q.amount, currency |-> q.currency]
  BY <1>1, <1>5 DEF post_quote
<1>8. q.amount # Absent /\ q.currency # Absent
  BY <1>6, WireAssumption, CURRENCYAssumption, CurrencyAssumption
<1>9. ValidateMoney([amount |-> q.amount, currency |-> q.currency])
  BY <1>6, CURRENCYAssumption DEF ValidateMoney, isCurrencyCode
<1>10. Quoted(post_quote(exampleWeightGrams)) =
         [err |-> {}, money |-> [amount |-> q.amount, currency |-> q.currency]]
  BY <1>7, <1>8, <1>9 DEF Quoted, decodeQuote
<1> QED
  BY <1>6, <1>10 DEF exampleAmountCents

(* The prices hold beside the test as they do without it.                  *)
LEMMA SmokePriceNext ==
  ASSUME FaultyAnswersFail, SmokeInv, PriceInv, [SmokeNext]_smokeVars
  PROVE  PriceInv'
<1>1. Shape /\ StoreInv
  BY DEF SmokeInv, SystemInv
<1>2. ASSUME UNCHANGED <<shipments, call>> PROVE PriceInv'
  BY <1>2 DEF PriceInv, CallsQuoted, StoredPriceIsQuoted
<1>3. CASE SystemStep
  BY <1>1, <1>3, SystemIsNext, PriceInvNext
<1>4. CASE SmokeTest
  BY <1>2, <1>4 DEF SmokeTest, vars, storeVars
<1>5. CASE StepFails
  BY <1>2, <1>5 DEF StepFails, storeVars
<1>6. CASE UNCHANGED smokeVars
  BY <1>2, <1>6 DEF smokeVars, vars, storeVars
<1> QED
  BY <1>3, <1>4, <1>5, <1>6 DEF SmokeNext

(* The price of the test's shipment, in the reply and in the table.        *)
LEMMA MyPrice ==
  ASSUME SmokeInv, PriceInv, call[SmokeCall].code = "OK"
  PROVE  /\ call[SmokeCall].row.amount = exampleAmountCents
         /\ shipments[Mine].amount = exampleAmountCents
<1>0. SystemInv /\ ExampleParcel
  BY DEF SmokeInv
<1>1. PICK s, row : s = Mine /\ row = call[SmokeCall].row
  OBVIOUS
<1>2. s \in ShipmentId /\ shipments[s] = row /\ shipments[s] # None
  BY <1>0, <1>1, OkMine
<1>3. AtPublishedRule(row)
  BY <1>2 DEF PriceInv, StoredPriceIsQuoted
<1>4. row.weight = exampleWeightGrams
  BY <1>0, <1>1 DEF ExampleParcel
<1> QED
  BY <1>1, <1>2, <1>3, <1>4, ExamplePrice

(* No check of the test finds anything wrong.                              *)
LEMMA ChecksAgree ==
  ASSUME SmokeInv, PriceInv, Checks
  PROVE  smoke'.why # "mismatch" \/ smoke.why = "mismatch"
<1>0. SystemInv /\ SmokeKnows /\ smoke \in SmokeState
  BY DEF SmokeInv, SmokeTypeOK
<1>1. ASSUME NEW pc, Pass(pc) PROVE smoke'.why = smoke.why
  BY <1>0, <1>1 DEF Pass, SmokeState
<1>2. ASSUME NEW why, Wrong(why) PROVE smoke'.why = why
  BY <1>0, <1>2 DEF Wrong, SmokeState
<1>3. CASE getQuote
  BY <1>1, <1>3, ExampleQuote DEF getQuote, Expect
<1>4. CASE createShipment
  BY <1>1, <1>2, <1>4, MyPrice DEF createShipment, Expect
<1>5. CASE findEventInKafka
  <2>1. call[SmokeCall].code = "OK"
    BY <1>0, <1>5 DEF findEventInKafka, SmokeKnows, Replied
  <2>2. PICK s, e : s = Mine /\ e = MyEvent
    OBVIOUS
  <2>3. /\ EventOf(outbox[e].payload, e, s) /\ Decodes(outbox[e].payload)
        /\ shipments[s].amount = exampleAmountCents
    BY <1>0, <2>1, <2>2, OkMine, MyPrice
  <2>4. PICK p, i : /\ p = PartitionOf[Mine] /\ i \in DOMAIN log[p]
                    /\ log[p][i].shipment_id = Mine
                    /\ IF Decodes(log[p][i]) /\ log[p][i].amount = exampleAmountCents
                       THEN smoke' = [smoke EXCEPT !.pc = "dispatch", !.event = log[p][i]]
                       ELSE Wrong("mismatch")
    BY <1>5 DEF findEventInKafka, Keyed
  <2>5. p \in Partition /\ i \in 1..Len(log[p])
    BY <1>0, <2>1, <2>4, MyPartition
  <2>6. log[p][i] = outbox[e].payload
    BY <1>0, <2>1, <2>2, <2>4, <2>5, MyRecord
  <2>7. smoke' = [smoke EXCEPT !.pc = "dispatch", !.event = log[p][i]]
    BY <2>3, <2>4, <2>6 DEF EventOf
  <2> QED
    BY <1>0, <2>7 DEF SmokeState
<1>6. CASE waitForDispatch
  <2>1. call[SmokeCall].code = "OK" /\ smoke.event = outbox[MyEvent].payload
    BY <1>0, <1>6 DEF waitForDispatch, SmokeKnows, Replied, Found
  <2>2. PICK s, e, d : s = Mine /\ e = MyEvent /\ d = DispatchIdOf(Mine)
    OBVIOUS
  <2>3. OutboxRowOf(s) = {e} /\ EventOf(outbox[e].payload, e, s)
    BY <1>0, <2>1, <2>2, OkMine
  <2>4. smoke.event.event_id = e
    BY <2>1, <2>2, <2>3 DEF EventOf
  <2>5. d \in DOMAIN dispatches /\ dispatches[d].shipment = s
    BY <1>6, <2>2, ArrivedDispatched, ChosenDispatch DEF waitForDispatch
  <2>6. OutboxRowOf(s) = {dispatches[d].event}
    BY <1>0, <2>5 DEF SystemInv, OwnInv, DispatchMatchesShipment
  <2>7. dispatches[d].event = smoke.event.event_id
    BY <2>3, <2>4, <2>6
  <2>8. smoke' = [smoke EXCEPT !.pc = "count", !.dispatch = d]
    BY <1>6, <2>2, <2>7 DEF waitForDispatch
  <2> QED
    BY <1>0, <2>8 DEF SmokeState
<1>7. CASE recheck
  <2>1. /\ smoke.dispatch \in DOMAIN dispatches
        /\ dispatches[smoke.dispatch].shipment = Mine
    BY <1>0, <1>7 DEF recheck, SmokeKnows, Seen, Replayed
  <2>2. PICK s, d : s = Mine /\ d = DispatchIdOf(Mine)
    OBVIOUS
  <2>3. d \in DOMAIN dispatches /\ dispatches[d].shipment = s
    BY <2>1, <2>2, ChosenDispatch DEF HasDispatch
  <2>4. d = smoke.dispatch
    BY <1>0, <2>1, <2>2, <2>3 DEF SystemInv, DispatchInv, DispatchedOnce
  <2> QED
    BY <1>1, <1>7, <2>2, <2>4 DEF recheck, Expect
<1>8. ASSUME NEW m \in Member, readCounter(m) \/ awaitDuplicate(m) \/ checkMetrics(m)
      PROVE  smoke'.why = smoke.why \/ smoke'.why = "series"
  <2>1. readCounter(m) => smoke'.why = smoke.why
    BY <1>0 DEF readCounter, SmokeState
  <2> QED
    BY <1>1, <1>2, <1>8, <2>1 DEF awaitDuplicate, checkMetrics
<1> QED
  BY <1>3, <1>4, <1>5, <1>6, <1>7, <1>8 DEF Checks

(* The smoke test raises no false alarm: whatever fails or is redelivered  *)
(* around it, no check of a price, an event or a dispatch of cmd/smoke     *)
(* finds anything wrong, for any number of services, partitions, calls and *)
(* disturbances.                                                           *)
THEOREM NoFalseAlarmAlways ==
  ASSUME ForeignRecord = {}, FaultyAnswersFail
  PROVE  SmokeSpec => []NoFalseAlarm
<1>1. SmokeInit => PriceInv /\ NoFalseAlarm
  <2>1. Init => PriceInv
    BY DEF Init, StoreInit, APIInit, NewCall, PriceInv, CallsQuoted, StoredPriceIsQuoted
  <2> QED
    BY <2>1, SmokeAssumption DEF SmokeInit, NoFalseAlarm
<1>2. ASSUME SmokeInv, PriceInv, NoFalseAlarm, [SmokeNext]_smokeVars
      PROVE  NoFalseAlarm'
  <2>1. smoke \in SmokeState /\ smoke.why # "mismatch"
    BY <1>2 DEF SmokeInv, SmokeTypeOK, NoFalseAlarm
  <2>2. CASE UNCHANGED smoke
    BY <2>1, <2>2 DEF NoFalseAlarm
  <2>3. CASE Checks
    BY <1>2, <2>1, <2>3, ChecksAgree DEF NoFalseAlarm
  <2>4. CASE replay
    BY <2>1, <2>4 DEF replay, SmokeState, NoFalseAlarm
  <2>5. CASE StepFails
    BY <2>1, <2>5 DEF StepFails, Wrong, SmokeState, NoFalseAlarm
  <2> QED
    BY <1>2, <2>2, <2>3, <2>4, <2>5 DEF SmokeNext, SystemStep, SmokeTest, smokeVars
<1>3. SmokeInv /\ PriceInv /\ [SmokeNext]_smokeVars => PriceInv'
  BY SmokePriceNext
<1>4. SmokeInv /\ PriceInv /\ NoFalseAlarm /\ [SmokeNext]_smokeVars => NoFalseAlarm'
  BY <1>2
<1> QED
  BY <1>1, <1>3, <1>4, SmokeInvariant, PTL DEF SmokeSpec
-----------------------------------------------------------------------------
(* The record at place i of partition p is the one the test wrote.         *)
IsCopy(p, i) == smoke.copy > 0 /\ p = PartitionOf[Mine] /\ i = smoke.copy

(* The record at place i of p has been handled: the offset is past it, or  *)
(* a member is about to commit it.                                         *)
Handled(p, i) ==
  \/ i <= committed[p]
  \/ \E m \in Member : /\ member[m].pc = "offset"
                       /\ member[m].part = p /\ member[m].offset = i

(* No produce is under way that its relay has given up.                    *)
NothingInFlight == \A e \in EventId : inflight[e] = 0

(* A member keeps its partition as long as it is busy with a record.       *)
BusyOwns == \A m \in Member : Busy(m) => owner[member[m].part] = m

(* What is in the topic a relay has marked as published, or is about to.   *)
WrittenAcknowledged ==
  \A p \in Partition : \A i \in 1..Len(log[p]) : Acknowledged(log[p][i].event_id)

(* An event is in the topic once, but for the copy of the test.            *)
WrittenOnce ==
  \A p, q \in Partition : \A i \in 1..Len(log[p]), j \in 1..Len(log[q]) :
    log[p][i].event_id = log[q][j].event_id =>
      (p = q /\ i = j) \/ IsCopy(p, i) \/ IsCopy(q, j)

(* An event that is in processed_events has a record that was handled.     *)
ProcessedHandled ==
  \A e \in processed : \E p \in Partition : \E i \in 1..Len(log[p]) :
    log[p][i].event_id = e /\ Handled(p, i)

(* The consumers count a duplicate only once the copy has been handled.    *)
CountsTheCopy ==
  \A m \in Member : metrics[m].duplicates > 0 => smoke.copy > 0 /\ ReplayHandled

(* The stack as long as nothing has disturbed it.                          *)
QuietStack ==
  /\ NothingInFlight /\ BusyOwns /\ WrittenAcknowledged /\ WrittenOnce
  /\ ProcessedHandled /\ CountsTheCopy /\ CounterShowsReplay

QuietInv == disturbances = 0 => QuietStack

(* The record the test wrote is the same record after a step.              *)
SameCopy ==
  /\ smoke'.copy = smoke.copy
  /\ smoke.copy > 0 \/ smoke.pc \in Replied => Mine' = Mine

HandledKept ==
  \A p \in Partition : \A i \in Nat : Handled(p, i) => Handled(p, i)'

LEMMA CopySame ==
  ASSUME SmokeInv,
         \/ SystemStep
         \/ Checks /\ UNCHANGED <<vars, metrics>>
         \/ UNCHANGED smokeVars
  PROVE  SameCopy
<1>0. smoke \in SmokeState /\ SmokeKnows /\ Shape
  BY DEF SmokeInv, SmokeTypeOK, SystemInv
<1>1. smoke.copy > 0 \/ smoke.pc \in Replied => smoke.pc # "create"
  BY <1>0 DEF SmokeState, SmokeKnows, Replied, Found, Seen, Replayed
<1>2. CASE SystemStep
  BY <1>0, <1>1, <1>2, SmokeCallKept DEF SystemStep, SmokeCallStep, SameCopy, Mine
<1>3. CASE Checks /\ UNCHANGED vars
  <2>1. smoke'.copy = smoke.copy
    BY <1>0, <1>3
       DEF Checks, getQuote, createShipment, findEventInKafka, waitForDispatch, recheck,
           readCounter, awaitDuplicate, checkMetrics, Expect, Pass, Wrong, SmokeState
  <2> QED
    BY <1>3, <2>1 DEF SameCopy, Mine, vars
<1>4. CASE UNCHANGED smokeVars
  BY <1>4 DEF smokeVars, vars, SameCopy, Mine
<1> QED
  BY <1>2, <1>3, <1>4

(* ReplayHandled says of the test's record what Handled says of any.       *)
LEMMA ReplayIsHandled ==
  ASSUME SmokeInv, smoke.copy > 0 \/ smoke.pc \in Replied
  PROVE  /\ PartitionOf[Mine] \in Partition /\ smoke.copy \in Nat
         /\ ReplayHandled <=> Handled(PartitionOf[Mine], smoke.copy)
<1>1. PartitionOf[Mine] \in Partition
  BY MyPartition DEF SmokeInv, SmokeKnows
<1>2. smoke.copy \in Nat /\ committed[PartitionOf[Mine]] \in Nat
  BY <1>1 DEF SmokeInv, SmokeTypeOK, SmokeState, SystemInv, Shape, TypeOK, KafkaTypeOK
<1> QED
  BY <1>1, <1>2 DEF ReplayHandled, Handled

LEMMA ReplayStays ==
  ASSUME SmokeInv, SmokeInv', SameCopy, HandledKept, ReplayHandled,
         smoke.copy > 0 \/ (smoke.pc \in Replied /\ smoke'.pc \in Replied)
  PROVE  ReplayHandled'
<1>1. PICK p, n : p = PartitionOf[Mine] /\ n = smoke.copy
  OBVIOUS
<1>2. p = PartitionOf[Mine'] /\ n = smoke'.copy
  BY <1>1 DEF SameCopy
<1>3. p \in Partition /\ n \in Nat /\ Handled(p, n)
  BY <1>1, ReplayIsHandled
<1>4. Handled(p, n)'
  BY <1>3 DEF HandledKept
<1>5. committed'[p] \in Nat
  BY <1>3 DEF SmokeInv, SystemInv, Shape, TypeOK, KafkaTypeOK
<1>6. \/ n <= committed'[p]
      \/ \E m \in Member : /\ member'[m].pc = "offset"
                           /\ member'[m].part = p /\ member'[m].offset = n
  BY <1>4 DEF Handled
<1> QED
  BY <1>2, <1>3, <1>5, <1>6 DEF ReplayHandled

(* What a member does in a quiet stack.  It is given a partition; it comes *)
(* to rest with nothing committed; it works on a record, skips it as a     *)
(* duplicate, dispatches it, or commits its offset.                        *)
Takes(m) ==
  /\ \E p \in Partition : owner[p] = None /\ owner' = [owner EXCEPT ![p] = m]
  /\ UNCHANGED <<member, processed, committed>>

Rests(m) ==
  /\ member[m].pc # "offset"
  /\ \E st : /\ member' = [member EXCEPT ![m] = st]
             /\ st.pc \in {"down", "idle"}
  /\ UNCHANGED owner \/ Release(m)
  /\ UNCHANGED <<processed, committed>>

Works(m) ==
  /\ member[m].pc # "offset"
  /\ \E st : /\ member' = [member EXCEPT ![m] = st]
             /\ st.pc \in {"handle", "dispatch", "commit"} /\ owner[st.part] = m
  /\ UNCHANGED <<owner, processed, committed>>

(* m goes on to its offset commit with the record in hand.                 *)
ToOffset(m) ==
  \E st : /\ member' = [member EXCEPT ![m] = st] /\ st.pc = "offset"
         /\ st.part = member[m].part /\ st.offset = member[m].offset

Skips(m) ==
  /\ member[m].pc = "handle" /\ Record(m).event_id \in processed
  /\ ToOffset(m)
  /\ UNCHANGED <<owner, processed, committed>>

Dispatches(m) ==
  /\ member[m].pc = "commit" /\ processed' = processed \cup {Record(m).event_id}
  /\ ToOffset(m)
  /\ UNCHANGED <<owner, committed>>

Commits(m) ==
  /\ member[m].pc = "offset"
  /\ \E st : member' = [member EXCEPT ![m] = st] /\ st.pc = "idle"
  /\ MoveOffset(m)
  /\ UNCHANGED <<owner, processed>>

QuietMember(m) ==
  Takes(m) \/ Rests(m) \/ Works(m) \/ Skips(m) \/ Dispatches(m) \/ Commits(m)

LEMMA GotoMoves ==
  ASSUME Shape, NEW m \in Member, NEW pc, Goto(m, pc)
  PROVE  \E st : /\ member' = [member EXCEPT ![m] = st] /\ st.pc = pc
                /\ st.part = member[m].part /\ st.offset = member[m].offset
<1>1. member[m] \in MemberState
  BY DEF Shape, TypeOK, ConsumerTypeOK
<1>2. PICK st : st = [member[m] EXCEPT !.pc = pc]
  OBVIOUS
<1>3. st.pc = pc /\ st.part = member[m].part /\ st.offset = member[m].offset
  BY <1>1, <1>2 DEF MemberState
<1>4. member' = [member EXCEPT ![m] = st]
  BY <1>2 DEF Goto
<1> QED
  BY <1>3, <1>4

LEMMA MemberQuiet ==
  ASSUME Shape, BusyOwns, NEW m \in Member, MemberStep(m), Undisturbed
  PROVE  UNCHANGED inflight /\ QuietMember(m)
<1>0. ~Disturb
  BY DEF Disturb, Undisturbed, Shape, TypeOK
<1>1. Busy(m) => owner[member[m].part] = m
  BY DEF BusyOwns
<1>2. UNCHANGED storeVars => UNCHANGED processed
  BY DEF storeVars
<1>3. UNCHANGED kafkaVars => UNCHANGED <<inflight, owner, committed>>
  BY DEF kafkaVars
<1>4. ASSUME Exit(m), member[m].pc # "offset", UNCHANGED <<processed, committed>>
      PROVE  Rests(m)
  <2>1. PICK st : st = Resting("down")
    OBVIOUS
  <2>2. member' = [member EXCEPT ![m] = st] /\ st.pc = "down" /\ Release(m)
    BY <1>4, <2>1 DEF Exit, Resting
  <2>3. \E x : member' = [member EXCEPT ![m] = x] /\ x.pc \in {"down", "idle"}
    BY <2>2
  <2> QED
    BY <1>4, <2>2, <2>3 DEF Rests
<1>5. MemberWorks(m) \/ \E p \in Partition : Assign(m, p)
  BY <1>0
     DEF MemberStep, MemberDisturbed, Revoke, Remove, StorageFails, OffsetFails, StopMember
<1>6. CASE StartMember(m)
  <2>1. PICK st : member' = [member EXCEPT ![m] = st] /\ st.pc = "idle"
    BY <1>6, GotoMoves DEF StartMember
  <2> QED
    BY <1>2, <1>3, <1>6, <2>1 DEF StartMember, Rests, QuietMember
<1>7. ASSUME NEW p \in Partition, Assign(m, p)
      PROVE  UNCHANGED inflight /\ QuietMember(m)
  BY <1>2, <1>7 DEF Assign, Takes, QuietMember
<1>8. ASSUME NEW p \in Partition, Poll(m, p)
      PROVE  UNCHANGED inflight /\ QuietMember(m)
  <2>1. PICK st : st = [pc |-> "handle", part |-> p, offset |-> position[p] + 1,
                        attempt |-> 1]
    OBVIOUS
  <2>2. /\ member' = [member EXCEPT ![m] = st]
        /\ st.pc = "handle" /\ st.part = p /\ owner[p] = m
    BY <1>8, <2>1 DEF Poll
  <2>3. member[m].pc = "idle" /\ UNCHANGED <<inflight, owner, processed, committed>>
    BY <1>2, <1>8 DEF Poll
  <2> QED
    BY <2>2, <2>3 DEF Works, QuietMember
<1>9. CASE Reject(m) \/ Conflict(m)
  BY <1>2, <1>4, <1>9 DEF Reject, Conflict, AtDispatch, QuietMember
<1>10. CASE InsertProcessed(m)
  <2>1. PICK pc : /\ pc = IF Record(m).event_id \in processed THEN "offset" ELSE "dispatch"
                  /\ Goto(m, pc)
    BY <1>10 DEF InsertProcessed
  <2>2. PICK st : /\ member' = [member EXCEPT ![m] = st] /\ st.pc = pc
                  /\ st.part = member[m].part /\ st.offset = member[m].offset
    BY <2>1, GotoMoves
  <2>3. /\ member[m].pc = "handle" /\ UNCHANGED <<inflight, owner, committed, processed>>
    BY <1>2, <1>3, <1>10 DEF InsertProcessed
  <2> QED
    BY <1>1, <2>1, <2>2, <2>3 DEF Busy, Works, Skips, ToOffset, QuietMember
<1>11. CASE InsertDispatch(m)
  <2>1. PICK st : /\ member' = [member EXCEPT ![m] = st] /\ st.pc = "commit"
                  /\ st.part = member[m].part
    BY <1>11, GotoMoves DEF InsertDispatch
  <2>2. member[m].pc = "dispatch" /\ UNCHANGED <<inflight, owner, committed, processed>>
    BY <1>2, <1>3, <1>11 DEF InsertDispatch, AtDispatch
  <2> QED
    BY <1>1, <2>1, <2>2 DEF Busy, Works, QuietMember
<1>12. CASE Orphan(m)
  <2>1. member[m].pc = "dispatch" /\ UNCHANGED <<inflight, committed, processed>>
    BY <1>2, <1>12 DEF Orphan, AtDispatch
  <2>2. CASE Exit(m)
    BY <1>4, <2>1, <2>2 DEF QuietMember
  <2>3. CASE /\ member' = [member EXCEPT ![m].pc = "handle", ![m].attempt = @ + 1]
             /\ UNCHANGED owner
    <3>1. PICK st : st = [member[m] EXCEPT !.pc = "handle", !.attempt = @ + 1]
      OBVIOUS
    <3>2. member[m] \in MemberState /\ member \in [Member -> MemberState]
      BY DEF Shape, TypeOK, ConsumerTypeOK
    <3>3. st.pc = "handle" /\ st.part = member[m].part
      BY <3>1, <3>2 DEF MemberState
    <3>4. member' = [member EXCEPT ![m] = st]
      BY <2>3, <3>1, <3>2
    <3> QED
      BY <1>1, <2>1, <2>3, <3>3, <3>4 DEF Busy, Works, QuietMember
  <2> QED
    BY <1>12, <2>2, <2>3 DEF Orphan, RetryOrGiveUp
<1>13. CASE CommitTx(m)
  <2>1. PICK st : /\ member' = [member EXCEPT ![m] = st] /\ st.pc = "offset"
                  /\ st.part = member[m].part /\ st.offset = member[m].offset
    BY <1>13, GotoMoves DEF CommitTx
  <2>2. /\ member[m].pc = "commit" /\ UNCHANGED <<inflight, owner, committed>>
        /\ processed' = processed \cup {Record(m).event_id}
    BY <1>3, <1>13 DEF CommitTx, RecordDispatchTx
  <2> QED
    BY <2>1, <2>2 DEF ToOffset, Dispatches, QuietMember
<1>14. CASE CommitOffset(m)
  <2>1. PICK st : st = Resting("idle")
    OBVIOUS
  <2>2. member' = [member EXCEPT ![m] = st] /\ st.pc = "idle"
    BY <1>14, <2>1 DEF CommitOffset, Resting
  <2>3. /\ member[m].pc = "offset" /\ MoveOffset(m)
        /\ UNCHANGED <<inflight, owner, processed>>
    BY <1>2, <1>14 DEF CommitOffset
  <2> QED
    BY <2>2, <2>3 DEF Commits, QuietMember
<1>15. CASE OffsetFenced(m)
  BY <1>1, <1>15 DEF OffsetFenced, Busy
<1> QED
  BY <1>5, <1>6, <1>7, <1>8, <1>9, <1>10, <1>11, <1>12, <1>13, <1>14, <1>15 DEF MemberWorks

LEMMA BusyPlace ==
  ASSUME Shape, NEW m \in Member, Busy(m)
  PROVE  /\ member[m].part \in Partition
         /\ member[m].offset \in 1..Len(log[member[m].part])
         /\ member[m].offset \in Nat
<1>1. /\ member[m].part \in Partition
      /\ member[m].offset \in 1..Len(log[member[m].part])
  BY DEF Shape, RecordsHeld, RecordHeld, Busy
<1> QED
  BY <1>1

LEMMA BusyOwnsMember ==
  ASSUME Shape, BusyOwns, NEW m \in Member, QuietMember(m)
  PROVE  BusyOwns'
<1>0. /\ member \in [Member -> MemberState]
      /\ owner \in [Partition -> Member \cup {None}]
  BY DEF Shape, TypeOK, ConsumerTypeOK, KafkaTypeOK
<1> SUFFICES ASSUME NEW n \in Member, member'[n].pc \notin {"down", "idle"}
             PROVE  owner'[member'[n].part] = n
  BY DEF BusyOwns, Busy
<1>1. CASE n # m \/ Takes(m)
  <2>1. member'[n] = member[n]
    BY <1>0, <1>1
       DEF QuietMember, Takes, Rests, Works, Skips, Dispatches, ToOffset, Commits
  <2>2. PICK p : p = member[n].part
    OBVIOUS
  <2>3. p \in Partition /\ owner[p] = n
    BY <2>1, <2>2, BusyPlace DEF Busy, BusyOwns
  <2>4. owner'[p] = n
    <3>1. CASE Takes(m)
      BY <1>0, <2>3, <3>1, KafkaAssumption DEF Takes
    <3>2. CASE n # m /\ Release(m)
      BY <2>3, <3>2 DEF Release
    <3>3. CASE UNCHANGED owner
      BY <2>3, <3>3
    <3> QED
      BY <1>1, <3>1, <3>2, <3>3 DEF QuietMember, Rests, Works, Skips, Dispatches, Commits
  <2> QED
    BY <2>1, <2>2, <2>4
<1>2. CASE n = m /\ ~Takes(m)
  <2>1. PICK st : member' = [member EXCEPT ![m] = st]
    BY <1>2 DEF QuietMember, Rests, Works, Skips, Dispatches, ToOffset, Commits
  <2>2. member'[m] = st
    BY <1>0, <2>1
  <2>3. CASE Works(m)
    BY <1>0, <1>2, <2>3 DEF Works
  <2>4. CASE Skips(m) \/ Dispatches(m)
    <3>1. Busy(m) /\ ToOffset(m) /\ UNCHANGED owner
      BY <2>4 DEF Skips, Dispatches, Busy
    <3>2. member'[m].part = member[m].part
      BY <1>0, <3>1 DEF ToOffset
    <3> QED
      BY <1>2, <3>1, <3>2 DEF BusyOwns
  <2>5. ~Rests(m) /\ ~Commits(m)
    BY <1>0, <1>2 DEF Rests, Commits
  <2> QED
    BY <1>2, <2>3, <2>4, <2>5 DEF QuietMember
<1> QED
  BY <1>1, <1>2

(* A record that has been handled stays so: a member at its offset commit  *)
(* still owns the partition, and its commit moves the offset to the record. *)
LEMMA HandledMember ==
  ASSUME Shape, OffsetInv, BusyOwns, NEW m \in Member, QuietMember(m)
  PROVE  HandledKept
<1>0. /\ member \in [Member -> MemberState]
      /\ committed \in [Partition -> Nat]
  BY DEF Shape, TypeOK, ConsumerTypeOK, KafkaTypeOK
<1> SUFFICES ASSUME NEW p \in Partition, NEW i \in Nat, Handled(p, i)
             PROVE  Handled(p, i)'
  BY DEF HandledKept
<1>1. ASSUME NEW n \in Member, member'[n] = member[n], member[n].pc = "offset",
             member[n].part = p, member[n].offset = i
      PROVE  Handled(p, i)'
  BY <1>1 DEF Handled
<1>2. CASE ~Commits(m)
  <2>1. /\ \A n \in Member : member[n].pc = "offset" => member'[n] = member[n]
        /\ UNCHANGED committed
    BY <1>0, <1>2 DEF QuietMember, Takes, Rests, Works, Skips, Dispatches, ToOffset
  <2>2. CASE i <= committed[p]
    BY <2>1, <2>2 DEF Handled
  <2> QED
    BY <1>1, <2>1, <2>2 DEF Handled
<1>3. CASE Commits(m)
  <2>1. member[m].pc = "offset" /\ owner[member[m].part] = m /\ MoveOffset(m)
    BY <1>3 DEF Commits, BusyOwns, Busy
  <2>2. PICK q, k : q = member[m].part /\ k = member[m].offset
    OBVIOUS
  <2>3. /\ q \in Partition /\ k = committed[q] + 1
        /\ committed' = [committed EXCEPT ![q] = k]
    BY <2>1, <2>2, OffsetStepByOne
  <2>4. CASE i <= committed[p]
    <3>1. i <= committed'[p]
      BY <1>0, <2>3, <2>4
    <3> QED
      BY <3>1 DEF Handled
  <2>5. CASE p = q /\ i = k
    <3>1. i <= committed'[p]
      BY <1>0, <2>3, <2>5
    <3> QED
      BY <3>1 DEF Handled
  <2>6. \A n \in Member : n # m => member'[n] = member[n]
    BY <1>0, <1>3 DEF Commits
  <2> QED
    BY <1>1, <2>2, <2>4, <2>5, <2>6 DEF Handled
<1> QED
  BY <1>2, <1>3

(* What is processed has a record that was handled.                        *)
LEMMA ProcessedKept ==
  ASSUME ProcessedHandled, HandledKept, LogGrows,
         log \in [Partition -> Seq(Payload)], log' \in [Partition -> Seq(Payload)],
         NEW e \in processed
  PROVE  \E p \in Partition : \E i \in 1..Len(log'[p]) :
           log'[p][i].event_id = e /\ Handled(p, i)'
<1>1. PICK p \in Partition : \E i \in 1..Len(log[p]) :
        log[p][i].event_id = e /\ Handled(p, i)
  BY DEF ProcessedHandled
<1>2. PICK i \in 1..Len(log[p]) : log[p][i].event_id = e /\ Handled(p, i)
  BY <1>1
<1>3. i \in Nat /\ i \in 1..Len(log'[p]) /\ log'[p][i] = log[p][i]
  BY <1>2 DEF LogGrows
<1>4. Handled(p, i)'
  BY <1>2, <1>3 DEF HandledKept
<1> QED
  BY <1>2, <1>3, <1>4

LEMMA ProcessedMember ==
  ASSUME Shape, ProcessedHandled, HandledKept, UNCHANGED log, NEW m \in Member,
         QuietMember(m)
  PROVE  ProcessedHandled'
<1>0. /\ member \in [Member -> MemberState] /\ log \in [Partition -> Seq(Payload)]
      /\ LogGrows
  BY DEF Shape, TypeOK, ConsumerTypeOK, KafkaTypeOK, LogGrows
<1> SUFFICES ASSUME NEW e \in processed'
             PROVE  \E p \in Partition : \E i \in 1..Len(log'[p]) :
                      log'[p][i].event_id = e /\ Handled(p, i)'
  BY DEF ProcessedHandled
<1>1. CASE e \in processed
  BY <1>0, <1>1, ProcessedKept
<1>2. CASE e \notin processed
  <2>1. Dispatches(m) /\ e = Record(m).event_id
    BY <1>2 DEF QuietMember, Takes, Rests, Works, Skips, Dispatches, Commits
  <2>2. PICK p, i : p = member[m].part /\ i = member[m].offset
    OBVIOUS
  <2>3. p \in Partition /\ i \in 1..Len(log'[p]) /\ log'[p][i].event_id = e
    BY <2>1, <2>2, BusyPlace DEF Dispatches, Busy, Record
  <2>4. member'[m].pc = "offset" /\ member'[m].part = p /\ member'[m].offset = i
    BY <1>0, <2>1, <2>2 DEF Dispatches, ToOffset
  <2>5. Handled(p, i)'
    BY <2>4 DEF Handled
  <2> QED
    BY <2>3, <2>5
<1> QED
  BY <1>1, <1>2

(* A record in hand has not been handled: its offset is not committed, and *)
(* nobody else has the partition.                                          *)
LEMMA InHandNotHandled ==
  ASSUME Shape, OffsetInv, BusyOwns, NEW m \in Member, member[m].pc = "handle",
         NEW p, NEW i, p = member[m].part, i = member[m].offset
  PROVE  ~Handled(p, i)
<1>1. Busy(m) /\ p \in Partition /\ owner[p] = m
  BY BusyPlace DEF Busy, BusyOwns
<1>2. i = committed[p] + 1
  BY <1>1 DEF OffsetInv, OneRecordAhead
<1>3. committed[p] \in Nat
  BY <1>1 DEF Shape, TypeOK, KafkaTypeOK
<1>4. ASSUME NEW n \in Member, member[n].pc = "offset", member[n].part = p PROVE FALSE
  BY <1>1, <1>4 DEF BusyOwns, Busy
<1> QED
  BY <1>2, <1>3, <1>4 DEF Handled

(* A member that skips its record has just handled the copy of the test,   *)
(* or the copy was handled before.                                         *)
LEMMA SkipsTheCopy ==
  ASSUME SmokeInv, SmokeInv', QuietStack, SameCopy, HandledKept, UNCHANGED log,
         NEW m \in Member, Skips(m)
  PROVE  smoke.copy > 0 /\ ReplayHandled'
<1>0. Shape /\ OffsetInv /\ BusyOwns /\ member \in [Member -> MemberState]
  BY DEF SmokeInv, SystemInv, QuietStack, Shape, TypeOK, ConsumerTypeOK
<1>1. PICK p, i : p = member[m].part /\ i = member[m].offset
  OBVIOUS
<1>2. /\ member[m].pc = "handle" /\ p \in Partition /\ i \in 1..Len(log[p])
      /\ log[p][i].event_id \in processed
  BY <1>0, <1>1, BusyPlace DEF Skips, Busy, Record
<1>3. PICK q \in Partition : \E j \in 1..Len(log[q]) :
        log[q][j].event_id = log[p][i].event_id /\ Handled(q, j)
  BY <1>2 DEF QuietStack, ProcessedHandled
<1>4. PICK j \in 1..Len(log[q]) :
        log[q][j].event_id = log[p][i].event_id /\ Handled(q, j)
  BY <1>3
<1>5. ~(p = q /\ i = j)
  BY <1>0, <1>1, <1>2, <1>4, InHandNotHandled
<1>6. IsCopy(p, i) \/ IsCopy(q, j)
  BY <1>2, <1>4, <1>5 DEF QuietStack, WrittenOnce
<1>7. CASE IsCopy(q, j)
  <2>1. smoke.copy > 0 /\ q = PartitionOf[Mine] /\ j = smoke.copy
    BY <1>7 DEF IsCopy
  <2>2. ReplayHandled
    BY <1>4, <2>1, ReplayIsHandled
  <2> QED
    BY <2>1, <2>2, ReplayStays
<1>8. CASE IsCopy(p, i)
  <2>1. smoke.copy > 0 /\ p = PartitionOf[Mine] /\ i = smoke.copy
    BY <1>8 DEF IsCopy
  <2>2. smoke'.copy = i /\ PartitionOf[Mine'] = p
    BY <2>1 DEF SameCopy
  <2>3. member'[m].pc = "offset" /\ member'[m].part = p /\ member'[m].offset = i
    BY <1>0, <1>1 DEF Skips, ToOffset
  <2> QED
    BY <2>1, <2>2, <2>3 DEF ReplayHandled
<1> QED
  BY <1>6, <1>7, <1>8

(* A counter that has not gone up shows a copy that was handled before.    *)
LEMMA CountsStay ==
  ASSUME SmokeInv, SmokeInv', CountsTheCopy, SameCopy, HandledKept, NEW n \in Member,
         metrics[n].duplicates > 0
  PROVE  smoke'.copy > 0 /\ ReplayHandled'
<1>1. smoke.copy > 0 /\ ReplayHandled
  BY DEF CountsTheCopy
<1> QED
  BY <1>1, ReplayStays DEF SameCopy

(* The duplicates counter goes up only with a member's skipped record.     *)
LEMMA CountGrows ==
  ASSUME SmokeTypeOK, Count, NEW n \in Member, metrics'[n].duplicates > 0
  PROVE  \/ metrics[n].duplicates > 0
         \/ member[n].pc = "handle" /\ member'[n].pc = "offset"
<1>1. metrics[n].duplicates \in Nat
  BY DEF SmokeTypeOK
<1>2. CASE member'[n].pc = "down"
  BY <1>2 DEF Count, Zero
<1>3. CASE member'[n].pc = "offset" /\ member[n].pc \notin {"offset", "handle"}
  <2>1. metrics'[n].duplicates = metrics[n].duplicates + 0
    BY <1>3 DEF Count
  <2> QED
    BY <1>1, <2>1
<1>4. CASE ~(member'[n].pc = "offset" /\ member[n].pc # "offset")
  BY <1>2, <1>4 DEF Count
<1> QED
  BY <1>2, <1>3, <1>4

LEMMA CountMember ==
  ASSUME SmokeInv, SmokeInv', QuietStack, SameCopy, HandledKept, UNCHANGED log, Count,
         NEW m \in Member, QuietMember(m)
  PROVE  CountsTheCopy'
<1>0. member \in [Member -> MemberState] /\ SmokeTypeOK
  BY DEF SmokeInv, SystemInv, Shape, TypeOK, ConsumerTypeOK
<1> SUFFICES ASSUME NEW n \in Member, metrics'[n].duplicates > 0
             PROVE  smoke'.copy > 0 /\ ReplayHandled'
  BY DEF CountsTheCopy
<1>1. CASE metrics[n].duplicates > 0
  BY <1>1, CountsStay DEF QuietStack
<1>2. CASE member[n].pc = "handle" /\ member'[n].pc = "offset"
  <2>1. Skips(m)
    BY <1>0, <1>2
       DEF QuietMember, Takes, Rests, Works, Dispatches, Commits, ToOffset
  <2> QED
    BY <2>1, SkipsTheCopy DEF SameCopy
<1> QED
  BY <1>0, <1>1, <1>2, CountGrows

(* A test that was past the counter still sees its replay handled.         *)
LEMMA ShowsStays ==
  ASSUME SmokeInv, SmokeInv', CounterShowsReplay, SameCopy, HandledKept,
         disturbances = 0,
         smoke'.pc \in {"recheck", "metrics", "passed"} =>
           smoke.pc \in {"recheck", "metrics", "passed"}
  PROVE  CounterShowsReplay'
<1> SUFFICES ASSUME smoke'.pc \in {"recheck", "metrics", "passed"}
             PROVE  ReplayHandled'
  BY DEF CounterShowsReplay
<1>1. smoke.pc \in Replied /\ smoke'.pc \in Replied /\ ReplayHandled
  BY DEF CounterShowsReplay, Replied, Found, Seen, Replayed
<1> QED
  BY <1>1, ReplayStays

AcksKept == \A e \in EventId : Acknowledged(e) => Acknowledged(e)'

(* Every record of the topic names a stored event.                         *)
LEMMA RecordNames ==
  ASSUME SystemInv, NEW p \in Partition, NEW i \in 1..Len(log[p])
  PROVE  log[p][i].event_id \in EventId
<1>1. PICK e \in EventId : outbox[e] # None /\ log[p][i] = outbox[e].payload
  BY DEF SystemInv, OwnInv, OwnRecords
<1>2. PICK s : s = outbox[e].shipment
  OBVIOUS
<1>3. EventOf(outbox[e].payload, e, s)
  BY <1>1, <1>2, StoredEvent DEF SystemInv
<1> QED
  BY <1>1, <1>3 DEF EventOf

(* A step that writes nothing to the topic.                                *)
LEMMA NothingNew ==
  ASSUME SystemInv, WrittenAcknowledged, WrittenOnce, AcksKept, SameCopy, UNCHANGED log
  PROVE  WrittenAcknowledged' /\ WrittenOnce'
<1>1. ASSUME NEW p \in Partition, NEW i \in 1..Len(log[p]), NEW e, e = log[p][i].event_id
      PROVE  Acknowledged(e)'
  BY <1>1, RecordNames DEF AcksKept, WrittenAcknowledged
<1>2. WrittenAcknowledged'
  <2> SUFFICES ASSUME NEW p \in Partition, NEW i \in 1..Len(log'[p])
               PROVE  Acknowledged(log[p][i].event_id)'
    BY DEF WrittenAcknowledged
  <2>1. PICK e : e = log[p][i].event_id
    OBVIOUS
  <2>2. Acknowledged(e)' /\ e = log'[p][i].event_id
    BY <1>1, <2>1
  <2> QED
    BY <2>2 DEF Acknowledged
<1>3. ASSUME NEW p, NEW i, IsCopy(p, i) PROVE IsCopy(p, i)'
  BY <1>3 DEF IsCopy, SameCopy
<1>4. WrittenOnce'
  BY <1>3 DEF WrittenOnce
<1> QED
  BY <1>2, <1>4

(* The records of the topic after an event was written.                    *)
LEMMA EventAdded ==
  ASSUME Shape, NEW e \in EventId, outbox[e] # None, WriteEvent(e),
         NEW p \in Partition, NEW i \in 1..Len(log'[p])
  PROVE  \/ i \in 1..Len(log[p]) /\ log'[p][i] = log[p][i]
         \/ /\ p = PartitionOf[outbox[e].shipment] /\ i = Len(log[p]) + 1
            /\ log'[p][i] = outbox[e].payload
<1>1. log \in [Partition -> Seq(Payload)]
  BY DEF Shape, TypeOK, KafkaTypeOK
<1>2. outbox[e] \in OutboxRow
  BY DEF Shape, TypeOK, StoreTypeOK
<1>3. PICK q \in Partition : q = PartitionOf[outbox[e].shipment]
  BY <1>2, KafkaAssumption DEF OutboxRow
<1>4. PICK x \in Payload : x = outbox[e].payload
  BY <1>2 DEF OutboxRow
<1>5. log' = [log EXCEPT ![q] = Append(log[q], x)]
  BY <1>3, <1>4 DEF WriteEvent, Write
<1>6. CASE p # q
  BY <1>1, <1>5, <1>6
<1>7. CASE p = q
  <2>1. log'[p] = Append(log[p], x) /\ log[p] \in Seq(Payload)
    BY <1>1, <1>5, <1>7
  <2>2. Len(log'[p]) = Len(log[p]) + 1 /\ Len(log[p]) \in Nat
    BY <2>1
  <2>3. CASE i \in 1..Len(log[p])
    <3>1. log'[p][i] = log[p][i]
      BY <2>1, <2>3
    <3> QED
      BY <2>3, <3>1
  <2>4. CASE i = Len(log[p]) + 1
    <3>1. log'[p][i] = x
      BY <2>1, <2>4
    <3> QED
      BY <1>3, <1>4, <1>7, <2>4, <3>1
  <2> QED
    BY <2>2, <2>3, <2>4
<1> QED
  BY <1>6, <1>7

(* A stored event is written that the topic does not hold yet, or the new  *)
(* record is the copy of the test and there was none before.               *)
LEMMA SomethingNew ==
  ASSUME SystemInv, WrittenAcknowledged, WrittenOnce, AcksKept,
         NEW e \in EventId, outbox[e] # None, WriteEvent(e), Acknowledged(e)',
         \/ SameCopy /\ ~Acknowledged(e)
         \/ /\ smoke.copy = 0 /\ smoke'.copy > 0
            /\ PartitionOf[outbox[e].shipment] = PartitionOf[Mine']
            /\ smoke'.copy = Len(log[PartitionOf[outbox[e].shipment]]) + 1
  PROVE  WrittenAcknowledged' /\ WrittenOnce'
<1>0. Shape
  BY DEF SystemInv
<1>1. outbox[e].payload.event_id = e
  <2>1. PICK s : s = outbox[e].shipment
    OBVIOUS
  <2> QED
    BY <2>1, StoredEvent DEF SystemInv, EventOf
<1>2. PICK q, n : q = PartitionOf[outbox[e].shipment] /\ n = Len(log[q]) + 1
  OBVIOUS
<1>3. ASSUME NEW p \in Partition, NEW i \in 1..Len(log'[p])
      PROVE  \/ i \in 1..Len(log[p]) /\ log'[p][i] = log[p][i]
             \/ p = q /\ i = n /\ log'[p][i].event_id = e
  BY <1>0, <1>1, <1>2, EventAdded
<1>4. WrittenAcknowledged'
  <2> SUFFICES ASSUME NEW p \in Partition, NEW i \in 1..Len(log'[p]),
                      NEW d, d = log'[p][i].event_id
               PROVE  Acknowledged(d)'
    BY DEF WrittenAcknowledged, Acknowledged
  <2>1. CASE i \in 1..Len(log[p]) /\ log'[p][i] = log[p][i]
    <3>1. d \in EventId /\ Acknowledged(d)
      BY <2>1, RecordNames DEF WrittenAcknowledged
    <3> QED
      BY <3>1 DEF AcksKept
  <2>2. CASE d = e
    BY <2>2
  <2> QED
    BY <1>3, <2>1, <2>2
<1>5. CASE SameCopy /\ ~Acknowledged(e)
  <2>1. ASSUME NEW p \in Partition, NEW i \in 1..Len(log[p]), log[p][i].event_id = e
        PROVE  FALSE
    BY <1>5, <2>1 DEF WrittenAcknowledged
  <2>2. ASSUME NEW p, NEW i, IsCopy(p, i) PROVE IsCopy(p, i)'
    BY <1>5, <2>2 DEF IsCopy, SameCopy
  <2>3. ASSUME NEW p \in Partition, NEW i \in 1..Len(log'[p]),
               NEW r \in Partition, NEW j \in 1..Len(log'[r]),
               log'[p][i].event_id = log'[r][j].event_id
        PROVE  (p = r /\ i = j) \/ IsCopy(p, i)' \/ IsCopy(r, j)'
    <3>1. CASE /\ i \in 1..Len(log[p]) /\ log'[p][i] = log[p][i]
               /\ j \in 1..Len(log[r]) /\ log'[r][j] = log[r][j]
      BY <2>2, <2>3, <3>1 DEF WrittenOnce
    <3> QED
      BY <1>3, <2>1, <2>3, <3>1
  <2>4. WrittenOnce'
    BY <2>3 DEF WrittenOnce
  <2> QED
    BY <1>4, <2>4
<1>6. CASE /\ smoke.copy = 0 /\ smoke'.copy > 0
           /\ q = PartitionOf[Mine'] /\ smoke'.copy = n
  <2>1. IsCopy(q, n)'
    BY <1>6 DEF IsCopy
  <2>2. ASSUME NEW p, NEW i PROVE ~IsCopy(p, i)
    BY <1>6 DEF IsCopy
  <2>3. ASSUME NEW p \in Partition, NEW i \in 1..Len(log'[p]),
               NEW r \in Partition, NEW j \in 1..Len(log'[r]),
               log'[p][i].event_id = log'[r][j].event_id
        PROVE  (p = r /\ i = j) \/ IsCopy(p, i)' \/ IsCopy(r, j)'
    <3>1. CASE /\ i \in 1..Len(log[p]) /\ log'[p][i] = log[p][i]
               /\ j \in 1..Len(log[r]) /\ log'[r][j] = log[r][j]
      BY <2>2, <2>3, <3>1 DEF WrittenOnce
    <3> QED
      BY <1>3, <2>1, <3>1
  <2>4. WrittenOnce'
    BY <2>3 DEF WrittenOnce
  <2> QED
    BY <1>4, <2>4
<1> QED
  BY <1>2, <1>5, <1>6

(* What a relay does in a quiet stack: it takes back no acknowledgement,   *)
(* and writes an event only when it owes it.                               *)
LEMMA RelayQuiet ==
  ASSUME SystemInv, NEW r \in RelayProcess, RelayStep(r), Undisturbed
  PROVE  /\ UNCHANGED <<inflight, committed, owner, processed>>
         /\ AcksKept
         /\ \/ UNCHANGED log
            \/ \E e \in EventId : /\ outbox[e] # None /\ WriteEvent(e)
                                  /\ ~Acknowledged(e) /\ Acknowledged(e)'
<1>0. Shape /\ LocksHeld /\ ~Disturb
  BY DEF SystemInv, Disturb, Undisturbed, Shape, TypeOK
<1>1. UNCHANGED processed
  BY ConsumerTablesStay
<1>2. CASE Claim(r) \/ StartRelay(r)
  <2>1. relay[r].acked = 0
    BY <1>0, <1>2 DEF Claim, StartRelay, Shape, ClaimsHeld, BatchHeld
  <2>2. Published(r) \subseteq Published(r)'
    BY <2>1 DEF Published
  <2>3. UNCHANGED <<log, inflight, committed, owner>>
    BY <1>2 DEF Claim, StartRelay, kafkaVars
  <2> QED
    BY <1>0, <1>1, <2>2, <2>3, AcknowledgedRelay DEF AcksKept
<1>3. CASE Commit(r)
  BY <1>0, <1>1, <1>3, AcknowledgedRelay DEF Commit, kafkaVars, AcksKept
<1>4. CASE Publish(r)
  <2>1. PICK d : d = Current(r)
    OBVIOUS
  <2>2. /\ d \in EventId /\ outbox[d] # None /\ WriteEvent(d)
        /\ UNCHANGED <<inflight, committed, owner>>
    BY <1>0, <1>4, <2>1, CurrentStored DEF Publish, groupVars
  <2>3. Published(r) \subseteq Published(r)' /\ d \in Published(r)'
    BY <1>0, <1>4, <2>1, PublishAcks
  <2>4. ~Acknowledged(d) /\ Acknowledged(d)'
    BY <1>0, <1>4, <2>1, <2>3, CurrentUnacknowledged DEF Publish, Acknowledged
  <2> QED
    BY <1>0, <1>1, <2>2, <2>3, <2>4, AcknowledgedRelay DEF AcksKept
<1>5. CASE PublishFails(r)
  <2>1. Decodes(outbox[Current(r)].payload)
    BY <1>0, <1>5, CurrentStored DEF PublishFails, SystemInv, StoreInv, NoPoisonRow
  <2> QED
    BY <1>0, <1>5, <2>1 DEF PublishFails
<1> QED
  BY <1>0, <1>2, <1>3, <1>4, <1>5
     DEF RelayStep, RelayWorks, RelayDisturbed, ClaimFails, SessionLost,
         CommitFails, StopRelay

LEMMA HandledFrame == ASSUME UNCHANGED <<committed, member>> PROVE HandledKept
  BY DEF HandledKept, Handled

(* A step the consumers have no part in.                                   *)
LEMMA QuietFrame ==
  ASSUME SmokeInv, SmokeInv', QuietStack, SameCopy, LogGrows,
         UNCHANGED <<inflight, owner, committed, member, processed>>,
         WrittenAcknowledged', WrittenOnce', CounterShowsReplay',
         \A n \in Member : metrics'[n].duplicates > 0 => metrics[n].duplicates > 0
  PROVE  QuietStack'
<1>0. /\ log \in [Partition -> Seq(Payload)] /\ log' \in [Partition -> Seq(Payload)]
      /\ HandledKept
  BY HandledFrame DEF SmokeInv, SystemInv, Shape, TypeOK, KafkaTypeOK
<1>1. NothingInFlight' /\ BusyOwns'
  BY DEF QuietStack, NothingInFlight, BusyOwns, Busy
<1>2. ProcessedHandled'
  <2> SUFFICES ASSUME NEW e \in processed
               PROVE  \E p \in Partition : \E i \in 1..Len(log'[p]) :
                        log'[p][i].event_id = e /\ Handled(p, i)'
    BY DEF ProcessedHandled
  <2> QED
    BY <1>0, ProcessedKept DEF QuietStack
<1>3. CountsTheCopy'
  BY <1>0, CountsStay DEF CountsTheCopy, QuietStack
<1> QED
  BY <1>1, <1>2, <1>3 DEF QuietStack

(* A step of the services keeps a quiet stack quiet.                       *)
LEMMA QuietSystem ==
  ASSUME ForeignRecord = {}, SmokeInv, SmokeInv', disturbances = 0, QuietStack,
         SystemStep, Undisturbed
  PROVE  QuietStack'
<1>0. /\ SystemInv /\ Shape /\ StoreInv /\ OffsetInv /\ SmokeTypeOK
      /\ NothingInFlight /\ BusyOwns /\ WrittenAcknowledged /\ WrittenOnce
      /\ ProcessedHandled /\ CounterShowsReplay
  BY DEF SmokeInv, SystemInv, QuietStack
<1>1. SameCopy /\ Count /\ UNCHANGED smoke
  BY CopySame DEF SystemStep
<1>2. ASSUME HandledKept PROVE CounterShowsReplay'
  BY <1>0, <1>1, <1>2, ShowsStays
<1>3. ASSUME UNCHANGED member, NEW n \in Member, metrics'[n].duplicates > 0
      PROVE  metrics[n].duplicates > 0
  BY <1>0, <1>1, <1>3, CountGrows
<1>4. ASSUME UNCHANGED log PROVE LogGrows
  BY <1>0, <1>4 DEF LogGrows, Shape, TypeOK, KafkaTypeOK
<1>5. ASSUME NEW c \in Call, CallStep(c), UNCHANGED <<kafkaVars, relay, member>>
      PROVE  QuietStack'
  <2>1. UNCHANGED <<log, inflight, owner, committed, member, relay, processed>>
    BY <1>5, ConsumerTablesStay DEF kafkaVars
  <2>2. AcksKept
    BY <1>0, <1>5, <2>1, CallAddsRows, AcknowledgedFrame DEF AcksKept
  <2>3. WrittenAcknowledged' /\ WrittenOnce'
    BY <1>0, <1>1, <2>1, <2>2, NothingNew
  <2> QED
    BY <1>1, <1>2, <1>3, <1>4, <2>1, <2>3, HandledFrame, QuietFrame
<1>6. CASE RelayNext
  <2>1. PICK r \in RelayProcess : RelayStep(r) /\ UNCHANGED <<member, call>>
    BY <1>6 DEF RelayNext
  <2>2. /\ UNCHANGED <<inflight, committed, owner, processed, member>>
        /\ AcksKept /\ LogGrows
    BY <1>0, <2>1, RelayQuiet, RelayAppends
  <2>3. UNCHANGED log => WrittenAcknowledged' /\ WrittenOnce'
    BY <1>0, <1>1, <2>2, NothingNew
  <2>4. ASSUME NEW e \in EventId, outbox[e] # None, WriteEvent(e),
               ~Acknowledged(e), Acknowledged(e)'
        PROVE  WrittenAcknowledged' /\ WrittenOnce'
    BY <1>0, <1>1, <2>2, <2>4, SomethingNew
  <2>5. WrittenAcknowledged' /\ WrittenOnce'
    BY <1>0, <2>1, <2>3, <2>4, RelayQuiet
  <2> QED
    BY <1>1, <1>2, <1>3, <2>2, <2>5, HandledFrame, QuietFrame
<1>7. CASE ConsumerNext
  <2>1. PICK m \in Member : MemberStep(m) /\ UNCHANGED <<relay, call>>
    BY <1>7 DEF ConsumerNext
  <2>2. UNCHANGED <<log, outbox, inflight>> /\ QuietMember(m)
    BY <1>0, <2>1, MemberKeepsLog, MemberKeepsRows, MemberQuiet
  <2>3. BusyOwns' /\ HandledKept
    BY <1>0, <2>2, BusyOwnsMember, HandledMember
  <2>4. ProcessedHandled'
    BY <1>0, <2>2, <2>3, ProcessedMember
  <2>5. CountsTheCopy'
    BY <1>1, <2>2, <2>3, CountMember
  <2>6. AcksKept
    BY <2>1, <2>2, AcknowledgedFrame DEF AcksKept
  <2>7. WrittenAcknowledged' /\ WrittenOnce'
    BY <1>0, <1>1, <2>2, <2>6, NothingNew
  <2>8. NothingInFlight'
    BY <1>0, <2>2 DEF NothingInFlight
  <2> QED
    BY <1>2, <2>3, <2>4, <2>5, <2>7, <2>8 DEF QuietStack
<1>8. ~OutsideNext
  <2>1. ASSUME NEW e \in EventId, LateWrite(e) PROVE FALSE
    BY <1>0, <2>1 DEF LateWrite, Land, NothingInFlight
  <2>2. ASSUME NEW e \in EventId, Replay(e) PROVE FALSE
    BY <2>2 DEF Replay, Disturb, Undisturbed
  <2> QED
    BY <2>1, <2>2 DEF OutsideNext
<1> QED
  <2>1. ASSUME NEW c \in Call, IF c = SmokeCall THEN SmokeCallStep ELSE CallStep(c)
        PROVE  CallStep(c)
    BY <2>1, SmokeAssumption DEF SmokeCallStep, CallStep
  <2> QED
    BY <1>5, <1>6, <1>7, <1>8, <2>1 DEF SystemStep

(* The event the test replays was acknowledged: its dispatch is of a       *)
(* record of the topic.                                                    *)
LEMMA ReplayedAcknowledged ==
  ASSUME SmokeInv, QuietStack, smoke.pc = "replay", NEW e, e = MyEvent
  PROVE  Acknowledged(e)
<1>0. SystemInv /\ call[SmokeCall].code = "OK"
  BY DEF SmokeInv, SmokeKnows, Replied, Found, Seen
<1>1. PICK s, d : s = Mine /\ d = smoke.dispatch
  OBVIOUS
<1>2. d \in DOMAIN dispatches /\ dispatches[d].shipment = s
  BY <1>1 DEF SmokeInv, SmokeKnows, Seen
<1>3. OutboxRowOf(s) = {dispatches[d].event}
  BY <1>0, <1>2 DEF SystemInv, OwnInv, DispatchMatchesShipment
<1>4. OutboxRowOf(s) = {e}
  BY <1>0, <1>1, OkMine
<1>5. e \in processed
  BY <1>0, <1>2, <1>3, <1>4 DEF SystemInv, DispatchInv, DispatchedOnce
<1>6. PICK p \in Partition : \E i \in 1..Len(log[p]) : log[p][i].event_id = e
  BY <1>5 DEF QuietStack, ProcessedHandled
<1> QED
  BY <1>6 DEF QuietStack, WrittenAcknowledged

(* The replay of the test adds the one copy.                               *)
LEMMA QuietReplay ==
  ASSUME SmokeInv, SmokeInv', QuietStack, replay,
         UNCHANGED <<disturbances, storeVars, inflight, groupVars, relay, member,
                     call, metrics>>
  PROVE  QuietStack'
<1>0. /\ SystemInv /\ Shape /\ SmokeKnows /\ smoke \in SmokeState
      /\ WrittenAcknowledged /\ WrittenOnce
  BY DEF SmokeInv, SystemInv, SmokeTypeOK, QuietStack
<1>1. PICK s, e : s = Mine /\ e = MyEvent
  OBVIOUS
<1>2. /\ e \in EventId /\ outbox[e] # None /\ outbox[e].shipment = s
      /\ PartitionOf[s] \in Partition /\ WriteEvent(e) /\ LogGrows
      /\ log' \in [Partition -> Seq(Payload)]
  BY <1>0, <1>1, ReplayWrites
<1>3. UNCHANGED <<outbox, processed, committed, owner>>
  BY DEF storeVars, groupVars
<1>4. AcksKept
  BY <1>3, AcknowledgedFrame DEF AcksKept
<1>5. Acknowledged(e)'
  BY <1>1, <1>2, <1>4, ReplayedAcknowledged DEF replay, AcksKept
<1>6. PICK n \in Nat : n = Len(log[PartitionOf[s]]) + 1
  BY <1>0, <1>2 DEF Shape, TypeOK, KafkaTypeOK
<1>7. smoke.pc = "replay" /\ smoke' = [smoke EXCEPT !.pc = "await", !.copy = n]
  BY <1>1, <1>6 DEF replay
<1>8. smoke'.pc = "await" /\ smoke'.copy = n /\ smoke.copy = 0
  BY <1>0, <1>7 DEF SmokeState, SmokeKnows, Replayed
<1>9. n > 0
  <2>1. Len(log[PartitionOf[s]]) \in Nat
    BY <1>0, <1>2 DEF Shape, TypeOK, KafkaTypeOK
  <2> QED
    BY <1>6, <2>1
<1>10. PartitionOf[Mine'] = PartitionOf[s]
  BY <1>1 DEF Mine
<1>11. WrittenAcknowledged' /\ WrittenOnce'
  BY <1>0, <1>2, <1>4, <1>5, <1>6, <1>8, <1>9, <1>10, SomethingNew
<1>12. NothingInFlight' /\ BusyOwns'
  BY <1>3 DEF QuietStack, NothingInFlight, BusyOwns, Busy
<1>13. ProcessedHandled'
  <2>1. log \in [Partition -> Seq(Payload)] /\ HandledKept
    BY <1>0, <1>3, HandledFrame DEF Shape, TypeOK, KafkaTypeOK
  <2> SUFFICES ASSUME NEW d \in processed
               PROVE  \E p \in Partition : \E i \in 1..Len(log'[p]) :
                        log'[p][i].event_id = d /\ Handled(p, i)'
    BY <1>3 DEF ProcessedHandled
  <2> QED
    BY <1>2, <2>1, ProcessedKept DEF QuietStack
<1>14. CountsTheCopy'
  BY <1>8 DEF QuietStack, CountsTheCopy
<1>15. CounterShowsReplay'
  BY <1>8 DEF CounterShowsReplay
<1> QED
  BY <1>11, <1>12, <1>13, <1>14, <1>15 DEF QuietStack

(* A check of the test changes no service; the one that goes past the      *)
(* counter has seen it above where it was.                                 *)
LEMMA QuietChecks ==
  ASSUME SmokeInv, SmokeInv', disturbances = 0, QuietStack,
         \/ Checks /\ UNCHANGED <<vars, metrics>>
         \/ UNCHANGED smokeVars
  PROVE  QuietStack'
<1>0. /\ SystemInv /\ Shape /\ smoke \in SmokeState
      /\ WrittenAcknowledged /\ WrittenOnce /\ CounterShowsReplay
  BY DEF SmokeInv, SystemInv, SmokeTypeOK, QuietStack
<1>1. /\ UNCHANGED <<log, outbox, relay, inflight, owner, committed, member, processed>>
      /\ UNCHANGED metrics
  BY DEF smokeVars, vars, kafkaVars, storeVars
<1>2. SameCopy /\ HandledKept
  BY <1>1, CopySame, HandledFrame
<1>3. WrittenAcknowledged' /\ WrittenOnce'
  BY <1>0, <1>1, <1>2, NothingNew, AcknowledgedFrame DEF AcksKept
<1>4. LogGrows
  BY <1>0, <1>1 DEF LogGrows, Shape, TypeOK, KafkaTypeOK
<1>5. CounterShowsReplay'
  <2>1. ASSUME NEW m \in Member, awaitDuplicate(m) PROVE CounterShowsReplay'
    <3>1. metrics[m].duplicates > 0
      BY <1>0, <2>1 DEF awaitDuplicate, Counted, SmokeState, SmokeInv, SmokeTypeOK
    <3>2. ReplayHandled'
      BY <1>2, <3>1, CountsStay DEF QuietStack
    <3> QED
      BY <3>2 DEF CounterShowsReplay
  <2>2. CASE ~\E m \in Member : awaitDuplicate(m)
    <3>1. smoke'.pc \in {"recheck", "metrics", "passed"} =>
            smoke.pc \in {"recheck", "metrics", "passed"}
      <4>1. CASE UNCHANGED smokeVars
        BY <4>1 DEF smokeVars
      <4>2. CASE Checks
        BY <1>0, <2>2, <4>2
           DEF Checks, getQuote, createShipment, findEventInKafka, waitForDispatch,
               recheck, readCounter, checkMetrics, Expect, Pass, Wrong, SmokeState
      <4> QED
        BY <4>1, <4>2
    <3> QED
      BY <1>0, <1>2, <3>1, ShowsStays
  <2> QED
    BY <2>1, <2>2
<1> QED
  BY <1>1, <1>2, <1>3, <1>4, <1>5, QuietFrame

LEMMA QuietNext ==
  ASSUME ForeignRecord = {}, SmokeInv, SmokeInv', QuietInv, [SmokeNext]_smokeVars
  PROVE  QuietInv'
<1> SUFFICES ASSUME disturbances' = 0 PROVE QuietStack'
  BY DEF QuietInv
<1>0. disturbances \in Nat
  BY DEF SmokeInv, SystemInv, Shape, TypeOK
<1>1. ~Disturb
  BY <1>0 DEF Disturb
<1>2. CASE SystemStep
  <2>1. Disturb \/ Undisturbed
    <3>1. ASSUME NEW c \in Call, CallStep(c) PROVE Disturb \/ Undisturbed
      BY <3>1
         DEF CallStep, CallStored, CallPriced, RefuseWeight, RefuseQuote, Price,
             StoreShipment, StoreRefused, StoreFails
    <3>2. ASSUME NEW r \in RelayProcess, RelayStep(r) PROVE Disturb \/ Undisturbed
      BY <3>2
         DEF RelayStep, RelayWorks, RelayDisturbed, Claim, ClaimFails, Publish,
             PublishFails, SessionLost, Commit, CommitFails, StopRelay,
             StartRelay
    <3>3. ASSUME NEW m \in Member, MemberWorks(m) PROVE Disturb \/ Undisturbed
      BY <3>3
         DEF MemberWorks, StartMember, Poll, Reject, InsertProcessed, InsertDispatch,
             Conflict, Orphan, CommitTx, CommitOffset, OffsetFenced
    <3>4. ASSUME NEW m \in Member, MemberDisturbed(m) PROVE Disturb \/ Undisturbed
      BY <3>4
         DEF MemberDisturbed, Revoke, Remove, StorageFails, OffsetFails, StopMember
    <3>5. ASSUME NEW m \in Member, NEW p \in Partition, Assign(m, p)
          PROVE  Disturb \/ Undisturbed
      BY <3>5 DEF Assign
    <3>6. CASE OutsideNext
      BY <3>6 DEF OutsideNext, LateWrite, Replay, ForeignWrite
    <3> QED
      BY <1>2, <3>1, <3>2, <3>3, <3>4, <3>5, <3>6, SystemIsNext
         DEF Next, APINext, RelayNext, ConsumerNext, MemberStep
  <2>2. Undisturbed /\ disturbances = 0
    BY <1>1, <2>1 DEF Undisturbed
  <2> QED
    BY <1>2, <2>2, QuietSystem DEF QuietInv
<1>3. CASE (Checks /\ UNCHANGED <<vars, metrics>>) \/ UNCHANGED smokeVars
  <2>1. disturbances = 0
    BY <1>3 DEF smokeVars, vars
  <2> QED
    BY <1>3, <2>1, QuietChecks DEF QuietInv
<1>4. CASE SmokeTest
  BY <1>3, <1>4, QuietReplay DEF SmokeTest, QuietInv
<1>5. ~StepFails
  BY <1>1 DEF StepFails
<1> QED
  BY <1>2, <1>3, <1>4, <1>5 DEF SmokeNext

(* In a stack nothing disturbs, replayIsDeduplicated means what it says: a *)
(* test that gets past the counter has seen its own replay handled, and    *)
(* not another duplicate, for any number of relays, consumers and          *)
(* partitions.                                                             *)
THEOREM CounterShowsReplayAlways ==
  ASSUME ForeignRecord = {}
  PROVE  SmokeSpec => []CounterShowsReplay
<1>1. SmokeInit => QuietInv
  <2> SUFFICES ASSUME SmokeInit PROVE QuietStack
    BY DEF QuietInv
  <2>1. /\ Init /\ smoke.pc = "quote"
        /\ \A m \in Member : metrics[m].duplicates = 0
    BY DEF SmokeInit, Zero
  <2>2. /\ \A p \in Partition : Len(log[p]) = 0
        /\ \A e \in EventId : inflight[e] = 0
        /\ processed = {}
        /\ \A m \in Member : ~Busy(m)
    BY <2>1 DEF Init, KafkaInit, StoreInit, ConsumerInit, Resting, Busy
  <2> QED
    BY <2>1, <2>2
       DEF QuietStack, NothingInFlight, BusyOwns, WrittenAcknowledged, WrittenOnce,
           ProcessedHandled, CountsTheCopy, CounterShowsReplay
<1>2. SmokeInv /\ SmokeInv' /\ QuietInv /\ [SmokeNext]_smokeVars => QuietInv'
  BY QuietNext
<1>3. QuietInv => CounterShowsReplay
  BY DEF QuietInv, QuietStack, CounterShowsReplay
<1> QED
  BY <1>1, <1>2, <1>3, SmokeInvariant, PTL DEF SmokeSpec
=============================================================================

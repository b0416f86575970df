-------------------------- MODULE RefinementProofs --------------------------
(***************************************************************************)
(* Without records of other producers: a dispatch is of its shipment's own *)
(* event, no member meets a conflict, and ParcelLab implements Lifecycle.  *)
(***************************************************************************)
EXTENDS Refinement, RelayProofs, SequenceTheorems

(* x is the payload of e, the one event of the stored shipment s.          *)
EventOf(x, e, s) ==
  /\ s \in ShipmentId /\ shipments[s] # None /\ OutboxRowOf(s) = {e}
  /\ x.event_id = e /\ x.shipment_id = s
  /\ x.amount = shipments[s].amount /\ x.currency = shipments[s].currency

(* Every outbox row is the event of its shipment.                          *)
LEMMA StoredEvent ==
  ASSUME Shape, StoreInv, NEW e \in EventId, outbox[e] # None,
         NEW s, s = outbox[e].shipment
  PROVE  EventOf(outbox[e].payload, e, s)
<1>1. s \in ShipmentId /\ shipments[s] # None
  BY DEF Shape, TypeOK, StoreTypeOK, OutboxRow, StoreInv, StoredTogether
<1>2. PICK d \in OutboxRowOf(s) :
        OutboxRowOf(s) = {d} /\ outbox[d].payload = NewShipmentCreated(s, shipments[s], d)
  BY <1>1 DEF StoreInv, StoredTogether
<1>3. e = d
  BY <1>2 DEF OutboxRowOf
<1>4. outbox[e].payload = NewShipmentCreated(s, shipments[s], e)
  BY <1>2, <1>3
<1> QED
  BY <1>1, <1>2, <1>3, <1>4 DEF EventOf, NewShipmentCreated

(* Stored events stay, with their payloads, and nothing is written.        *)
LEMMA OwnRecordsStay ==
  ASSUME OwnRecords, UNCHANGED log,
         \A e \in EventId : outbox[e] # None =>
           outbox'[e] # None /\ outbox'[e].payload = outbox[e].payload
  PROVE  OwnRecords'
<1>1. ASSUME NEW p \in Partition, NEW i \in 1..Len(log[p])
      PROVE  \E e \in EventId : outbox'[e] # None /\ log[p][i] = outbox'[e].payload
  <2>1. PICK e \in EventId : outbox[e] # None /\ log[p][i] = outbox[e].payload
    BY DEF OwnRecords
  <2> QED
    BY <2>1
<1> QED
  BY <1>1 DEF OwnRecords

(* The payload of a stored event is written.                               *)
LEMMA OwnRecordsWritten ==
  ASSUME Shape, OwnRecords, NEW e \in EventId, outbox[e] # None, WriteEvent(e),
         UNCHANGED outbox
  PROVE  OwnRecords'
<1> DEFINE q == PartitionOf[outbox[e].shipment]
           x == outbox[e].payload
<1>1. x \in Payload /\ q \in Partition /\ log \in [Partition -> Seq(Payload)]
  BY KafkaAssumption DEF Shape, TypeOK, StoreTypeOK, KafkaTypeOK, OutboxRow
<1>2. log' = [log EXCEPT ![q] = Append(log[q], x)]
  BY DEF WriteEvent, Write
<1>3. outbox[e].payload = x
  OBVIOUS
<1> HIDE DEF q, x
<1>4. ASSUME NEW p \in Partition, NEW i \in 1..Len(log'[p])
      PROVE  \E d \in EventId : outbox[d] # None /\ log'[p][i] = outbox[d].payload
  <2>1. CASE i \in 1..Len(log[p])
    <3>1. log'[p][i] = log[p][i]
      BY <1>1, <1>2, <2>1
    <3> QED
      BY <2>1, <3>1 DEF OwnRecords
  <2>2. CASE i \notin 1..Len(log[p])
    <3>1. log'[p][i] = x
      BY <1>1, <1>2, <1>4, <2>2
    <3> QED
      BY <1>3, <3>1
  <2> QED
    BY <2>1, <2>2
<1> QED
  BY <1>4 DEF OwnRecords

(* A consumer changes the tables only by RecordDispatch's COMMIT.          *)
LEMMA MemberDispatches ==
  ASSUME NEW m \in Member, MemberStep(m)
  PROVE  \/ UNCHANGED storeVars
         \/ member[m].pc = "commit" /\ RecordDispatchTx(Record(m))
BY DEF MemberStep, MemberWorks, MemberDisturbed, StartMember, Assign, Revoke, Remove,
       Poll, Reject, InsertProcessed, InsertDispatch, Conflict, Orphan, CommitTx,
       StorageFails, CommitOffset, OffsetFenced, OffsetFails, StopMember,
       CommittedUnseen

(* A call keeps the rows it does not add.                                  *)
LEMMA CallKeepsRows ==
  ASSUME Shape, StoreInv, NEW c \in Call, CallStep(c)
  PROVE  \/ UNCHANGED storeVars
         \/ /\ \E id, ev, row : /\ Stores(id, ev, row)
                                /\ call[c].pc = "store" /\ row = call[c].row
            /\ UNCHANGED <<processed, dispatches>>
<1>1. \/ UNCHANGED storeVars
      \/ call[c].pc = "store" /\ Accepted(c) /\ StoreCall(c)
  BY DEF CallStep, CallStored, CallPriced, RefuseWeight, RefuseQuote, Price, StoreShipment,
         StoreRefused, StoreFails
<1>2. CASE call[c].pc = "store" /\ Accepted(c) /\ StoreCall(c)
  <2>1. PICK id, ev, row :
          id = call[c].shipment /\ ev = call[c].event /\ row = call[c].row
    OBVIOUS
  <2>2. Stores(id, ev, row)
    BY <1>2, <2>1, StoredRows
  <2>3. UNCHANGED <<processed, dispatches>>
    BY <1>2 DEF StoreCall, CreateShipmentTx
  <2> QED
    BY <1>2, <2>1, <2>2, <2>3
<1> QED
  BY <1>1, <1>2

(* Every step keeps OwnRecords. *)
LEMMA OwnRecordsNext ==
  ASSUME ForeignRecord = {}, Shape, StoreInv, OwnRecords, [Next]_vars
  PROVE  OwnRecords'
<1>1. ASSUME UNCHANGED <<log, outbox>> PROVE OwnRecords'
  BY <1>1, OwnRecordsStay
<1>2. CASE APINext
  <2>1. PICK c \in Call : CallStep(c) /\ UNCHANGED log
    BY <1>2 DEF APINext, kafkaVars
  <2>2. ASSUME NEW id, NEW ev, NEW row, Stores(id, ev, row) PROVE OwnRecords'
    <3>1. /\ outbox[ev] = None /\ \A e \in EventId : e # ev => outbox'[e] = outbox[e]
      BY <2>2 DEF Stores
    <3> QED
      BY <2>1, <3>1, OwnRecordsStay
  <2> QED
    BY <1>1, <2>1, <2>2, CallKeepsRows DEF storeVars
<1>3. CASE RelayNext
  <2>1. PICK r \in RelayProcess : RelayStep(r)
    BY <1>3 DEF RelayNext
  <2>2. CASE Publish(r)
    <3>1. PICK e : e = Current(r)
      OBVIOUS
    <3>2. e \in EventId /\ outbox[e] # None /\ WriteEvent(e) /\ UNCHANGED outbox
      BY <2>2, <3>1, CurrentStored DEF Publish, storeVars
    <3> QED
      BY <3>2, OwnRecordsWritten
  <2>3. CASE ~Publish(r)
    <3>1. UNCHANGED log
      BY <2>1, <2>3
         DEF RelayStep, RelayWorks, RelayDisturbed, Claim, ClaimFails, PublishFails,
             SessionLost, Commit, CommitFails, StopRelay, StartRelay, kafkaVars
    <3>2. RowsKept
      BY <2>1, RelayKeepsRows
    <3> QED
      BY <3>1, <3>2, OwnRecordsStay DEF RowsKept
  <2> QED
    BY <2>2, <2>3
<1>4. CASE ConsumerNext
  <2>1. PICK m \in Member : MemberStep(m)
    BY <1>4 DEF ConsumerNext
  <2>2. UNCHANGED log
    BY <2>1, MemberKeepsLog
  <2> QED
    BY <1>1, <2>1, <2>2, MemberKeepsRows
<1>5. CASE OutsideNext
  <2>1. UNCHANGED outbox
    BY <1>5, OutsideKeepsTables DEF storeVars
  <2>2. ASSUME NEW e \in EventId, LateWrite(e) \/ Replay(e) PROVE OwnRecords'
    <3>1. outbox[e] # None /\ (WriteEvent(e) \/ UNCHANGED log)
      BY <2>2 DEF LateWrite, Land, Replay, Shape, InflightStored
    <3> QED
      BY <1>1, <2>1, <3>1, OwnRecordsWritten
  <2> QED
    BY <1>5, <2>2 DEF OutsideNext
<1>6. CASE UNCHANGED vars
  BY <1>1, <1>6 DEF vars, storeVars, kafkaVars
<1> QED
  BY <1>2, <1>3, <1>4, <1>5, <1>6 DEF Next
-----------------------------------------------------------------------------
(* The record in a member's hand is the event of a stored shipment.        *)
LEMMA OwnRecordInHand ==
  ASSUME Shape, StoreInv, OwnRecords, NEW m \in Member, Busy(m)
  PROVE  \E e \in EventId, s \in ShipmentId :
           /\ outbox[e] # None /\ s = outbox[e].shipment
           /\ Record(m) = outbox[e].payload /\ EventOf(Record(m), e, s)
<1>1. /\ member[m].part \in Partition
      /\ member[m].offset \in 1..Len(log[member[m].part])
  BY DEF Shape, RecordsHeld, RecordHeld, Busy
<1>2. PICK e \in EventId : outbox[e] # None /\ Record(m) = outbox[e].payload
  BY <1>1 DEF OwnRecords, Record
<1>3. PICK s : s = outbox[e].shipment
  OBVIOUS
<1>4. EventOf(outbox[e].payload, e, s)
  BY <1>2, <1>3, StoredEvent
<1>5. s \in ShipmentId
  BY <1>4 DEF EventOf
<1> QED
  BY <1>2, <1>3, <1>4, <1>5

(* d is a dispatch of a shipment's own event at the stored price.          *)
Matches(d) ==
  /\ shipments[d.shipment] # None
  /\ OutboxRowOf(d.shipment) = {d.event}
  /\ d.amount = shipments[d.shipment].amount
  /\ d.currency = shipments[d.shipment].currency

(* Calls, relays and the operator take nothing back from a dispatch.       *)
LEMMA MatchesStays ==
  ASSUME Shape, NEW d, d.shipment \in ShipmentId, Matches(d),
         \/ UNCHANGED shipments /\ RowsKept
         \/ \E id, ev, row : Stores(id, ev, row)
  PROVE  Matches(d)'
<1>1. CASE UNCHANGED shipments /\ RowsKept
  <2>1. OutboxRowOf(d.shipment)' = OutboxRowOf(d.shipment)
    BY <1>1, RowsOfKept
  <2> QED
    BY <1>1, <2>1 DEF Matches
<1>2. ASSUME NEW id, NEW ev, NEW row, Stores(id, ev, row) PROVE Matches(d)'
  <2>1. d.shipment # id
    BY <1>2 DEF Matches, Stores
  <2>2. shipments'[d.shipment] = shipments[d.shipment]
    BY <1>2, <2>1 DEF Stores, Shape, TypeOK, StoreTypeOK
  <2>3. OutboxRowOf(d.shipment)' = OutboxRowOf(d.shipment)
    BY <1>2, <2>1 DEF Stores
  <2> QED
    BY <2>2, <2>3 DEF Matches
<1> QED
  BY <1>1, <1>2

(* Such a step keeps DispatchMatchesShipment.                              *)
LEMMA MatchesFrame ==
  ASSUME Shape, DispatchMatchesShipment, UNCHANGED dispatches,
         \/ UNCHANGED shipments /\ RowsKept
         \/ \E id, ev, row : Stores(id, ev, row)
  PROVE  DispatchMatchesShipment'
<1>1. ASSUME NEW i \in DOMAIN dispatches PROVE Matches(dispatches[i])'
  <2>1. PICK d : d = dispatches[i]
    OBVIOUS
  <2>2. Matches(d)
    BY <2>1 DEF DispatchMatchesShipment, Matches
  <2>3. d.shipment \in ShipmentId
    <3>1. dispatches \in Seq(DispatchRow)
      BY DEF Shape, TypeOK, StoreTypeOK
    <3>2. dispatches[i] \in DispatchRow
      BY <3>1
    <3> QED
      BY <2>1, <3>2 DEF DispatchRow
  <2>4. Matches(d)'
    BY <2>2, <2>3, MatchesStays
  <2> QED
    BY <2>1, <2>4 DEF Matches
<1> QED
  BY <1>1 DEF DispatchMatchesShipment, Matches

(* A consumer dispatches what the record in its hand says.                 *)
LEMMA MatchesDispatched ==
  ASSUME Shape, StoreInv, OwnInv, NEW m \in Member, member[m].pc = "commit",
         RecordDispatchTx(Record(m))
  PROVE  DispatchMatchesShipment'
<1>1. UNCHANGED <<shipments, outbox>>
  BY DEF RecordDispatchTx
<1>2. PICK e \in EventId, s \in ShipmentId :
        /\ Record(m).event_id = e /\ Record(m).shipment_id = s
        /\ shipments[s] # None /\ OutboxRowOf(s) = {e}
        /\ Record(m).amount = shipments[s].amount
        /\ Record(m).currency = shipments[s].currency
  BY OwnRecordInHand DEF OwnInv, Busy, EventOf
<1> DEFINE row == [shipment |-> Record(m).shipment_id, event |-> Record(m).event_id,
                   amount |-> Record(m).amount, currency |-> Record(m).currency]
<1>3. PICK k : k = Len(dispatches) + 1
  OBVIOUS
<1>4. /\ DOMAIN dispatches' = DOMAIN dispatches \cup {k}
      /\ \A i \in DOMAIN dispatches : dispatches'[i] = dispatches[i]
      /\ dispatches'[k] = row
  <2>1. /\ processed' = processed \cup {Record(m).event_id}
        /\ DOMAIN dispatches' = DOMAIN dispatches \cup {Len(dispatches) + 1}
        /\ Len(dispatches) + 1 \notin DOMAIN dispatches
        /\ \A i \in DOMAIN dispatches : dispatches'[i] = dispatches[i]
        /\ dispatches'[Len(dispatches) + 1] = row
    BY DispatchAdded
  <2> QED
    BY <1>3, <2>1
<1>5. /\ row.shipment = s /\ row.event = e
      /\ row.amount = shipments[s].amount /\ row.currency = shipments[s].currency
  BY <1>2
<1> HIDE DEF row
<1>6. ASSUME NEW x PROVE OutboxRowOf(x)' = OutboxRowOf(x)
  BY <1>1 DEF OutboxRowOf
<1>7. ASSUME NEW i \in DOMAIN dispatches', NEW d, d = dispatches'[i]
      PROVE  /\ shipments'[d.shipment] # None
             /\ OutboxRowOf(d.shipment)' = {d.event}
             /\ d.amount = shipments'[d.shipment].amount
             /\ d.currency = shipments'[d.shipment].currency
  <2>1. CASE i = k
    BY <1>1, <1>2, <1>4, <1>5, <1>6, <1>7, <2>1
  <2>2. CASE i \in DOMAIN dispatches
    BY <1>1, <1>4, <1>6, <1>7, <2>2 DEF OwnInv, DispatchMatchesShipment
  <2> QED
    BY <1>4, <1>7, <2>1, <2>2
<1> QED
  BY <1>7 DEF DispatchMatchesShipment

(* Every step keeps OwnInv. *)
LEMMA OwnNext ==
  ASSUME ForeignRecord = {}, Shape, StoreInv, OwnInv, [Next]_vars
  PROVE  OwnInv'
<1>1. OwnRecords'
  BY OwnRecordsNext DEF OwnInv
<1> SUFFICES DispatchMatchesShipment'
  BY <1>1 DEF OwnInv
<1>2. ASSUME UNCHANGED storeVars PROVE DispatchMatchesShipment'
  BY <1>2, MatchesFrame DEF storeVars, RowsKept, OwnInv
<1>3. CASE APINext
  BY <1>2, <1>3, CallKeepsRows, MatchesFrame DEF APINext, OwnInv
<1>4. CASE RelayNext
  BY <1>4, RelayKeepsRows, ConsumerTablesStay, MatchesFrame DEF RelayNext, OwnInv
<1>5. CASE ConsumerNext
  <2>1. PICK m \in Member : MemberStep(m)
    BY <1>5 DEF ConsumerNext
  <2>2. UNCHANGED storeVars \/ (member[m].pc = "commit" /\ RecordDispatchTx(Record(m)))
    BY <2>1, MemberDispatches
  <2> QED
    BY <1>2, <2>2, MatchesDispatched
<1>6. CASE OutsideNext
  BY <1>2, <1>6, OutsideKeepsTables
<1>7. CASE UNCHANGED vars
  BY <1>2, <1>7 DEF vars
<1> QED
  BY <1>3, <1>4, <1>5, <1>6, <1>7 DEF Next

(* Without foreign records OwnInv is an invariant: every record of the     *)
(* topic is the event of a stored shipment, and so is every dispatch.      *)
THEOREM OwnInvariant ==
  ASSUME ForeignRecord = {}
  PROVE  Spec => []OwnInv
<1>1. Init => OwnInv
  BY DEF Init, StoreInit, KafkaInit, OwnInv, OwnRecords, DispatchMatchesShipment
<1>2. Shape /\ StoreInv /\ OwnInv /\ [Next]_vars => OwnInv'
  BY OwnNext
<1> QED
  BY <1>1, <1>2, ShapeInvariant, StoreInvariant, PTL DEF Spec

(* Without foreign records RecordDispatch only ever dispatches a stored    *)
(* shipment, for that shipment's own event and at its stored price: the    *)
(* price survives Encode, the topic and Decode.                            *)
THEOREM DispatchMatchesShipmentInvariant ==
  ASSUME ForeignRecord = {}
  PROVE  Spec => []DispatchMatchesShipment
<1>1. OwnInv => DispatchMatchesShipment
  BY DEF OwnInv
<1> QED
  BY <1>1, OwnInvariant, PTL

(* Without foreign records no member ever meets ErrDispatchConflict, which *)
(* would stop its partition: an event whose shipment is dispatched is in   *)
(* processed_events, and is taken for the duplicate it is.                 *)
THEOREM NoSpuriousConflictInvariant ==
  ASSUME ForeignRecord = {}
  PROVE  Spec => []NoSpuriousConflict
<1>1. ASSUME Shape, StoreInv, DispatchInv, OwnInv PROVE NoSpuriousConflict
  <2>1. SUFFICES ASSUME NEW m \in Member, member[m].pc = "dispatch",
                        HasDispatch(Record(m).shipment_id)
                 PROVE  FALSE
    BY DEF NoSpuriousConflict
  <2>2. PICK e \in EventId, s \in ShipmentId :
          /\ Record(m).event_id = e /\ Record(m).shipment_id = s
          /\ OutboxRowOf(s) = {e}
    BY <1>1, <2>1, OwnRecordInHand DEF OwnInv, Busy, EventOf
  <2>3. PICK i \in DOMAIN dispatches : dispatches[i].shipment = s
    BY <2>1, <2>2 DEF HasDispatch
  <2>4. OutboxRowOf(s) = {dispatches[i].event}
    BY <1>1, <2>3 DEF OwnInv, DispatchMatchesShipment
  <2>5. e \in processed
    BY <1>1, <2>2, <2>3, <2>4 DEF DispatchInv, DispatchedOnce
  <2> QED
    BY <1>1, <2>1, <2>2, <2>5 DEF DispatchInv, InsertsExclusive
<1> QED
  BY <1>1, ShapeInvariant, StoreInvariant, DispatchInvariant, OwnInvariant, PTL
-----------------------------------------------------------------------------
(* The mapped variables are read off the tables and the topic.             *)
LEMMA PriceMap ==
  ASSUME NEW s \in ShipmentId
  PROVE  PriceOf[s] = IF shipments[s] = None THEN None ELSE PriceIn(shipments[s])
BY DEF PriceOf

(* A stored shipment has a price. *)
LEMMA StoredHasPrice ==
  ASSUME Shape, NEW s \in ShipmentId, shipments[s] # None
  PROVE  PriceOf[s] # None /\ PriceOf[s] = PriceIn(shipments[s])
<1>1. shipments[s] \in ShipmentRow
  BY DEF Shape, TypeOK, StoreTypeOK
<1>2. PriceIn(shipments[s]) \in Money
  BY <1>1 DEF PriceIn, Money, ShipmentRow
<1> QED
  BY <1>2, PriceMap, PriceAssumption

(* An event is found in the log by its payload, which names it.            *)
LEMMA PayloadsDiffer ==
  ASSUME Shape, StoreInv, NEW d \in EventId, NEW e \in EventId,
         outbox[d] # None, outbox[e] # None, outbox[d].payload = outbox[e].payload
  PROVE  d = e
<1>1. PICK s, t : s = outbox[d].shipment /\ t = outbox[e].shipment
  OBVIOUS
<1>2. EventOf(outbox[d].payload, d, s) /\ EventOf(outbox[e].payload, e, t)
  BY <1>1, StoredEvent
<1> QED
  BY <1>2 DEF EventOf

(* A call that commits is Lifecycle's Store: the new shipment has no event *)
(* in the topic, because its event has a new ID.                           *)
LEMMA StoreMaps ==
  ASSUME Shape, StoreInv, OwnRecords, NEW id, NEW ev, NEW row, Stores(id, ev, row),
         AtPublishedRule(row), UNCHANGED <<log, dispatches>>
  PROVE  id \in ShipmentId /\ Promised!Store(id)
<1> DEFINE new == [shipment |-> id, payload |-> NewShipmentCreated(id, row, ev),
                   created |-> row.created, published |-> FALSE,
                   attempts |-> 0, last_error |-> FALSE]
<1>1. /\ id \in ShipmentId /\ shipments[id] = None
      /\ ev \in EventId /\ outbox[ev] = None
      /\ row \in ShipmentRow
      /\ shipments' = [shipments EXCEPT ![id] = row]
      /\ outbox'[ev] = new
      /\ \A e \in EventId : e # ev => outbox'[e] = outbox[e]
      /\ OutboxRowOf(id)' = {ev}
      /\ \A s \in ShipmentId : s # id => OutboxRowOf(s)' = OutboxRowOf(s)
  BY DEF Stores
<1>2. new.payload.event_id = ev /\ new.published = FALSE
  BY DEF NewShipmentCreated
<1> HIDE DEF new
<1>3. row # None /\ shipments \in [ShipmentId -> ShipmentRow \cup {None}]
  BY <1>1, RowAssumption DEF Shape, TypeOK, StoreTypeOK
<1>4. OutboxRowOf(id) = {}
  BY <1>1 DEF OutboxRowOf, StoreInv, StoredTogether
<1>5. PriceIn(row) \in Quotes
  <2>1. PICK k \in 1..30 : CostsKilograms(row, k)
    BY DEF AtPublishedRule
  <2>2. row.amount = 500 + 100 * k /\ row.currency = CURRENCY
    BY <2>1 DEF AtPublishedRule, CostsKilograms
  <2>3. PriceIn(row) = [amount |-> 500 + 100 * k, currency |-> CURRENCY]
    BY <2>1, <2>2 DEF PriceIn
  <2> QED
    BY <2>3 DEF Quotes
<1>6. PriceOf[id] = None /\ PriceOf' = [PriceOf EXCEPT ![id] = PriceIn(row)]
  BY <1>1, <1>3 DEF PriceOf
<1>7. ASSUME NEW s \in ShipmentId, s # id, NEW e \in OutboxRowOf(s)
      PROVE  outbox'[e] = outbox[e] /\ (InLog(e)' <=> InLog(e))
  <2>1. e \in EventId /\ e # ev
    BY <1>1 DEF OutboxRowOf
  <2>2. outbox'[e] = outbox[e]
    BY <1>1, <2>1
  <2> QED
    BY <2>2 DEF InLog
<1>8. ~InLog(ev)'
  <2>1. SUFFICES ASSUME NEW p \in Partition, NEW i \in DOMAIN log[p],
                        log[p][i] = new.payload
                 PROVE  FALSE
    BY <1>1 DEF InLog
  <2>2. i \in 1..Len(log[p])
    BY DEF Shape, TypeOK, KafkaTypeOK
  <2>3. PICK e \in EventId : outbox[e] # None /\ log[p][i] = outbox[e].payload
    BY <2>2 DEF OwnRecords
  <2>4. PICK s : s = outbox[e].shipment
    OBVIOUS
  <2>5. EventOf(outbox[e].payload, e, s)
    BY <2>3, <2>4, StoredEvent
  <2> QED
    BY <1>1, <1>2, <2>1, <2>3, <2>5 DEF EventOf
<1>9. SentOf' = SentOf
  BY <1>1, <1>4, <1>7, <1>8 DEF SentOf
<1>10. PublishedOf' = PublishedOf
  <2>1. ASSUME NEW s \in ShipmentId
        PROVE  GetShipment(s)'.outbox = "published" <=> GetShipment(s).outbox = "published"
    <3>1. CASE s = id
      BY <1>1, <1>2, <1>3, <3>1 DEF GetShipment, View
    <3>2. CASE s # id
      <4>1. shipments'[s] = shipments[s] /\ OutboxRowOf(s)' = OutboxRowOf(s)
        BY <1>1, <1>3, <3>2
      <4> QED
        BY <1>7, <3>2, <4>1 DEF GetShipment, View
    <3> QED
      BY <3>1, <3>2
  <2> QED
    BY <2>1 DEF PublishedOf
<1>11. OrdersOf' = OrdersOf
  BY DEF OrdersOf
<1> QED
  BY <1>1, <1>5, <1>6, <1>9, <1>10, <1>11 DEF Promised!Store

(* Writing a stored event is Lifecycle's Send the first time, and nothing  *)
(* it sees afterwards.                                                     *)
LEMMA SendMaps ==
  ASSUME Shape, StoreInv, NEW e \in EventId, outbox[e] # None, WriteEvent(e),
         UNCHANGED storeVars, log' \in [Partition -> Seq(Payload)]
  PROVE  \/ \E s \in ShipmentId : Promised!Send(s)
         \/ UNCHANGED <<PriceOf, SentOf, PublishedOf, OrdersOf>>
<1>1. UNCHANGED <<shipments, outbox, dispatches>>
  BY DEF storeVars
<1>2. UNCHANGED <<PriceOf, PublishedOf, OrdersOf>>
  BY <1>1 DEF PriceOf, PublishedOf, OrdersOf, GetShipment, View, OutboxRowOf
<1>3. PICK s : s = outbox[e].shipment
  OBVIOUS
<1>4. s \in ShipmentId /\ shipments[s] # None /\ OutboxRowOf(s) = {e}
  <2>1. EventOf(outbox[e].payload, e, s)
    BY <1>3, StoredEvent
  <2> QED
    BY <2>1 DEF EventOf
<1>5. ASSUME NEW d \in EventId, outbox[d] # None
      PROVE  InLog(d)' <=> InLog(d) \/ d = e
  <2>1. LogGrows
    BY WriteEventGrows
  <2>2. InLog(d) => InLog(d)'
    BY <1>1, <2>1, InLogStays
  <2>3. d = e => InLog(d)'
    BY <1>1, WrittenInLog
  <2>4. ASSUME InLog(d)', d # e PROVE InLog(d)
    <3>1. PICK p \in Partition : \E i \in DOMAIN log'[p] : log'[p][i] = outbox[d].payload
      BY <1>1, <2>4 DEF InLog
    <3>2. PICK i \in DOMAIN log'[p] : log'[p][i] = outbox[d].payload
      BY <3>1
    <3> DEFINE q == PartitionOf[outbox[e].shipment]
               x == outbox[e].payload
    <3>3. x \in Payload /\ q \in Partition /\ log \in [Partition -> Seq(Payload)]
      BY KafkaAssumption DEF Shape, TypeOK, StoreTypeOK, KafkaTypeOK, OutboxRow
    <3>4. log' = [log EXCEPT ![q] = Append(log[q], x)]
      BY DEF WriteEvent, Write
    <3>5. outbox[d].payload # x
      BY <1>5, <2>4, PayloadsDiffer
    <3> HIDE DEF q, x
    <3>6. i \in DOMAIN log[p] /\ log[p][i] = log'[p][i]
      <4>1. CASE p # q
        BY <3>2, <3>3, <3>4, <4>1
      <4>2. CASE p = q
        BY <3>2, <3>3, <3>4, <3>5, <4>2
      <4> QED
        BY <4>1, <4>2
    <3> QED
      BY <3>2, <3>6 DEF InLog
  <2> QED
    BY <2>2, <2>3, <2>4
<1>6. SentOf' = SentOf \cup {s}
  <2>1. ASSUME NEW t \in ShipmentId
        PROVE  t \in SentOf' <=> t \in SentOf \/ t = s
    <3>1. OutboxRowOf(t)' = OutboxRowOf(t)
      BY <1>1 DEF OutboxRowOf
    <3>2. \A d \in OutboxRowOf(t) : d \in EventId /\ outbox[d] # None /\ outbox[d].shipment = t
      BY DEF OutboxRowOf
    <3>3. t \in SentOf' <=> \E d \in OutboxRowOf(t) : InLog(d)'
      BY <3>1 DEF SentOf
    <3>4. t \in SentOf <=> \E d \in OutboxRowOf(t) : InLog(d)
      BY DEF SentOf
    <3> QED
      BY <1>3, <1>4, <1>5, <3>2, <3>3, <3>4
  <2>2. SentOf \subseteq ShipmentId /\ SentOf' \subseteq ShipmentId
    BY DEF SentOf
  <2> QED
    BY <1>4, <2>1, <2>2
<1>7. PriceOf[s] # None
  BY <1>4, StoredHasPrice
<1>8. CASE s \in SentOf
  BY <1>2, <1>6, <1>8
<1>9. CASE s \notin SentOf
  BY <1>2, <1>4, <1>6, <1>7, <1>9 DEF Promised!Send
<1> QED
  BY <1>8, <1>9

(* Recording a relay's result is Lifecycle's Publish, of the batch.        *)
LEMMA PublishMaps ==
  ASSUME Shape, PublishInv', NEW r \in RelayProcess, RecordRelayResult(r),
         UNCHANGED log
  PROVE  Promised!Publish
<1>1. RowsKept /\ UNCHANGED <<shipments, dispatches>>
  BY RecordResultKeeps DEF RecordRelayResult
<1>2. ASSUME NEW s PROVE OutboxRowOf(s)' = OutboxRowOf(s)
  BY <1>1, RowsOfKept
<1>3. ASSUME NEW s, NEW e \in OutboxRowOf(s)
      PROVE  /\ e \in EventId /\ outbox[e] # None /\ outbox'[e] # None
             /\ InLog(e)' <=> InLog(e)
             /\ outbox[e].published => outbox'[e].published
             /\ outbox'[e].published => InLog(e)
  <2>1. /\ e \in EventId /\ outbox[e] # None /\ outbox'[e] # None
        /\ outbox'[e].payload = outbox[e].payload
    BY <1>1 DEF OutboxRowOf, RowsKept
  <2>2. InLog(e)' <=> InLog(e)
    BY <2>1 DEF InLog
  <2>3. outbox[e].published => outbox'[e].published
    BY <2>1, PublishedMarked
  <2>4. outbox'[e].published => InLog(e)'
    BY <2>1 DEF PublishInv, PublishedReachedKafka
  <2> QED
    BY <2>1, <2>2, <2>3, <2>4
<1>4. SentOf' = SentOf
  BY <1>2, <1>3 DEF SentOf
<1>5. PriceOf' = PriceOf /\ OrdersOf' = OrdersOf
  BY <1>1 DEF PriceOf, OrdersOf
<1>6. PublishedOf' \subseteq SentOf
  <2>1. ASSUME NEW s \in PublishedOf'
        PROVE  s \in ShipmentId /\ \E e \in OutboxRowOf(s) : outbox'[e].published
    BY <1>1, <1>2, <2>1 DEF PublishedOf, GetShipment, View
  <2> QED
    BY <1>3, <2>1 DEF SentOf
<1>7. PublishedOf \subseteq PublishedOf'
  <2>1. ASSUME NEW s \in PublishedOf
        PROVE  /\ s \in ShipmentId /\ shipments[s] # None
               /\ \E e \in OutboxRowOf(s) : outbox[e].published
    BY <2>1 DEF PublishedOf, GetShipment, View
  <2>2. ASSUME NEW s \in ShipmentId, shipments'[s] # None,
               \E e \in OutboxRowOf(s)' : outbox'[e].published
        PROVE  s \in PublishedOf'
    BY <2>2 DEF PublishedOf, GetShipment, View
  <2> QED
    BY <1>1, <1>2, <1>3, <2>1, <2>2
<1> QED
  BY <1>4, <1>5, <1>6, <1>7 DEF Promised!Publish

(* A function from 1..n is a sequence; one with another place at its end,  *)
(* and the same before it, is that sequence with one more element.         *)
LEMMA AppendOf ==
  ASSUME NEW S, NEW n \in Nat, NEW f \in [1..n -> S], NEW x \in S,
         NEW g \in [1..(n + 1) -> S],
         \A i \in 1..n : g[i] = f[i], g[n + 1] = x
  PROVE  g = Append(f, x)
<1>1. f \in Seq(S) /\ Len(f) = n
  OBVIOUS
<1>2. g \in Seq(S) /\ Len(g) = n + 1
  OBVIOUS
<1>3. /\ Append(f, x) \in Seq(S) /\ Len(Append(f, x)) = n + 1
      /\ \A i \in 1..n : Append(f, x)[i] = f[i]
      /\ Append(f, x)[n + 1] = x
  BY <1>1
<1>4. ASSUME NEW i \in 1..(n + 1) PROVE g[i] = Append(f, x)[i]
  <2>1. i \in 1..n \/ i = n + 1
    OBVIOUS
  <2> QED
    BY <1>3, <2>1
<1> QED
  BY <1>2, <1>3, <1>4, SeqEqual

(* RecordDispatch's COMMIT is Lifecycle's Dispatch.                        *)
LEMMA DispatchMaps ==
  ASSUME Shape, StoreInv, DispatchInv, OwnRecords, NEW m \in Member,
         member[m].pc = "commit", RecordDispatchTx(Record(m)), UNCHANGED log
  PROVE  \E s \in ShipmentId : Promised!Dispatch(s)
<1>1. UNCHANGED <<shipments, outbox>>
  BY DEF RecordDispatchTx
<1>2. PICK e \in EventId, s \in ShipmentId :
        /\ outbox[e] # None /\ s = outbox[e].shipment
        /\ Record(m) = outbox[e].payload /\ EventOf(Record(m), e, s)
  BY OwnRecordInHand DEF Busy
<1>3. PriceOf' = PriceOf /\ SentOf' = SentOf /\ PublishedOf' = PublishedOf
  BY <1>1 DEF PriceOf, SentOf, PublishedOf, GetShipment, View, OutboxRowOf, InLog
<1>4. s \in SentOf
  <2>1. PICK p, i : p = member[m].part /\ i = member[m].offset
    OBVIOUS
  <2>2. p \in Partition /\ i \in 1..Len(log[p])
    BY <2>1 DEF Shape, RecordsHeld, RecordHeld
  <2>3. log[p] \in Seq(Payload)
    BY <2>2 DEF Shape, TypeOK, KafkaTypeOK
  <2>4. i \in DOMAIN log[p]
    BY <2>2, <2>3
  <2>5. InLog(e)
    BY <1>2, <2>1, <2>2, <2>4 DEF InLog, Record
  <2> QED
    BY <1>2, <2>5 DEF SentOf, EventOf
<1>5. s \notin Promised!Ordered
  <2>1. \A i \in DOMAIN dispatches : dispatches[i].shipment # s
    BY <1>2 DEF DispatchInv, InsertsExclusive, HasDispatch, EventOf
  <2>2. /\ DOMAIN OrdersOf = DOMAIN dispatches
        /\ \A i \in DOMAIN dispatches : OrdersOf[i].shipment = dispatches[i].shipment
    BY DEF OrdersOf
  <2> QED
    BY <2>1, <2>2 DEF Promised!Ordered
<1>6. OrdersOf' = Append(OrdersOf, [shipment |-> s, price |-> PriceOf[s]])
  <2> DEFINE row == [shipment |-> Record(m).shipment_id, event |-> Record(m).event_id,
                     amount |-> Record(m).amount, currency |-> Record(m).currency]
             order == [shipment |-> s, price |-> PriceOf[s]]
             Order == [shipment : ShipmentId, price : Money]
  <2>1. PICK n : n = Len(dispatches)
    OBVIOUS
  <2>2. n \in Nat /\ dispatches \in [1..n -> DispatchRow]
    BY <2>1 DEF Shape, TypeOK, StoreTypeOK
  <2>3. /\ DOMAIN dispatches' = 1..(n + 1)
        /\ \A i \in 1..n : dispatches'[i] = dispatches[i]
        /\ dispatches'[n + 1] = row
    <3>1. /\ processed' = processed \cup {Record(m).event_id}
          /\ DOMAIN dispatches' = DOMAIN dispatches \cup {Len(dispatches) + 1}
          /\ Len(dispatches) + 1 \notin DOMAIN dispatches
          /\ \A i \in DOMAIN dispatches : dispatches'[i] = dispatches[i]
          /\ dispatches'[Len(dispatches) + 1] = row
      BY DispatchAdded
    <3> HIDE DEF row
    <3> QED
      BY <2>1, <2>2, <3>1
  <2>4. /\ row.shipment = s /\ PriceIn(row) = PriceIn(shipments[s])
        /\ PriceOf[s] = PriceIn(shipments[s])
    BY <1>2, StoredHasPrice DEF EventOf, PriceIn
  <2> HIDE DEF row
  <2>5. \A i \in 1..n : PriceIn(dispatches[i]) \in Money /\ dispatches[i].shipment \in ShipmentId
    BY <2>2 DEF PriceIn, Money, DispatchRow
  <2>6. OrdersOf \in [1..n -> Order]
    BY <2>2, <2>5 DEF OrdersOf
  <2>7. order \in Order
    <3>1. PriceOf[s] \in Money
      BY <1>2, <2>4 DEF EventOf, Shape, TypeOK, StoreTypeOK, ShipmentRow, PriceIn, Money
    <3> QED
      BY <3>1
  <2>8. OrdersOf' = [i \in 1..(n + 1) |->
          [shipment |-> dispatches'[i].shipment, price |-> PriceIn(dispatches'[i])]]
    BY <2>3 DEF OrdersOf, PriceIn
  <2>9. \A i \in 1..n : OrdersOf'[i] = OrdersOf[i]
    BY <2>2, <2>3, <2>8 DEF OrdersOf, PriceIn
  <2>10. OrdersOf'[n + 1] = order
    BY <2>2, <2>3, <2>4, <2>8 DEF PriceIn
  <2>11. DOMAIN OrdersOf' = 1..(n + 1) /\ OrdersOf' = [i \in 1..(n + 1) |-> OrdersOf'[i]]
    BY <2>8
  <2> HIDE DEF order, Order
  <2>12. \A i \in 1..(n + 1) : OrdersOf'[i] \in Order
    <3>1. \A i \in 1..(n + 1) : i \in 1..n \/ i = n + 1
      BY <2>2
    <3>2. \A i \in 1..n : OrdersOf[i] \in Order
      BY <2>6
    <3> QED
      BY <2>7, <2>9, <2>10, <3>1, <3>2
  <2>13. OrdersOf' \in [1..(n + 1) -> Order]
    BY <2>11, <2>12
  <2>14. OrdersOf' = Append(OrdersOf, order)
    BY <2>2, <2>6, <2>7, <2>9, <2>10, <2>13, AppendOf
  <2> QED
    BY <2>14 DEF order
<1> QED
  BY <1>2, <1>3, <1>4, <1>5, <1>6 DEF Promised!Dispatch

(* What leaves the tables and the topic alone, Lifecycle does not see.     *)
LEMMA Unseen ==
  ASSUME UNCHANGED <<storeVars, log>>
  PROVE  UNCHANGED Promised!vars
<1>1. UNCHANGED <<shipments, outbox, dispatches, log>>
  BY DEF storeVars
<1> QED
  BY <1>1 DEF Promised!vars, PriceOf, SentOf, PublishedOf, OrdersOf, GetShipment, View,
              OutboxRowOf, InLog

(* A relay's step writes the event it is at, records its result, or does   *)
(* nothing to the tables and the topic.                                    *)
LEMMA RelayActs ==
  ASSUME NEW r \in RelayProcess, RelayStep(r)
  PROVE  \/ /\ relay[r].pc = "publish" /\ WriteEvent(Current(r))
            /\ UNCHANGED storeVars
         \/ RecordRelayResult(r) /\ UNCHANGED log
         \/ UNCHANGED <<storeVars, log>>
BY DEF RelayStep, RelayWorks, RelayDisturbed, Claim, ClaimFails, Publish, PublishFails,
       SessionLost, Commit, CommitFails, StopRelay, StartRelay, kafkaVars

(* A record that lands and a replay write a stored event, if anything.     *)
LEMMA OutsideActs ==
  ASSUME ForeignRecord = {}, Shape, OutsideNext
  PROVE  /\ UNCHANGED storeVars
         /\ \/ UNCHANGED log
            \/ \E e \in EventId : outbox[e] # None /\ WriteEvent(e)
BY DEF OutsideNext, LateWrite, Land, Replay, Shape, InflightStored

(* Every step of ParcelLab is a step of Lifecycle or unseen by it.         *)
LEMMA RefinesNext ==
  ASSUME ForeignRecord = {}, Shape, Shape', StoreInv, PriceInv, DispatchInv, PublishInv',
         OwnInv, [Next]_vars
  PROVE  [Promised!Next]_(Promised!vars)
<1>1. log' \in [Partition -> Seq(Payload)]
  BY DEF Shape, TypeOK, KafkaTypeOK
<1>2. ASSUME NEW e \in EventId, outbox[e] # None, WriteEvent(e), UNCHANGED storeVars
      PROVE  [Promised!Next]_(Promised!vars)
  BY <1>1, <1>2, SendMaps DEF Promised!Next, Promised!vars
<1>3. CASE APINext
  <2>1. PICK c \in Call : CallStep(c)
    BY <1>3 DEF APINext
  <2>2. UNCHANGED log
    BY <1>3 DEF APINext, kafkaVars
  <2>3. ASSUME NEW id, NEW ev, NEW row, Stores(id, ev, row), call[c].pc = "store",
               row = call[c].row, UNCHANGED dispatches
        PROVE  Promised!Next
    <3>1. AtPublishedRule(row)
      BY <2>3 DEF PriceInv, CallsQuoted
    <3> QED
      BY <2>2, <2>3, <3>1, StoreMaps DEF OwnInv, Promised!Next
  <2> QED
    BY <2>1, <2>2, <2>3, CallKeepsRows, Unseen
<1>4. CASE RelayNext
  <2>1. PICK r \in RelayProcess : RelayStep(r)
    BY <1>4 DEF RelayNext
  <2>2. CASE relay[r].pc = "publish" /\ WriteEvent(Current(r)) /\ UNCHANGED storeVars
    BY <1>2, <2>2, CurrentStored
  <2>3. CASE RecordRelayResult(r) /\ UNCHANGED log
    BY <2>3, PublishMaps DEF Promised!Next
  <2> QED
    BY <2>1, <2>2, <2>3, RelayActs, Unseen
<1>5. CASE ConsumerNext
  <2>1. PICK m \in Member : MemberStep(m)
    BY <1>5 DEF ConsumerNext
  <2>2. UNCHANGED log
    BY <2>1, MemberKeepsLog
  <2>3. CASE member[m].pc = "commit" /\ RecordDispatchTx(Record(m))
    BY <2>2, <2>3, DispatchMaps DEF OwnInv, Promised!Next
  <2> QED
    BY <2>1, <2>2, <2>3, MemberDispatches, Unseen
<1>6. CASE OutsideNext
  BY <1>2, <1>6, OutsideActs, Unseen
<1>7. CASE UNCHANGED vars
  BY <1>7, Unseen DEF vars, kafkaVars
<1> QED
  BY <1>3, <1>4, <1>5, <1>6, <1>7 DEF Next

(* The empty tables and the empty topic are the start of Lifecycle.        *)
LEMMA RefinesInit == Init => Promised!Init
<1> SUFFICES ASSUME Init PROVE Promised!Init
  OBVIOUS
<1>1. /\ shipments = [s \in ShipmentId |-> None] /\ dispatches = <<>>
      /\ outbox = [e \in EventId |-> None]
  BY DEF Init, StoreInit
<1>2. \A s \in ShipmentId : OutboxRowOf(s) = {} /\ GetShipment(s).outbox # "published"
  BY <1>1 DEF OutboxRowOf, GetShipment
<1>3. PriceOf = [s \in ShipmentId |-> None]
  BY <1>1 DEF PriceOf
<1>4. SentOf = {} /\ PublishedOf = {}
  BY <1>2 DEF SentOf, PublishedOf
<1>5. OrdersOf = <<>>
  BY <1>1 DEF OrdersOf
<1> QED
  BY <1>3, <1>4, <1>5 DEF Promised!Init

(* ParcelLab implements Lifecycle for any number of shipments, events,     *)
(* callers, relays, consumers, partitions and disturbances: CreateShipment *)
(* is Store, the first write of the event is Send, RecordResult's COMMIT   *)
(* is Publish, RecordDispatch's COMMIT is Dispatch, and every other step   *)
(* (polls, claims, failures, retries, second copies, rebalances, offsets)  *)
(* is none at all.  The hypotheses leave out other producers' records and  *)
(* pricing failures that look like another quote.                          *)
THEOREM ImplementsLifecycleTheorem ==
  ASSUME ForeignRecord = {}, FaultyAnswersFail
  PROVE  Spec => ImplementsLifecycle
<1>1. Init => Promised!Init
  BY RefinesInit
<1>2. /\ Shape /\ Shape' /\ StoreInv /\ PriceInv /\ DispatchInv /\ PublishInv' /\ OwnInv
      /\ [Next]_vars
      => [Promised!Next]_(Promised!vars)
  BY RefinesNext
<1> QED
  BY <1>1, <1>2, ShapeInvariant, StoreInvariant, PriceInvariant, DispatchInvariant,
     PublishInvariant, OwnInvariant, PTL DEF Spec, ImplementsLifecycle, Promised!Spec
=============================================================================

------------------------------ MODULE ParcelLab ------------------------------
(***************************************************************************)
(* The whole system: gRPC calls that store shipments, relays that publish  *)
(* their events, consumers that dispatch them, the broker between them,    *)
(* and an operator who replays an event (cmd/replay) or writes a record of *)
(* another producer to the topic (the Makefile's poison-event).            *)
(***************************************************************************)
EXTENDS Relay, Consumer, ShipmentAPI, FiniteSets

CONSTANT ForeignRecord    \* payloads other producers may write to the topic

ASSUME ForeignRecordAssumption == ForeignRecord \subseteq Payload

vars == <<disturbances, storeVars, kafkaVars, relay, member, call>>

TypeOK ==
  /\ disturbances \in 0..MaxDisturbances
  /\ StoreTypeOK
  /\ KafkaTypeOK
  /\ RelayTypeOK
  /\ ConsumerTypeOK
  /\ APITypeOK

Init ==
  /\ disturbances = 0
  /\ StoreInit
  /\ KafkaInit
  /\ RelayInit
  /\ ConsumerInit
  /\ APIInit

(* cmd/replay: publish a stored event again, row and relay untouched.      *)
Replay(e) ==
  /\ outbox[e] # None
  /\ Decodes(outbox[e].payload)
  /\ Disturb
  /\ \/ WriteEvent(e) /\ UNCHANGED inflight
     \/ Abandon(e) /\ UNCHANGED log
  /\ UNCHANGED <<storeVars, groupVars, relay, member, call>>

(* A producer other than the relay writes a record. *)
ForeignWrite(p, payload) ==
  /\ Disturb
  /\ Write(p, payload)
  /\ UNCHANGED <<storeVars, inflight, groupVars, relay, member, call>>

LateWrite(e) == Land(e) /\ Undisturbed /\ UNCHANGED <<storeVars, relay, member, call>>

APINext == \E c \in Call : CallStep(c) /\ UNCHANGED <<kafkaVars, relay, member>>

RelayNext == \E r \in RelayProcess : RelayStep(r) /\ UNCHANGED <<member, call>>

ConsumerNext == \E m \in Member : MemberStep(m) /\ UNCHANGED <<relay, call>>

OutsideNext ==
  \/ \E e \in EventId : LateWrite(e) \/ Replay(e)
  \/ \E p \in Partition, payload \in ForeignRecord : ForeignWrite(p, payload)

Next == APINext \/ RelayNext \/ ConsumerNext \/ OutsideNext

Spec == Init /\ [][Next]_vars

(* Every process that can take a step by itself eventually does.  Timeouts *)
(* bound the produces of a relay and all that a consumer does; the relay's *)
(* SQL has none, so that of it this is an assumption about PostgreSQL: it  *)
(* answers, or the connection breaks.  Compose restarts a process, and the *)
(* group assigns every partition.  Disturbances are never required, and    *)
(* nothing requires a caller to call or a late record to land.             *)
Fairness ==
  /\ \A r \in RelayProcess :
       WF_vars(RelayWorks(r) /\ UNCHANGED <<member, call>>)
  /\ \A m \in Member :
       WF_vars(MemberWorks(m) /\ UNCHANGED <<relay, call>>)
  /\ \A p \in Partition :
       WF_vars(\E m \in Member : Assign(m, p) /\ UNCHANGED <<relay, call>>)

FairSpec == Spec /\ Fairness
-----------------------------------------------------------------------------
(* A shipment and its event exist together: every stored shipment has      *)
(* exactly one outbox row, whose payload is the event of that very         *)
(* shipment, and no outbox row is without its shipment.  This is what      *)
(* CreateShipment's one transaction promises, over failed, refused and     *)
(* half-answered calls and colliding IDs.                                  *)
StoredTogether ==
  /\ \A s \in ShipmentId : shipments[s] # None =>
       \E e \in OutboxRowOf(s) :
         /\ OutboxRowOf(s) = {e}
         /\ outbox[e].payload = NewShipmentCreated(s, shipments[s], e)
         /\ outbox[e].created = shipments[s].created
  /\ \A e \in EventId : outbox[e] # None => shipments[outbox[e].shipment] # None

(* A call that returned OK left its own shipment and event in the store:   *)
(* the price and the weight of the reply, not another call's.              *)
OkIsStored ==
  \A c \in Call : call[c].code = "OK" =>
    /\ shipments[call[c].shipment] = call[c].row
    /\ OutboxRowOf(call[c].shipment) = {call[c].event}

(* k kilograms are started, and cost 500 cents and 100 for each of them.   *)
CostsKilograms(row, k) ==
  /\ 1000 * (k - 1) < row.weight
  /\ row.weight <= 1000 * k
  /\ row.amount = 500 + 100 * k

LegalWeight(w) == 1 <= w /\ w <= 30000

AtPublishedRule(row) ==
  /\ LegalWeight(row.weight)
  /\ \E k \in 1..30 : CostsKilograms(row, k)
  /\ row.currency = CURRENCY

(* What is stored has a legal weight and the price of the published rule,  *)
(* whatever else the pricing call may have answered on the way.            *)
StoredPriceIsQuoted ==
  \A s \in ShipmentId : shipments[s] # None => AtPublishedRule(shipments[s])

(* No outbox row is one MessageFor refuses.  Such a row would be the first *)
(* of every later batch and stop all publishing behind it.                 *)
NoPoisonRow == \A e \in EventId : outbox[e] # None => Decodes(outbox[e].payload)

(* published_at is only ever set for an event that is in the log, whatever *)
(* failed between the produce and the COMMIT.                              *)
PublishedReachedKafka ==
  \A e \in EventId : outbox[e] # None /\ outbox[e].published => InLog(e)

Copies(e) ==
  {c \in UNION {{p} \X (DOMAIN log[p]) : p \in Partition} :
     log[c[1]][c[2]] = outbox[e].payload}

(* The topic holds a second copy of an event only when something went      *)
(* wrong or was replayed: with n disturbances there are at most n extra    *)
(* copies, written or on their way.  The relays by themselves, however     *)
(* many, publish each event once.                                          *)
DuplicatesNeedDisturbance ==
  \A e \in EventId : outbox[e] # None =>
    Cardinality(Copies(e)) + inflight[e] <= 1 + disturbances

(* The committed offset never passes a record that has not been handled:   *)
(* every record before it decodes and its event is in processed_events.    *)
(* A poison, conflicting or orphaned record is therefore never skipped.    *)
CommittedAreProcessed ==
  \A p \in Partition : \A i \in 1..committed[p] :
    /\ i <= Len(log[p])
    /\ Decodes(log[p][i])
    /\ log[p][i].event_id \in processed

(* One dispatch per shipment and per event, and processed_events holds     *)
(* exactly the events that have one, over redeliveries, retries, a         *)
(* rebalance in mid-record and two members with the same record.           *)
DispatchedOnce ==
  /\ \A i, j \in DOMAIN dispatches : i # j =>
       /\ dispatches[i].shipment # dispatches[j].shipment
       /\ dispatches[i].event # dispatches[j].event
  /\ processed = {dispatches[i].event : i \in DOMAIN dispatches}

(* Without foreign records a dispatch is of the shipment's own event and   *)
(* at the price stored with the shipment.                                  *)
DispatchMatchesShipment ==
  \A i \in DOMAIN dispatches :
    LET d == dispatches[i] IN
    /\ shipments[d.shipment] # None
    /\ OutboxRowOf(d.shipment) = {d.event}
    /\ d.amount = shipments[d.shipment].amount
    /\ d.currency = shipments[d.shipment].currency

(* Without foreign records no member meets the UNIQUE violation that would *)
(* stop its partition for ever: republished and replayed events are        *)
(* recognised as duplicates first.                                         *)
NoSpuriousConflict ==
  \A m \in Member : member[m].pc = "dispatch" => ~HasDispatch(Record(m).shipment_id)

(* The group's offset never moves back, although a member that was removed *)
(* from the group may commit late.                                         *)
OffsetsAdvance == [][\A p \in Partition : committed'[p] >= committed[p]]_vars

(* Once the disturbances are over, every stored shipment is shown as       *)
(* published and dispatched: nothing is stuck behind a failed batch, a     *)
(* lost lock, a crashed relay or a fenced consumer.                        *)
EventuallyDispatched ==
  \A s \in ShipmentId :
    shipments[s] # None ~>
      GetShipment(s).outbox = "published" /\ GetShipment(s).dispatch = "dispatched"

(* relay.go, Run, in the branch of a storage error: "nothing was claimed   *)
(* or marked".  A poll that ends in that branch leaves no row marked.      *)
StorageFailureMarksNothing == [][\A r \in RelayProcess :
  (/\ relay[r].pc = "mark" /\ relay[r].failed = None
   /\ relay'[r].pc = "idle" /\ relay'[r].backoff # 1)
    => outbox' = outbox]_vars
=============================================================================

-------------------------------- MODULE Store --------------------------------
(***************************************************************************)
(* The PostgreSQL tables of db/migrations/0001_init.sql and the            *)
(* transactions of internal/storage/store.go that are a single step seen   *)
(* from outside.  ProcessPending and RecordDispatch hold a transaction     *)
(* open across other steps; they are in Relay and Consumer.                *)
(*                                                                         *)
(* The rows of shipments and outbox_events are kept by primary key, None   *)
(* where there is no row.  dispatches is the sequence of inserted rows, so *)
(* that its UNIQUE(shipment_id) is something the model can break.          *)
(***************************************************************************)
EXTENDS Faults, Events, Sequences

VARIABLES
  shipments,    \* shipments
  outbox,       \* outbox_events; published and last_error are "IS NOT NULL"
  processed,    \* processed_events
  dispatches    \* dispatches; dispatch_id is the index

storeVars == <<shipments, outbox, processed, dispatches>>

ShipmentRow == [weight : Int, amount : Int, currency : Currency, created : Nat]

OutboxRow ==
  [shipment : ShipmentId, payload : Payload, created : Nat,
   published : BOOLEAN, attempts : Nat, last_error : BOOLEAN]

DispatchRow ==
  [shipment : ShipmentId, event : EventId, amount : Int, currency : Currency]

ASSUME RowAssumption == None \notin ShipmentRow /\ None \notin OutboxRow

StoreTypeOK ==
  /\ shipments \in [ShipmentId -> ShipmentRow \cup {None}]
  /\ outbox \in [EventId -> OutboxRow \cup {None}]
  /\ processed \in SUBSET EventId
  /\ dispatches \in Seq(DispatchRow)

StoreInit ==
  /\ shipments = [s \in ShipmentId |-> None]
  /\ outbox = [e \in EventId |-> None]
  /\ processed = {}
  /\ dispatches = <<>>

(* Mutant of InsertsAccepted: outbox_events has no primary key, a second   *)
(* event of the same ID overwrites the first.                              *)
InsertsUpsert(id, s, e) ==
  /\ shipments[id] = None
  /\ s.weight >= 1 /\ s.weight <= 30000
  /\ s.amount >= 0

(* The primary keys and the CHECKs of shipments.                           *)
InsertsAccepted(id, s, e) ==
  /\ shipments[id] = None
  /\ outbox[e] = None
  /\ s.weight >= 1 /\ s.weight <= 30000
  /\ s.amount >= 0

(* CreateShipment: both rows or neither.                                   *)
CreateShipmentTx(id, s, e, payload) ==
  /\ shipments' = [shipments EXCEPT ![id] = s]
  /\ outbox' = [outbox EXCEPT ![e] =
       [shipment |-> id, payload |-> payload, created |-> s.created,
        published |-> FALSE, attempts |-> 0, last_error |-> FALSE]]
  /\ UNCHANGED <<processed, dispatches>>

(* The two UPDATEs of ProcessPending: published is the set of acknowledged *)
(* events, failed the set of at most one event publishing stopped at.      *)
RecordResult(published, failed) ==
  outbox' = [e \in EventId |->
    IF e \in published
    THEN [outbox[e] EXCEPT !.published = TRUE, !.attempts = @ + 1,
                           !.last_error = FALSE]
    ELSE IF e \in failed
    THEN [outbox[e] EXCEPT !.attempts = @ + 1, !.last_error = TRUE]
    ELSE outbox[e]]

(* The COMMIT of RecordDispatch for the decoded event evt.                 *)
RecordDispatchTx(evt) ==
  /\ processed' = processed \cup {evt.event_id}
  /\ dispatches' = Append(dispatches,
       [shipment |-> evt.shipment_id, event |-> evt.event_id,
        amount |-> evt.amount, currency |-> evt.currency])
  /\ UNCHANGED <<shipments, outbox>>

HasDispatch(s) == \E i \in DOMAIN dispatches : dispatches[i].shipment = s

OutboxRowOf(s) ==
  {e \in EventId : outbox[e] # None /\ outbox[e].shipment = s}

(* shipmentRow.view(): what the two LEFT JOINs show of a stored shipment.  *)
View(s) ==
  [outbox   |-> IF \E e \in OutboxRowOf(s) : outbox[e].published
                THEN "published" ELSE "pending",
   dispatch |-> IF HasDispatch(s) THEN "dispatched" ELSE "pending"]
=============================================================================

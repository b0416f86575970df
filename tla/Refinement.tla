------------------------------ MODULE Refinement ------------------------------
(***************************************************************************)
(* ParcelLab implements Lifecycle.  The mapping reads the promises off the *)
(* tables and the topic; calls, polls, transactions, offsets and faults    *)
(* are steps Lifecycle does not see.                                       *)
(***************************************************************************)
EXTENDS ParcelLabInv

ASSUME PriceAssumption == None \notin Money

(* The money of a row of shipments or dispatches.                          *)
PriceIn(row) == [amount |-> row.amount, currency |-> row.currency]

PriceOf ==
  [s \in ShipmentId |->
     IF shipments[s] = None THEN None ELSE PriceIn(shipments[s])]

SentOf == {s \in ShipmentId : \E e \in OutboxRowOf(s) : InLog(e)}

PublishedOf == {s \in ShipmentId : GetShipment(s).outbox = "published"}

OrdersOf ==
  [i \in DOMAIN dispatches |->
     [shipment |-> dispatches[i].shipment, price |-> PriceIn(dispatches[i])]]

(* The prices the published rule can give. *)
Quotes == {[amount |-> 500 + 100 * k, currency |-> CURRENCY] : k \in 1..30}

Promised ==
  INSTANCE Lifecycle WITH
    Shipment <- ShipmentId,
    Quote <- Quotes,
    NotStored <- None,
    price <- PriceOf,
    sent <- SentOf,
    published <- PublishedOf,
    orders <- OrdersOf

(* Every behaviour of the services, the relays, the consumers and the      *)
(* broker is one of the promised life: no step of theirs, however failures *)
(* and redeliveries interleave, does what Lifecycle's next-state relation  *)
(* rules out (publish what was not sent, dispatch twice or at another      *)
(* price, forget a shipment).  Only other producers' records are left out. *)
ImplementsLifecycle == Promised!Spec
=============================================================================

------------------------------ MODULE Lifecycle ------------------------------
(***************************************************************************)
(* What ParcelLab promises of a shipment, without services, tables or a    *)
(* broker: it is stored at a price; its event is sent; once it is sent the *)
(* shipment is shown as published and is dispatched, each once, in either  *)
(* order, the dispatch at the stored price.  Nothing is ever taken back.   *)
(***************************************************************************)
EXTENDS Naturals, Sequences

CONSTANTS Shipment, Quote, NotStored

VARIABLES
  price,        \* shipment -> the price it is stored at, or NotStored
  sent,         \* the shipments whose event has reached the topic
  published,    \* the shipments GetShipment shows as published
  orders        \* the dispatches, in the order they were made

vars == <<price, sent, published, orders>>

Ordered == {orders[i].shipment : i \in DOMAIN orders}

Init ==
  /\ price = [s \in Shipment |-> NotStored]
  /\ sent = {}
  /\ published = {}
  /\ orders = <<>>

Store(s) ==
  /\ price[s] = NotStored
  /\ \E p \in Quote : price' = [price EXCEPT ![s] = p]
  /\ UNCHANGED <<sent, published, orders>>

Send(s) ==
  /\ price[s] # NotStored /\ s \notin sent
  /\ sent' = sent \cup {s}
  /\ UNCHANGED <<price, published, orders>>

(* A relay marks a whole batch at once.                                    *)
Publish ==
  /\ published' \in SUBSET sent
  /\ published \subseteq published'
  /\ UNCHANGED <<price, sent, orders>>

Dispatch(s) ==
  /\ s \in sent \ Ordered
  /\ orders' = Append(orders, [shipment |-> s, price |-> price[s]])
  /\ UNCHANGED <<price, sent, published>>

Next ==
  \/ Publish
  \/ \E s \in Shipment : Store(s) \/ Send(s) \/ Dispatch(s)

Spec == Init /\ [][Next]_vars
=============================================================================

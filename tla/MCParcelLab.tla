----------------------------- MODULE MCParcelLab -----------------------------
(***************************************************************************)
(* Instances of ParcelLab for TLC.  A .cfg chooses among these.            *)
(***************************************************************************)
EXTENDS Refinement, TLC

CONSTANTS s1, s2, e1, e2, x1, p1, p2, USD, usd

(* Two shipments and two events the service may create, and an event ID of *)
(* another producer's record.                                              *)
MCShipmentId == {s1, s2}
MCEventId == {e1, e2, x1}
OneShipment == {s1}
OneEvent == {e1, x1}
FreshEvents == {e1, e2}
FreshEvent == {e1}

OnePartition == [s \in ShipmentId |-> p1]
TwoPartitions == [s \in ShipmentId |-> IF s = s1 THEN p1 ELSE p2]

Genuine ==
  [json |-> TRUE, event_type |-> TypeShipmentCreated, schema_version |-> 1,
   event_id |-> x1, shipment_id |-> s1, envelope |-> "present",
   weight |-> 1500, amount |-> 900, currency |-> USD]

(* A record of another producer: not JSON, of a later schema, for a        *)
(* shipment that has (or will have) an event of its own, for one that does *)
(* not exist.                                                              *)
NotJson == [Genuine EXCEPT !.json = FALSE]
LaterSchema == [Genuine EXCEPT !.schema_version = 2]
SecondEvent == Genuine
NoSuchShipment == [Genuine EXCEPT !.shipment_id = s2]

NoForeign == {}
Poison == {NotJson, LaterSchema}
Strays == {SecondEvent, NoSuchShipment}
AllForeign == Poison \cup Strays

(* The ways a pricing call goes wrong. *)
Gone(t) == [transport |-> t, status |-> 0, json |-> FALSE,
            amount |-> Absent, currency |-> Absent]
Body(a, c) == [transport |-> "done", status |-> 200, json |-> TRUE,
               amount |-> a, currency |-> c]
FaultyAnswers ==
  {Gone("timeout"), Gone("canceled"), Gone("unreachable"),
   [post_quote(0) EXCEPT !.status = 400], [post_quote(1) EXCEPT !.status = 503],
   [post_quote(1) EXCEPT !.json = FALSE],
   Body(Absent, USD), Body(700, Absent), Body(-1, USD), Body(700, usd)}
NoFaultyAnswer == {}

(* Storage errors as classify leaves them. *)
StoreErrors == {{"ErrUnavailable"}, {"Canceled"}, {"DeadlineExceeded"}, {}}
Unavailable == {{"ErrUnavailable"}}

(* Processes and calls are interchangeable; shipments are not, by partition. *)
Members == Permutations(Member)
Calls == Permutations(Call)
RelaysAndCalls == Permutations(RelayProcess) \cup Calls
MembersAndCalls == Members \cup Calls

Weights == {0, 1, 1000, 1001, 30000, 30001}
OneWeight == {1500}
=============================================================================

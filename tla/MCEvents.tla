------------------------------- MODULE MCEvents -------------------------------
(***************************************************************************)
(* Decode of whatever may be received: a payload arrives, then it is       *)
(* judged.  TLC takes every combination of the field values in Payloads.   *)
(***************************************************************************)
EXTENDS Events

CONSTANT Received    \* the payloads that may arrive

ASSUME ReceivedAssumption == Received \subseteq Payload

VARIABLES payload, verdict

vars == <<payload, verdict>>

(* Around the boundaries of each field's rule. *)
Payloads ==
  [json           : BOOLEAN,
   event_type     : Wire(EventType),
   schema_version : Wire({1, 2}),
   event_id       : Wire(EventId),
   shipment_id    : Wire(ShipmentId),
   envelope       : Wire({"present"}),
   weight         : Wire({0, 1, 30000, 30001}),
   amount         : Wire({-1, 0}),
   currency       : Wire(Currency)]

Init == payload \in Received /\ verdict = "none"

Judge ==
  /\ verdict = "none"
  /\ verdict' = Decode(payload)
  /\ UNCHANGED payload

Spec == Init /\ [][Judge]_vars
-----------------------------------------------------------------------------
LegalWeight(w) == 1 <= w /\ w <= 30000

Present(f) == payload[f] \notin {Absent, Mistyped}

(* All that makes a payload a version 1 event under the domain rules.      *)
IsV1 ==
  /\ payload.json
  /\ \A f \in Fields : Present(f)
  /\ payload.event_type = TypeShipmentCreated
  /\ payload.schema_version = 1
  /\ LegalWeight(payload.weight)
  /\ payload.amount \in Nat
  /\ payload.currency \in CurrencyCode

(* Exactly the version 1 events that satisfy the domain rules are accepted; *)
(* they are what the consumer dispatches and the relay publishes.          *)
AcceptsExactlyV1 == verdict # "none" => (verdict = "ok" <=> IsV1)

Later ==
  \/ Present("event_type") /\ payload.event_type # TypeShipmentCreated
  \/ /\ payload.event_type = TypeShipmentCreated
     /\ Present("schema_version") /\ payload.schema_version # 1

(* A payload whose fields have their types, and whose event type or schema *)
(* version is another one, is reported as unsupported, whichever fields it *)
(* lacks and whatever values the others have.                              *)
LaterSchemaUnsupported ==
  verdict # "none" /\ payload.json /\ Later
    /\ (\A f \in Fields : payload[f] # Mistyped) => verdict = "unsupported"

(* Decode gives the verdict its contract asks for: acceptance of exactly   *)
(* the version 1 events, and "unsupported" for the later ones.             *)
DecodeKeepsContract == AcceptsExactlyV1 /\ LaterSchemaUnsupported

(* Decode's comment: "A well-formed payload with a type or schema version  *)
(* the consumer does not handle is ErrUnsupported ... even if its required *)
(* fields differ", a field of another JSON type included.                  *)
AnyLaterSchemaUnsupported ==
  verdict # "none" /\ payload.json /\ Later => verdict = "unsupported"
=============================================================================

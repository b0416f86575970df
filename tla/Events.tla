------------------------------- MODULE Events -------------------------------
(***************************************************************************)
(* The shipment.created contract of internal/events/events.go.             *)
(*                                                                         *)
(* A payload is the JSON text of a Kafka record or of an outbox row.  Of   *)
(* the text the model keeps whether it is JSON at all, and for each field  *)
(* of wireEvent its value, Absent (missing, null, or an empty ID, which    *)
(* Decode treats alike) or Mistyped (JSON of another type, or an integer   *)
(* that does not fit).  occurred_at, correlation_id and the data object    *)
(* itself are only ever tested for presence and share the field envelope.  *)
(***************************************************************************)
EXTENDS Domain

CONSTANTS Absent, Mistyped, EventType, TypeShipmentCreated

ASSUME EventTypeAssumption == TypeShipmentCreated \in EventType

ASSUME WireAssumption ==
  \A a \in {Absent, Mistyped} :
    /\ a \notin EventId /\ a \notin ShipmentId /\ a \notin EventType
    /\ a \notin Currency /\ a \notin Int /\ a # "present"

SchemaVersion == 1

Wire(S) == S \cup {Absent, Mistyped}

Payload ==
  [json           : BOOLEAN,
   event_type     : Wire(EventType),
   schema_version : Wire(Int),
   event_id       : Wire(EventId),
   shipment_id    : Wire(ShipmentId),
   envelope       : Wire({"present"}),
   weight         : Wire(Int),
   amount         : Wire(Int),
   currency       : Wire(Currency)]

Fields == {"event_type", "schema_version", "event_id", "shipment_id",
           "envelope", "weight", "amount", "currency"}

(* Mutant of NewShipmentCreated: the amount is taken from the wrong field. *)
NewShipmentCreatedMixed(id, s, e) ==
  [json           |-> TRUE,
   event_type     |-> TypeShipmentCreated,
   schema_version |-> SchemaVersion,
   event_id       |-> e,
   shipment_id    |-> id,
   envelope       |-> "present",
   weight         |-> s.weight,
   amount         |-> s.weight,
   currency       |-> s.currency]

(* NewShipmentCreated followed by Encode: s is the stored shipment row, id *)
(* its shipment ID, e the event ID that was drawn for it.                  *)
NewShipmentCreated(id, s, e) ==
  [json           |-> TRUE,
   event_type     |-> TypeShipmentCreated,
   schema_version |-> SchemaVersion,
   event_id       |-> e,
   shipment_id    |-> id,
   envelope       |-> "present",
   weight         |-> s.weight,
   amount         |-> s.amount,
   currency       |-> s.currency]

(* json.Unmarshal into wireEvent fails on bad syntax and on a field whose  *)
(* JSON type is not the Go type, in whatever order the fields come.        *)
Unmarshals(p) == p.json /\ \A f \in Fields : p[f] # Mistyped

(* Mutant of Decode: required fields are checked before type and version.  *)
DecodeFieldsFirst(p) ==
  IF ~Unmarshals(p) THEN "malformed"
  ELSE IF \E f \in Fields : p[f] = Absent THEN "malformed"
  ELSE IF p.event_type # TypeShipmentCreated THEN "unsupported"
  ELSE IF p.schema_version # SchemaVersion THEN "unsupported"
  ELSE IF ~ValidateWeight(p.weight) THEN "malformed"
  ELSE IF ~ValidateMoney([amount |-> p.amount, currency |-> p.currency])
       THEN "malformed"
  ELSE "ok"

(* The order of the cases is the order of the two switch statements.       *)
Decode(p) ==
  IF ~Unmarshals(p) THEN "malformed"
  ELSE IF p.event_type = Absent THEN "malformed"
  ELSE IF p.event_type # TypeShipmentCreated THEN "unsupported"
  ELSE IF p.schema_version = Absent THEN "malformed"
  ELSE IF p.schema_version # SchemaVersion THEN "unsupported"
  ELSE IF \E f \in Fields : p[f] = Absent THEN "malformed"
  ELSE IF ~ValidateWeight(p.weight) THEN "malformed"
  ELSE IF ~ValidateMoney([amount |-> p.amount, currency |-> p.currency])
       THEN "malformed"
  ELSE "ok"

Decodes(p) == Decode(p) = "ok"
=============================================================================

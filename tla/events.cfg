SPECIFICATION Spec
CONSTANTS
  Absent = Absent
  Mistyped = Mistyped
  ShipmentId = {s1}
  EventId = {e1}
  Currency = {USD, usd}
  CurrencyCode = {USD}
  TypeShipmentCreated = "shipment.created"
  EventType = {"shipment.created", "shipment.cancelled"}
  Received <- Payloads
INVARIANTS
  DecodeKeepsContract
CHECK_DEADLOCK FALSE

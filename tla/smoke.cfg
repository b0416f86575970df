SPECIFICATION SmokeFairSpec
CONSTANTS
  None = None
  Absent = Absent
  Mistyped = Mistyped
  s1 = s1  s2 = s2  e1 = e1  e2 = e2  p1 = p1
  USD = USD  usd = usd
  Currency = {USD, usd}
  CurrencyCode = {USD}
  CURRENCY = USD
  TypeShipmentCreated = "shipment.created"
  EventType = {"shipment.created", "shipment.cancelled"}
  ShipmentId = {s1, s2}
  EventId = {e1, e2}
  NewShipmentID = {s1, s2}
  NewEventID = {e1, e2}
  Call = {c1}
  SmokeCall = c1
  Weight <- OneWeight
  Stamp = {1}
  FaultyAnswer <- NoFaultyAnswer
  StoreError <- Unavailable
  Partition = {p1}
  PartitionOf <- OnePartition
  RelayProcess = {r1, r2}
  BatchSize = 2
  Member = {m1}
  MaxAttempts = 2
  ForeignRecord <- NoForeign
  MaxDisturbances = 2
INVARIANTS
  NoFalseAlarm
  CounterShowsReplay
PROPERTIES
  EventuallyDispatched
  QuietStackPasses

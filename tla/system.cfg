SPECIFICATION Spec
CONSTANTS
  None = None
  Absent = Absent
  Mistyped = Mistyped
  s1 = s1  s2 = s2  e1 = e1  e2 = e2  x1 = x1  p1 = p1  p2 = p2
  USD = USD  usd = usd
  Currency = {USD, usd}
  CurrencyCode = {USD}
  CURRENCY = USD
  TypeShipmentCreated = "shipment.created"
  EventType = {"shipment.created", "shipment.cancelled"}
  ShipmentId <- MCShipmentId
  EventId <- FreshEvents
  NewShipmentID <- MCShipmentId
  NewEventID <- FreshEvents
  Call = {c1, c2}
  Weight <- OneWeight
  Stamp = {1}
  FaultyAnswer <- NoFaultyAnswer
  StoreError <- Unavailable
  Partition = {p1, p2}
  PartitionOf <- TwoPartitions
  RelayProcess = {r1}
  BatchSize = 2
  Member = {m1, m2}
  MaxAttempts = 2
  ForeignRecord <- NoForeign
  MaxDisturbances = 2
INVARIANTS
  TypeOK
  DispatchMatchesShipment
  NoSpuriousConflict
PROPERTIES
  ImplementsLifecycle
SYMMETRY MembersAndCalls

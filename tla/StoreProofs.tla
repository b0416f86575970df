---------------------------- MODULE StoreProofs ----------------------------
(***************************************************************************)
(* Shape, and with it TypeOK, is an invariant of ParcelLab; and what       *)
(* CreateShipment's one transaction leaves in the store: shipment and      *)
(* event together, an event every reader accepts, the quoted price.        *)
(***************************************************************************)
EXTENDS ParcelLabInv, TLAPS

(* A payload that Decode accepts has the fields the consumer reads.        *)
LEMMA DecodedFields ==
  ASSUME NEW p \in Payload, Decodes(p)
  PROVE  /\ p.event_id \in EventId
         /\ p.shipment_id \in ShipmentId
         /\ p.amount \in Int
         /\ p.currency \in Currency
<1>1. /\ \A f \in Fields : p[f] # Mistyped
      /\ \A f \in Fields : p[f] # Absent
  BY DEF Decodes, Decode, Unmarshals
<1>2. /\ p.event_id \notin {Absent, Mistyped}
      /\ p.shipment_id \notin {Absent, Mistyped}
      /\ p.amount \notin {Absent, Mistyped}
      /\ p.currency \notin {Absent, Mistyped}
  BY <1>1 DEF Fields
<1> QED
  BY <1>2 DEF Payload, Wire

(* NewShipmentCreated and Encode produce a payload.                        *)
LEMMA CreatedPayload ==
  ASSUME NEW id \in ShipmentId, NEW s \in ShipmentRow, NEW e \in EventId
  PROVE  NewShipmentCreated(id, s, e) \in Payload
BY EventTypeAssumption
   DEF NewShipmentCreated, Payload, Wire, ShipmentRow, SchemaVersion

(* The rows CreateShipment inserts have the tables' types.                 *)
LEMMA CreatedRow ==
  ASSUME NEW id \in ShipmentId, NEW s \in ShipmentRow, NEW p \in Payload
  PROVE  [shipment |-> id, payload |-> p, created |-> s.created,
          published |-> FALSE, attempts |-> 0, last_error |-> FALSE] \in OutboxRow
BY DEF OutboxRow, ShipmentRow

(* The states between polls. *)
LEMMA RelayRests ==
  ASSUME NEW pc \in {"down", "idle"}, NEW b \in 1..MaxBackoff
  PROVE  /\ BetweenPolls(pc, b) \in RelayState
         /\ BetweenPolls(pc, b).pc = pc
         /\ BetweenPolls(pc, b).batch = <<>>
         /\ BetweenPolls(pc, b).acked = 0
         /\ BetweenPolls(pc, b).failed = None
BY DEF BetweenPolls, RelayState, MaxBackoff

(* Every initial state satisfies Shape. *)
LEMMA ShapeInit == Init => Shape
<1> SUFFICES ASSUME Init PROVE Shape
  OBVIOUS
<1> USE DEF Init
<1>1. disturbances \in 0..MaxDisturbances
  BY MaxDisturbancesAssumption
<1>2. StoreTypeOK
  BY DEF StoreInit, StoreTypeOK
<1>3. KafkaTypeOK
  BY DEF KafkaInit, KafkaTypeOK
<1>4. RelayTypeOK /\ ClaimsHeld
  <2>1. 1 \in 1..MaxBackoff
    BY DEF MaxBackoff
  <2>2. RelayTypeOK
    BY <2>1, RelayRests DEF RelayInit, RelayTypeOK, Down
  <2>3. ClaimsHeld
    BY <2>1, RelayRests DEF RelayInit, ClaimsHeld, BatchHeld, Down
  <2> QED
    BY <2>2, <2>3
<1>5. ConsumerTypeOK /\ RecordsHeld
  BY MaxAttemptsAssumption
     DEF ConsumerInit, ConsumerTypeOK, MemberState, Resting, RecordsHeld, RecordHeld
<1>6. APITypeOK /\ CallsReady
  BY DEF APIInit, APITypeOK, CallState, NewCall, CallsReady
<1>7. InflightStored
  BY DEF KafkaInit, InflightStored
<1> QED
  BY <1>1, <1>2, <1>3, <1>4, <1>5, <1>6, <1>7 DEF Shape, TypeOK

-----------------------------------------------------------------------------
(* toStatus yields a status code whatever error it is given. *)
LEMMA StatusType == ASSUME NEW err PROVE toStatus(err) \in Code
BY DEF toStatus, Code

(* Disturbances are counted within their bound. *)
LEMMA DisturbanceType ==
  ASSUME disturbances \in 0..MaxDisturbances, Disturb \/ Undisturbed
  PROVE  disturbances' \in 0..MaxDisturbances
BY MaxDisturbancesAssumption DEF Disturb, Undisturbed

(* The pricing service answers in the client's terms. *)
LEMMA PostQuoteType == ASSUME NEW w \in Int PROVE post_quote(w) \in Answer
<1>1. quote(w).amount \in Int /\ quote(w).currency \in Currency
  BY CURRENCYAssumption, CurrencyAssumption
     DEF quote, started_kilograms, BASE_CENTS, PER_STARTED_KG_CENTS
<1> QED
  BY <1>1 DEF post_quote, Answer

(* A quote the client returns without an error is valid money. *)
LEMMA QuotedMoney ==
  ASSUME NEW a \in Answer, Quoted(a).err = {}
  PROVE  /\ Quoted(a).money.amount \in Int /\ Quoted(a).money.amount >= 0
         /\ Quoted(a).money.currency \in CurrencyCode
<1>1. a.transport = "done"
  <2>1. SUFFICES ASSUME a.transport # "done" PROVE FALSE
    OBVIOUS
  <2>2. classifyTransport(a.transport).err # {}
    BY DEF classifyTransport, Fails
  <2> QED
    BY <2>1, <2>2 DEF Quoted
<1>2. Quoted(a) = decodeQuote(a)
  BY <1>1 DEF Quoted
<1> DEFINE money == [amount |-> a.amount, currency |-> a.currency]
<1>3. /\ decodeQuote(a) = [err |-> {}, money |-> money]
      /\ a.amount # Absent /\ ValidateMoney(money)
  <2>1. Fails({"ErrRejected"}).err # {} /\ Fails({"ErrUnavailable"}).err # {}
    BY DEF Fails
  <2>2. /\ decodeQuote(a) # Fails({"ErrRejected"})
        /\ decodeQuote(a) # Fails({"ErrUnavailable"})
    BY <1>2, <2>1
  <2> QED
    BY <2>2 DEF decodeQuote
<1> QED
  BY <1>2, <1>3 DEF Answer, ValidateMoney, isCurrencyCode

(* A call that ends keeps the types. *)
LEMMA ReturnShape ==
  ASSUME APITypeOK, CallsReady, NEW c \in Call, NEW code \in Code, Return(c, code)
  PROVE  APITypeOK' /\ CallsReady'
<1> USE DEF APITypeOK, Return
<1>1. APITypeOK'
  <2> DEFINE st == [call[c] EXCEPT !.pc = "done", !.code = code]
  <2>1. call' = [call EXCEPT ![c] = st]
    OBVIOUS
  <2>2. call[c] \in CallState
    OBVIOUS
  <2>3. st \in CallState
    BY <2>2 DEF CallState
  <2> HIDE DEF st
  <2> QED
    BY <2>1, <2>3
<1>2. CallsReady'
  BY DEF CallsReady, CallState
<1> QED
  BY <1>1, <1>2

(* The stored rows keep the types, and no row disappears. *)
LEMMA StoreCallShape ==
  ASSUME Shape, NEW c \in Call, call[c].pc = "store", StoreCall(c)
  PROVE  /\ StoreTypeOK'
         /\ \A e \in EventId : outbox[e] # None => outbox'[e] # None
<1>1. /\ call[c].shipment \in ShipmentId
      /\ call[c].event \in EventId
      /\ call[c].row \in ShipmentRow
  BY DEF Shape, CallsReady
<1>2. Event(c) \in Payload
  BY <1>1, CreatedPayload DEF Event
<1> DEFINE new == [shipment |-> call[c].shipment, payload |-> Event(c),
                   created |-> call[c].row.created, published |-> FALSE,
                   attempts |-> 0, last_error |-> FALSE]
<1>3. new \in OutboxRow
  BY <1>1, <1>2, CreatedRow
<1>4. /\ shipments' = [shipments EXCEPT ![call[c].shipment] = call[c].row]
      /\ outbox' = [outbox EXCEPT ![call[c].event] = new]
      /\ UNCHANGED <<processed, dispatches>>
  BY DEF StoreCall, CreateShipmentTx
<1>5. StoreTypeOK
  BY DEF Shape, TypeOK
<1> HIDE DEF new
<1>6. StoreTypeOK'
  BY <1>1, <1>3, <1>4, <1>5 DEF StoreTypeOK
<1>7. \A e \in EventId : outbox[e] # None => outbox'[e] # None
  BY <1>1, <1>3, <1>4, <1>5, RowAssumption DEF StoreTypeOK
<1> QED
  BY <1>6, <1>7

(* Relays and the broker keep what they know when rows are only added.     *)
LEMMA RowsStay ==
  ASSUME Shape, UNCHANGED <<relay, inflight>>,
         \A e \in EventId : outbox[e] # None => outbox'[e] # None
  PROVE  RelayTypeOK' /\ ClaimsHeld' /\ InflightStored'
<1>1. RelayTypeOK /\ ClaimsHeld /\ InflightStored
  BY DEF Shape, TypeOK
<1>2. \A r \in RelayProcess : /\ relay[r].batch \in Seq(EventId)
                              /\ relay[r].failed \in EventId \cup {None}
  BY <1>1 DEF RelayTypeOK, RelayState
<1>3. \A r \in RelayProcess : \A i \in 1..Len(relay[r].batch) :
        relay[r].batch[i] \in EventId
  BY <1>2
<1> QED
  BY <1>1, <1>2, <1>3 DEF RelayTypeOK, ClaimsHeld, BatchHeld, InflightStored

(* A step of a call keeps Shape. *)
LEMMA ShapeAPI ==
  ASSUME Shape, NEW c \in Call, CallStep(c), UNCHANGED <<kafkaVars, relay, member>>
  PROVE  Shape'
<1>0. /\ disturbances \in 0..MaxDisturbances /\ StoreTypeOK /\ KafkaTypeOK
      /\ ConsumerTypeOK /\ RecordsHeld /\ APITypeOK /\ CallsReady
  BY DEF Shape, TypeOK
<1>1. KafkaTypeOK' /\ ConsumerTypeOK' /\ RecordsHeld'
  BY <1>0 DEF kafkaVars, KafkaTypeOK, ConsumerTypeOK, RecordsHeld
<1>2. SUFFICES /\ Disturb \/ Undisturbed
               /\ StoreTypeOK' /\ APITypeOK' /\ CallsReady'
               /\ \A e \in EventId : outbox[e] # None => outbox'[e] # None
  <2>1. UNCHANGED <<relay, inflight>>
    BY DEF kafkaVars
  <2> QED
    BY <1>0, <1>1, <1>2, <2>1, DisturbanceType, RowsStay DEF Shape, TypeOK
<1>3. ASSUME UNCHANGED storeVars
      PROVE  /\ StoreTypeOK'
             /\ \A e \in EventId : outbox[e] # None => outbox'[e] # None
  BY <1>0, <1>3 DEF storeVars, StoreTypeOK
<1>4. ASSUME NEW w \in Weight, RefuseWeight(c, w) PROVE <1>2!1
  <2>1. Return(c, toStatus({"ErrInvalidWeight"})) /\ Undisturbed /\ UNCHANGED storeVars
    BY <1>4 DEF RefuseWeight
  <2> QED
    BY <1>0, <1>3, <2>1, StatusType, ReturnShape
<1>5. ASSUME NEW w \in Weight, NEW a, RefuseQuote(c, w, a) PROVE <1>2!1
  <2>1. Return(c, toStatus(Quoted(a).err)) /\ Undisturbed /\ UNCHANGED storeVars
    BY <1>5 DEF RefuseQuote
  <2> QED
    BY <1>0, <1>3, <2>1, StatusType, ReturnShape
<1>6. ASSUME NEW w \in Weight, NEW a \in FaultyAnswer \cup {post_quote(w)},
             NEW id \in NewShipmentID, NEW e \in NewEventID, NEW t \in Stamp,
             Price(c, w, a, id, e, t)
      PROVE  <1>2!1
  <2> DEFINE row == [weight |-> w, amount |-> Quoted(a).money.amount,
                     currency |-> Quoted(a).money.currency, created |-> t]
             new == [pc |-> "store", shipment |-> id, event |-> e, code |-> None,
                     row |-> row]
  <2>1. /\ Quoted(a).err = {} /\ call' = [call EXCEPT ![c] = new]
        /\ Undisturbed /\ UNCHANGED storeVars
    BY <1>6 DEF Price
  <2>2. w \in Int /\ id \in ShipmentId /\ e \in EventId /\ t \in Nat
    BY ShipmentAPIAssumption
  <2>3. a \in Answer
    BY <2>2, PostQuoteType, ShipmentAPIAssumption
  <2>4. row \in ShipmentRow
    BY <2>1, <2>2, <2>3, QuotedMoney, CurrencyAssumption DEF ShipmentRow
  <2> HIDE DEF row
  <2>5. new \in CallState
    BY <2>2, <2>4 DEF CallState
  <2>6. APITypeOK'
    BY <1>0, <2>1, <2>5 DEF APITypeOK
  <2>7. CallsReady'
    BY <1>0, <2>1, <2>2, <2>4 DEF APITypeOK, CallsReady
  <2> QED
    BY <1>3, <2>1, <2>6, <2>7
<1>7. ASSUME StoreShipment(c) PROVE <1>2!1
  <2>1. /\ call[c].pc = "store" /\ StoreCall(c)
        /\ Return(c, "OK") /\ Undisturbed
    BY <1>7 DEF StoreShipment
  <2>2. "OK" \in Code
    BY DEF Code
  <2> QED
    BY <1>0, <2>1, <2>2, StoreCallShape, ReturnShape
<1>8. ASSUME StoreRefused(c) PROVE <1>2!1
  <2>1. Return(c, toStatus({})) /\ Undisturbed /\ UNCHANGED storeVars
    BY <1>8 DEF StoreRefused
  <2> QED
    BY <1>0, <1>3, <2>1, StatusType, ReturnShape
<1>9. ASSUME StoreFails(c) PROVE <1>2!1
  <2>1. /\ call[c].pc = "store" /\ Disturb
        /\ StoreCall(c) \/ UNCHANGED storeVars
    BY <1>9 DEF StoreFails
  <2>2. PICK err \in StoreError : Return(c, toStatus(err))
    BY <1>9 DEF StoreFails
  <2> QED
    BY <1>0, <1>3, <2>1, <2>2, StatusType, ReturnShape, StoreCallShape
<1> QED
  BY <1>4, <1>5, <1>6, <1>7, <1>8, <1>9 DEF CallStep, CallStored, CallPriced
-----------------------------------------------------------------------------
RowsAdded == \A e \in EventId : outbox[e] # None => outbox'[e] # None

LogGrows ==
  \A p \in Partition :
    /\ Len(log[p]) <= Len(log'[p])
    /\ \A i \in 1..Len(log[p]) : log'[p][i] = log[p][i]

(* Appending a record to a partition changes no record before it.          *)
LEMMA WriteGrows ==
  ASSUME log \in [Partition -> Seq(Payload)],
         NEW p \in Partition, NEW payload \in Payload, Write(p, payload)
  PROVE  log' \in [Partition -> Seq(Payload)] /\ LogGrows
BY DEF Write, LogGrows

(* So does writing a stored event, which goes to its shipment's partition. *)
LEMMA WriteEventGrows ==
  ASSUME Shape, NEW e \in EventId, outbox[e] # None, WriteEvent(e)
  PROVE  log' \in [Partition -> Seq(Payload)] /\ LogGrows
<1>1. outbox[e].shipment \in ShipmentId /\ outbox[e].payload \in Payload
  BY DEF Shape, TypeOK, StoreTypeOK, OutboxRow
<1>2. PartitionOf[outbox[e].shipment] \in Partition
  BY <1>1, KafkaAssumption
<1>3. log \in [Partition -> Seq(Payload)]
  BY DEF Shape, TypeOK, KafkaTypeOK
<1> QED
  BY <1>1, <1>2, <1>3, WriteGrows DEF WriteEvent

(* A member keeps its record while the log grows. *)
LEMMA RecordsKept ==
  ASSUME Shape, UNCHANGED member, log' \in [Partition -> Seq(Payload)], LogGrows
  PROVE  ConsumerTypeOK' /\ RecordsHeld'
<1>1. ConsumerTypeOK /\ RecordsHeld /\ log \in [Partition -> Seq(Payload)]
  BY DEF Shape, TypeOK, KafkaTypeOK
<1>2. \A p \in Partition : Len(log'[p]) \in Nat
  OBVIOUS
<1>3. ASSUME NEW m \in Member PROVE RecordHeld(member[m], log')
  <2>1. CASE member[m].pc \in {"down", "idle"}
    BY <2>1 DEF RecordHeld
  <2>2. CASE member[m].pc \notin {"down", "idle"}
    <3>1. /\ member[m].part \in Partition
          /\ member[m].offset \in 1..Len(log[member[m].part])
      BY <1>1, <2>2 DEF RecordsHeld, RecordHeld
    <3>2. /\ Len(log[member[m].part]) <= Len(log'[member[m].part])
          /\ log'[member[m].part][member[m].offset] = log[member[m].part][member[m].offset]
      BY <3>1 DEF LogGrows
    <3>3. Len(log[member[m].part]) \in Nat
      BY <3>1, <1>1
    <3>4. member[m].offset \in 1..Len(log'[member[m].part])
      BY <1>2, <3>1, <3>2, <3>3
    <3> QED
      BY <1>1, <3>1, <3>2, <3>4 DEF RecordsHeld, RecordHeld
  <2> QED
    BY <2>1, <2>2
<1> QED
  BY <1>1, <1>3 DEF ConsumerTypeOK, RecordsHeld

(* What the two UPDATEs make of a row. *)
LEMMA UpdatedRow ==
  ASSUME NEW o \in OutboxRow, NEW n \in Nat
  PROVE  /\ [o EXCEPT !.published = TRUE, !.attempts = n, !.last_error = FALSE]
              \in OutboxRow
         /\ [o EXCEPT !.attempts = n, !.last_error = TRUE] \in OutboxRow
BY DEF OutboxRow

(* The two UPDATEs keep the rows' types and remove none.                   *)
LEMMA RecordResultShape ==
  ASSUME Shape, NEW r \in RelayProcess, RecordRelayResult(r)
  PROVE  /\ StoreTypeOK'
         /\ RowsAdded
         /\ \A e \in EventId : outbox'[e] # None => outbox[e] # None
<1>1. /\ StoreTypeOK /\ relay[r] \in RelayState
      /\ relay[r].acked <= Len(relay[r].batch)
      /\ \A i \in 1..Len(relay[r].batch) : outbox[relay[r].batch[i]] # None
      /\ relay[r].failed # None => outbox[relay[r].failed] # None
  BY DEF Shape, TypeOK, RelayTypeOK, ClaimsHeld, BatchHeld
<1>2. /\ \A e \in Published(r) : e \in EventId /\ outbox[e] # None
      /\ \A e \in Failed(r) : e \in EventId /\ outbox[e] # None
  BY <1>1 DEF Published, Failed, RelayState
<1>3. ASSUME NEW e \in EventId
      PROVE  /\ outbox'[e] \in OutboxRow \cup {None}
             /\ outbox[e] # None => outbox'[e] # None
             /\ outbox'[e] # None => outbox[e] # None
  <2>1. outbox'[e] =
          IF e \in Published(r)
          THEN [outbox[e] EXCEPT !.published = TRUE,
                                 !.attempts = outbox[e].attempts + 1,
                                 !.last_error = FALSE]
          ELSE IF e \in Failed(r)
          THEN [outbox[e] EXCEPT !.attempts = outbox[e].attempts + 1,
                                 !.last_error = TRUE]
          ELSE outbox[e]
    BY DEF RecordRelayResult, RecordResult
  <2>2. outbox[e] \in OutboxRow \cup {None}
    BY <1>1 DEF StoreTypeOK
  <2>3. CASE e \in Published(r)
    <3>1. outbox[e] \in OutboxRow
      BY <1>2, <2>2, <2>3
    <3>2. outbox[e].attempts + 1 \in Nat
      BY <3>1 DEF OutboxRow
    <3>3. outbox'[e] \in OutboxRow
      BY <2>1, <2>3, <3>1, <3>2, UpdatedRow
    <3> QED
      BY <1>2, <2>3, <3>3, RowAssumption
  <2>4. CASE e \notin Published(r) /\ e \in Failed(r)
    <3>1. outbox[e] \in OutboxRow
      BY <1>2, <2>2, <2>4
    <3>2. outbox[e].attempts + 1 \in Nat
      BY <3>1 DEF OutboxRow
    <3>3. outbox'[e] \in OutboxRow
      BY <2>1, <2>4, <3>1, <3>2, UpdatedRow
    <3> QED
      BY <1>2, <2>4, <3>3, RowAssumption
  <2>5. CASE e \notin Published(r) /\ e \notin Failed(r)
    BY <2>1, <2>2, <2>5
  <2> QED
    BY <2>3, <2>4, <2>5
<1>4. outbox' \in [EventId -> OutboxRow \cup {None}]
  BY <1>3 DEF RecordRelayResult, RecordResult
<1>5. StoreTypeOK'
  BY <1>1, <1>4 DEF StoreTypeOK, RecordRelayResult
<1> QED
  BY <1>3, <1>5 DEF RowsAdded

(* Relay r moves to state st, which satisfies its part of ClaimsHeld.      *)
LEMMA RelayMoves ==
  ASSUME Shape, NEW r \in RelayProcess, NEW st \in RelayState, RowsAdded,
         relay' = [relay EXCEPT ![r] = st], BatchHeld(st, outbox')
  PROVE  RelayTypeOK' /\ ClaimsHeld'
<1>1. RelayTypeOK /\ ClaimsHeld
  BY DEF Shape, TypeOK
<1>2. RelayTypeOK'
  BY <1>1 DEF RelayTypeOK
<1>3. ASSUME NEW q \in RelayProcess, q # r
      PROVE  BatchHeld(relay'[q], outbox')
  <2>1. relay'[q] = relay[q] /\ relay[q] \in RelayState
    BY <1>1, <1>3 DEF RelayTypeOK
  <2>2. /\ relay[q].failed \in EventId \cup {None}
        /\ \A i \in 1..Len(relay[q].batch) : relay[q].batch[i] \in EventId
    BY <2>1 DEF RelayState
  <2>3. BatchHeld(relay[q], outbox')
    BY <1>1, <2>2 DEF ClaimsHeld, BatchHeld, RowsAdded
  <2> QED
    BY <2>1, <2>3
<1>4. relay'[r] = st
  BY <1>1 DEF RelayTypeOK
<1>5. ClaimsHeld'
  BY <1>3, <1>4 DEF ClaimsHeld
<1> QED
  BY <1>2, <1>5

(* claimPending returns a sequence of stored events. *)
LEMMA ClaimedBatch ==
  ASSUME NEW b \in claimPending
  PROVE  /\ b \in Seq(EventId)
         /\ \A i \in 1..Len(b) : outbox[b[i]] # None
         /\ b # <<>> => Len(b) > 0
<1>1. PICK n \in 0..BatchSize : b \in [1..n -> Claimable]
  BY DEF claimPending
<1>2. n \in Nat /\ Len(b) = n /\ DOMAIN b = 1..n
  BY <1>1, BatchSizeAssumption
<1>3. \A i \in 1..n : b[i] \in EventId /\ outbox[b[i]] # None
  BY <1>1 DEF Claimable, Pending
<1>4. b \in Seq(EventId)
  BY <1>1, <1>2, <1>3
<1>5. n = 0 => b = <<>>
  BY <1>4, <1>2
<1> QED
  BY <1>2, <1>3, <1>4, <1>5

(* The doubled backoff stays below its cap. *)
LEMMA DoubledType == ASSUME NEW b \in 1..MaxBackoff PROVE Doubled(b) \in 1..MaxBackoff
BY DEF Doubled, MaxBackoff

(* r goes back to idle, or down, with any legal backoff. *)
LEMMA RelayRelents ==
  ASSUME Shape, NEW r \in RelayProcess, NEW pc \in {"down", "idle"},
         NEW b \in 1..MaxBackoff, RowsAdded,
         relay' = [relay EXCEPT ![r] = BetweenPolls(pc, b)]
  PROVE  RelayTypeOK' /\ ClaimsHeld'
<1> DEFINE st == BetweenPolls(pc, b)
<1>1. /\ st \in RelayState /\ st.pc = pc /\ st.batch = <<>> /\ st.acked = 0
      /\ st.failed = None
  BY RelayRests
<1> HIDE DEF st
<1>2. relay' = [relay EXCEPT ![r] = st]
  BY DEF st
<1> QED
  <2>1. BatchHeld(st, outbox')
    BY <1>1 DEF BatchHeld
  <2> QED
    BY <1>1, <1>2, <2>1, RelayMoves

(* An abandoned produce is of a stored event. *)
LEMMA AbandonShape ==
  ASSUME Shape, RowsAdded, NEW e \in EventId, outbox[e] # None, Abandon(e)
  PROVE  inflight' \in [EventId -> Nat] /\ InflightStored'
<1>1. inflight \in [EventId -> Nat] /\ InflightStored
  BY DEF Shape, TypeOK, KafkaTypeOK
<1>2. CASE UNCHANGED inflight
  BY <1>1, <1>2 DEF InflightStored, RowsAdded
<1>3. CASE inflight' = [inflight EXCEPT ![e] = @ + 1]
  <2>1. inflight' \in [EventId -> Nat]
    BY <1>1, <1>3
  <2>2. \A d \in EventId : d # e => inflight'[d] = inflight[d]
    BY <1>1, <1>3
  <2> QED
    BY <1>1, <2>1, <2>2 DEF InflightStored, RowsAdded
<1> QED
  BY <1>2, <1>3 DEF Abandon

(* One more event of the batch is acknowledged. *)
LEMMA AckedState ==
  ASSUME NEW st \in RelayState
  PROVE  /\ AfterAck(st) \in RelayState
         /\ AfterAck(st).batch = st.batch
         /\ AfterAck(st).acked = st.acked + 1
         /\ AfterAck(st).failed = st.failed
         /\ AfterAck(st).pc \in {"publish", "mark"}
         /\ AfterAck(st).pc = "publish" => st.acked + 1 # Len(st.batch)
<1> DEFINE pc == IF st.acked + 1 = Len(st.batch) THEN "mark" ELSE "publish"
<1>1. AfterAck(st) = [st EXCEPT !.acked = st.acked + 1, !.pc = pc]
  BY DEF AfterAck
<1>2. pc \in {"publish", "mark"} /\ (pc = "publish" => st.acked + 1 # Len(st.batch))
  OBVIOUS
<1>3. st.acked + 1 \in Nat
  BY DEF RelayState
<1> HIDE DEF pc
<1> DEFINE n == st.acked + 1
           new == [st EXCEPT !.acked = n, !.pc = pc]
<1> HIDE DEF n
<1>4. n \in Nat /\ AfterAck(st) = new
  BY <1>1, <1>3 DEF n
<1>5. /\ new \in RelayState
      /\ new.batch = st.batch /\ new.acked = n
      /\ new.failed = st.failed /\ new.pc = pc
  BY <1>2, <1>4 DEF RelayState
<1> HIDE DEF new
<1> QED
  BY <1>2, <1>4, <1>5 DEF n

(* A step of a relay keeps Shape. *)
LEMMA ShapeRelay ==
  ASSUME Shape, NEW r \in RelayProcess, RelayStep(r), UNCHANGED <<member, call>>
  PROVE  Shape'
<1> DEFINE me == relay[r]
<1>0. /\ disturbances \in 0..MaxDisturbances /\ StoreTypeOK /\ KafkaTypeOK
      /\ RelayTypeOK /\ APITypeOK /\ CallsReady /\ InflightStored /\ ClaimsHeld
  BY DEF Shape, TypeOK
<1>1. APITypeOK' /\ CallsReady'
  BY <1>0 DEF APITypeOK, CallsReady
<1>2. SUFFICES /\ Disturb \/ Undisturbed
               /\ StoreTypeOK' /\ KafkaTypeOK' /\ LogGrows /\ InflightStored'
               /\ RelayTypeOK' /\ ClaimsHeld'
  BY <1>0, <1>1, <1>2, DisturbanceType, RecordsKept DEF Shape, TypeOK, KafkaTypeOK
<1>3. ASSUME UNCHANGED storeVars PROVE StoreTypeOK' /\ RowsAdded
  BY <1>0, <1>3 DEF storeVars, StoreTypeOK, RowsAdded
<1>4. ASSUME UNCHANGED log PROVE LogGrows
  BY <1>0, <1>4 DEF LogGrows, KafkaTypeOK
<1>5. ASSUME UNCHANGED kafkaVars, RowsAdded
      PROVE  KafkaTypeOK' /\ LogGrows /\ InflightStored'
  BY <1>0, <1>4, <1>5 DEF kafkaVars, KafkaTypeOK, InflightStored, RowsAdded
<1>6. /\ me \in RelayState /\ me.backoff \in 1..MaxBackoff
      /\ me.batch \in Seq(EventId) /\ me.acked \in Nat
      /\ 1 \in 1..MaxBackoff
  BY <1>0 DEF RelayTypeOK, RelayState, MaxBackoff
<1>7. ASSUME me.pc = "publish"
      PROVE  /\ me.acked < Len(me.batch)
             /\ Current(r) \in EventId /\ outbox[Current(r)] # None
  <2>1. me.acked < Len(me.batch)
    BY <1>0, <1>7 DEF ClaimsHeld, BatchHeld
  <2>2. me.acked + 1 \in 1..Len(me.batch)
    BY <2>1, <1>6
  <2> QED
    BY <1>0, <1>6, <2>1, <2>2 DEF ClaimsHeld, BatchHeld, Current
<1>8. CASE Claim(r)
  <2>1. PICK b \in claimPending :
          relay' = [relay EXCEPT ![r] =
                      IF b = <<>> THEN Idle(1)
                      ELSE [relay[r] EXCEPT !.pc = "publish", !.batch = b]]
    BY <1>8 DEF Claim
  <2>2. Undisturbed /\ UNCHANGED storeVars /\ UNCHANGED kafkaVars /\ me.pc = "idle"
    BY <1>8 DEF Claim
  <2>3. CASE b = <<>>
    <3>1. relay' = [relay EXCEPT ![r] = BetweenPolls("idle", 1)]
      BY <2>1, <2>3 DEF Idle
    <3> QED
      BY <1>3, <1>5, <1>6, <2>2, <3>1, RelayRelents
  <2>4. CASE b # <<>>
    <3> DEFINE st == [me EXCEPT !.pc = "publish", !.batch = b]
    <3>1. relay' = [relay EXCEPT ![r] = st]
      BY <2>1, <2>4
    <3>2. b \in Seq(EventId) /\ Len(b) > 0 /\ \A i \in 1..Len(b) : outbox[b[i]] # None
      BY <2>4, ClaimedBatch
    <3>3. me.acked = 0 /\ me.failed = None
      BY <1>0, <2>2 DEF ClaimsHeld, BatchHeld
    <3>4. /\ st \in RelayState /\ st.pc = "publish" /\ st.batch = b /\ st.acked = 0
          /\ st.failed = None
      BY <1>6, <3>2, <3>3 DEF RelayState
    <3> HIDE DEF st
    <3>5. outbox' = outbox
      BY <2>2 DEF storeVars
    <3>6. BatchHeld(st, outbox')
      BY <3>2, <3>4, <3>5 DEF BatchHeld
    <3>7. RelayTypeOK' /\ ClaimsHeld'
      BY <1>3, <2>2, <3>1, <3>4, <3>6, RelayMoves
    <3> QED
      BY <1>3, <1>5, <2>2, <3>7
  <2> QED
    BY <2>3, <2>4
<1>9. CASE ClaimFails(r)
  <2>1. /\ Disturb /\ UNCHANGED storeVars /\ UNCHANGED kafkaVars
        /\ relay' = [relay EXCEPT ![r] = BetweenPolls("idle", Doubled(relay[r].backoff))]
    BY <1>9 DEF ClaimFails, Idle
  <2> QED
    BY <1>3, <1>5, <1>6, <2>1, DoubledType, RelayRelents
<1>10. CASE Publish(r)
  <2> DEFINE st == AfterAck(me)
  <2>1. /\ Undisturbed /\ UNCHANGED storeVars /\ UNCHANGED inflight
        /\ UNCHANGED groupVars /\ me.pc = "publish" /\ WriteEvent(Current(r))
        /\ relay' = [relay EXCEPT ![r] = st]
    BY <1>10 DEF Publish
  <2>2. log' \in [Partition -> Seq(Payload)] /\ LogGrows
    BY <1>7, <2>1, WriteEventGrows
  <2>3. KafkaTypeOK' /\ InflightStored'
    BY <1>0, <1>3, <2>1, <2>2
       DEF KafkaTypeOK, groupVars, InflightStored, RowsAdded
  <2>4. me.failed = None
    BY <1>0, <2>1 DEF ClaimsHeld, BatchHeld
  <2>5. /\ st \in RelayState /\ st.batch = me.batch /\ st.acked = me.acked + 1
        /\ st.failed = None /\ st.pc \in {"publish", "mark"}
        /\ st.pc = "publish" => me.acked + 1 # Len(me.batch)
    BY <1>6, <2>4, AckedState
  <2>6. Len(me.batch) \in Nat /\ me.acked < Len(me.batch)
    BY <1>6, <1>7, <2>1
  <2>7. outbox' = outbox /\ \A i \in 1..Len(me.batch) : outbox[me.batch[i]] # None
    BY <1>0, <2>1 DEF storeVars, ClaimsHeld, BatchHeld
  <2> HIDE DEF st
  <2>8. BatchHeld(st, outbox')
    BY <1>6, <2>5, <2>6, <2>7 DEF BatchHeld
  <2>9. RelayTypeOK' /\ ClaimsHeld'
    BY <1>3, <2>1, <2>5, <2>8, RelayMoves
  <2> QED
    BY <1>3, <2>1, <2>2, <2>3, <2>9
<1>11. CASE PublishFails(r)
  <2> DEFINE st == [me EXCEPT !.pc = "mark", !.failed = Current(r)]
  <2>1. /\ UNCHANGED storeVars /\ UNCHANGED log /\ UNCHANGED groupVars
        /\ me.pc = "publish" /\ relay' = [relay EXCEPT ![r] = st]
        /\ Disturb \/ Undisturbed
        /\ Abandon(Current(r))
    BY <1>11 DEF PublishFails, Abandon
  <2>2. KafkaTypeOK' /\ InflightStored'
    BY <1>0, <1>3, <1>7, <2>1, AbandonShape DEF KafkaTypeOK, groupVars
  <2>3. /\ st \in RelayState /\ st.batch = me.batch /\ st.acked = me.acked
        /\ st.failed = Current(r) /\ st.pc = "mark"
    BY <1>6, <1>7, <2>1 DEF RelayState
  <2>4. outbox' = outbox /\ \A i \in 1..Len(me.batch) : outbox[me.batch[i]] # None
    BY <1>0, <2>1 DEF storeVars, ClaimsHeld, BatchHeld
  <2> HIDE DEF st
  <2>5. BatchHeld(st, outbox')
    BY <1>6, <1>7, <2>1, <2>3, <2>4 DEF BatchHeld
  <2>6. RelayTypeOK' /\ ClaimsHeld'
    BY <1>3, <2>1, <2>3, <2>5, RelayMoves
  <2> QED
    BY <1>3, <1>4, <2>1, <2>2, <2>6
<1>12. CASE Commit(r)
  <2> DEFINE b == IF me.failed # None THEN Doubled(me.backoff) ELSE 1
  <2>1. /\ Undisturbed /\ UNCHANGED kafkaVars /\ RecordRelayResult(r)
        /\ relay' = [relay EXCEPT ![r] = BetweenPolls("idle", b)]
    BY <1>12 DEF Commit, Idle
  <2>2. b \in 1..MaxBackoff
    BY <1>6, DoubledType
  <2> HIDE DEF b
  <2> QED
    BY <1>5, <2>1, <2>2, RecordResultShape, RelayRelents
<1>13. CASE CommitFails(r)
  <2>1. /\ Disturb /\ UNCHANGED kafkaVars
        /\ RecordRelayResult(r) \/ UNCHANGED storeVars
        /\ relay' = [relay EXCEPT ![r] = BetweenPolls("idle", Doubled(relay[r].backoff))]
    BY <1>13 DEF CommitFails, Idle
  <2>2. StoreTypeOK' /\ RowsAdded
    BY <1>3, <2>1, RecordResultShape
  <2>3. RelayTypeOK' /\ ClaimsHeld'
    BY <1>6, <2>1, <2>2, DoubledType, RelayRelents
  <2> QED
    BY <1>5, <2>1, <2>2, <2>3
<1>14. CASE StopRelay(r)
  <2>1. /\ Disturb /\ UNCHANGED log /\ UNCHANGED groupVars
        /\ RecordRelayResult(r) \/ UNCHANGED storeVars
        /\ relay' = [relay EXCEPT ![r] = BetweenPolls("down", 1)]
        /\ IF me.pc = "publish" THEN Abandon(Current(r)) ELSE UNCHANGED inflight
    BY <1>14 DEF StopRelay, Down
  <2>2. StoreTypeOK' /\ RowsAdded
    BY <1>3, <2>1, RecordResultShape
  <2>3. inflight' \in [EventId -> Nat] /\ InflightStored'
    <3>1. CASE me.pc = "publish"
      BY <1>7, <2>1, <2>2, <3>1, AbandonShape
    <3>2. CASE me.pc # "publish"
      BY <1>0, <2>1, <2>2, <3>2 DEF KafkaTypeOK, InflightStored, RowsAdded
    <3> QED
      BY <3>1, <3>2
  <2>4. KafkaTypeOK'
    BY <1>0, <2>1, <2>3 DEF KafkaTypeOK, groupVars
  <2> QED
    BY <1>4, <1>6, <2>1, <2>2, <2>3, <2>4, RelayRelents
<1>15. CASE StartRelay(r)
  <2>1. /\ Undisturbed /\ UNCHANGED storeVars /\ UNCHANGED kafkaVars
        /\ relay' = [relay EXCEPT ![r] = BetweenPolls("idle", 1)]
    BY <1>15 DEF StartRelay, Idle
  <2> QED
    BY <1>3, <1>5, <1>6, <2>1, RelayRelents
<1>16. CASE SessionLost(r)
  <2>1. /\ Disturb /\ UNCHANGED storeVars /\ UNCHANGED log /\ UNCHANGED groupVars
        /\ inflight' = [e \in EventId |->
                          inflight[e] + IF e \in Remaining(r) THEN 1 ELSE 0]
        /\ relay' = [relay EXCEPT ![r] = BetweenPolls("idle", Doubled(relay[r].backoff))]
    BY <1>16 DEF SessionLost, Idle
  <2>2. inflight \in [EventId -> Nat] /\ InflightStored
    BY <1>0 DEF KafkaTypeOK
  <2>3. \A e \in Remaining(r) : outbox[e] # None
    BY <1>0, <1>6
       DEF Remaining, LockedBy, Elements, ClaimsHeld, BatchHeld
  <2>4. inflight' \in [EventId -> Nat]
    BY <2>1, <2>2
  <2>5. \A e \in EventId : e \notin Remaining(r) => inflight'[e] = inflight[e]
    BY <2>1, <2>2
  <2>6. outbox' = outbox
    BY <2>1 DEF storeVars
  <2>7. InflightStored'
    BY <2>2, <2>3, <2>5, <2>6 DEF InflightStored
  <2>8. KafkaTypeOK'
    BY <1>0, <2>1, <2>4 DEF KafkaTypeOK, groupVars
  <2> QED
    BY <1>3, <1>4, <1>6, <2>1, <2>7, <2>8, DoubledType, RelayRelents
<1> QED
  BY <1>8, <1>9, <1>10, <1>11, <1>12, <1>13, <1>14, <1>15, <1>16
     DEF RelayStep, RelayWorks, RelayDisturbed
-----------------------------------------------------------------------------
(* Member m moves to state st, which satisfies its part of RecordsHeld.    *)
LEMMA MemberMoves ==
  ASSUME Shape, NEW m \in Member, NEW st \in MemberState, UNCHANGED log,
         member' = [member EXCEPT ![m] = st], RecordHeld(st, log)
  PROVE  ConsumerTypeOK' /\ RecordsHeld'
<1>1. ConsumerTypeOK /\ RecordsHeld
  BY DEF Shape, TypeOK
<1>2. ConsumerTypeOK'
  BY <1>1 DEF ConsumerTypeOK
<1>3. \A n \in Member : RecordHeld(member'[n], log)
  BY <1>1 DEF ConsumerTypeOK, RecordsHeld
<1> QED
  BY <1>2, <1>3 DEF RecordsHeld

(* A member that is down or idle holds no record. *)
LEMMA RestingType ==
  ASSUME NEW pc \in {"down", "idle"}
  PROVE  /\ Resting(pc) \in MemberState /\ Resting(pc).pc = pc
         /\ RecordHeld(Resting(pc), log)
<1>1. Resting(pc) \in MemberState /\ Resting(pc).pc = pc
  BY MaxAttemptsAssumption DEF Resting, MemberState
<1> QED
  BY <1>1 DEF RecordHeld

(* The process ends and its partitions are free. *)
LEMMA ExitShape ==
  ASSUME Shape, NEW m \in Member, UNCHANGED log, Exit(m)
  PROVE  /\ ConsumerTypeOK' /\ RecordsHeld'
         /\ owner' \in [Partition -> Member \cup {None}]
<1>1. member' = [member EXCEPT ![m] = Resting("down")] /\ Release(m)
  BY DEF Exit
<1>2. owner \in [Partition -> Member \cup {None}]
  BY DEF Shape, TypeOK, KafkaTypeOK
<1>3. owner' \in [Partition -> Member \cup {None}]
  BY <1>1, <1>2 DEF Release
<1> QED
  BY <1>1, <1>3, RestingType, MemberMoves

(* A member that only moves its program counter. *)
LEMMA GotoShape ==
  ASSUME Shape, NEW m \in Member, UNCHANGED log,
         NEW pc \in {"idle", "dispatch", "commit", "offset"}, Goto(m, pc),
         pc # "idle" => Busy(m) /\ Decodes(Record(m))
  PROVE  ConsumerTypeOK' /\ RecordsHeld'
<1> DEFINE st == [member[m] EXCEPT !.pc = pc]
<1>1. member' = [member EXCEPT ![m] = st]
  BY DEF Goto
<1>2. member[m] \in MemberState /\ RecordHeld(member[m], log)
  BY DEF Shape, TypeOK, ConsumerTypeOK, RecordsHeld
<1>3. /\ st \in MemberState /\ st.pc = pc /\ st.part = member[m].part
      /\ st.offset = member[m].offset
  BY <1>2 DEF MemberState
<1> HIDE DEF st
<1>4. RecordHeld(st, log)
  BY <1>2, <1>3 DEF RecordHeld, Busy, Record
<1> QED
  BY <1>1, <1>3, <1>4, MemberMoves

(* A member that keeps its record and tries again, or ends. *)
LEMMA RetryShape ==
  ASSUME Shape, NEW m \in Member, UNCHANGED log, Busy(m), RetryOrGiveUp(m)
  PROVE  /\ ConsumerTypeOK' /\ RecordsHeld'
         /\ owner' \in [Partition -> Member \cup {None}]
<1>1. CASE Exit(m)
  BY <1>1, ExitShape
<1>2. CASE /\ member[m].attempt < MaxAttempts
           /\ member' = [member EXCEPT ![m].pc = "handle", ![m].attempt = @ + 1]
           /\ UNCHANGED owner
  <2> DEFINE n == member[m].attempt + 1
             st == [member[m] EXCEPT !.pc = "handle", !.attempt = n]
  <2>1. member' = [member EXCEPT ![m] = st]
    BY <1>2
  <2>2. member[m] \in MemberState /\ RecordHeld(member[m], log)
    BY DEF Shape, TypeOK, ConsumerTypeOK, RecordsHeld
  <2>3. n \in 0..MaxAttempts
    BY <1>2, <2>2, MaxAttemptsAssumption DEF MemberState
  <2> HIDE DEF n
  <2>4. /\ st \in MemberState /\ st.pc = "handle" /\ st.part = member[m].part
        /\ st.offset = member[m].offset
    BY <2>2, <2>3 DEF MemberState
  <2> HIDE DEF st
  <2>5. RecordHeld(st, log)
    BY <2>2, <2>4 DEF RecordHeld, Busy
  <2>6. owner' \in [Partition -> Member \cup {None}]
    BY <1>2 DEF Shape, TypeOK, KafkaTypeOK
  <2> QED
    BY <2>1, <2>4, <2>5, <2>6, MemberMoves
<1> QED
  BY <1>1, <1>2 DEF RetryOrGiveUp

(* The dispatch transaction writes rows of the tables' types.              *)
LEMMA DispatchTxShape ==
  ASSUME Shape, NEW m \in Member, member[m].pc = "commit", RecordDispatchTx(Record(m))
  PROVE  StoreTypeOK' /\ UNCHANGED <<shipments, outbox>>
<1>1. RecordHeld(member[m], log) /\ StoreTypeOK /\ log \in [Partition -> Seq(Payload)]
  BY DEF Shape, TypeOK, RecordsHeld, KafkaTypeOK
<1>2. /\ member[m].part \in Partition /\ Decodes(Record(m))
      /\ member[m].offset \in 1..Len(log[member[m].part])
  BY <1>1 DEF RecordHeld, Record
<1>3. Record(m) \in Payload
  BY <1>1, <1>2 DEF Record
<1> DEFINE row == [shipment |-> Record(m).shipment_id, event |-> Record(m).event_id,
                   amount |-> Record(m).amount, currency |-> Record(m).currency]
<1>4. row \in DispatchRow /\ Record(m).event_id \in EventId
  BY <1>2, <1>3, DecodedFields DEF DispatchRow
<1>5. /\ processed' = processed \cup {Record(m).event_id}
      /\ dispatches' = Append(dispatches, row)
      /\ UNCHANGED <<shipments, outbox>>
  BY DEF RecordDispatchTx
<1> HIDE DEF row
<1> QED
  BY <1>1, <1>4, <1>5 DEF StoreTypeOK

(* A step of a consumer keeps Shape. *)
LEMMA ShapeConsumer ==
  ASSUME Shape, NEW m \in Member, MemberStep(m), UNCHANGED <<relay, call>>
  PROVE  Shape'
<1>0. /\ disturbances \in 0..MaxDisturbances /\ StoreTypeOK /\ KafkaTypeOK
      /\ ConsumerTypeOK /\ RecordsHeld /\ APITypeOK /\ CallsReady
  BY DEF Shape, TypeOK
<1>1. APITypeOK' /\ CallsReady'
  BY <1>0 DEF APITypeOK, CallsReady
<1>2. SUFFICES /\ Disturb \/ Undisturbed
               /\ UNCHANGED <<outbox, log, inflight>> /\ StoreTypeOK'
               /\ committed' \in [Partition -> Nat]
               /\ owner' \in [Partition -> Member \cup {None}]
               /\ position' \in [Partition -> Nat]
               /\ ConsumerTypeOK' /\ RecordsHeld'
  <2>1. RelayTypeOK' /\ ClaimsHeld' /\ InflightStored'
    BY <1>2, RowsStay
  <2> QED
    BY <1>0, <1>1, <1>2, <2>1, DisturbanceType DEF Shape, TypeOK, KafkaTypeOK
<1>3. ASSUME UNCHANGED storeVars PROVE StoreTypeOK' /\ UNCHANGED outbox
  BY <1>0, <1>3 DEF storeVars, StoreTypeOK
<1>4. ASSUME UNCHANGED owner PROVE owner' \in [Partition -> Member \cup {None}]
  BY <1>0, <1>4 DEF KafkaTypeOK
<1>5. ASSUME UNCHANGED committed PROVE committed' \in [Partition -> Nat]
  BY <1>0, <1>5 DEF KafkaTypeOK
<1>6. ASSUME UNCHANGED position PROVE position' \in [Partition -> Nat]
  BY <1>0, <1>6 DEF KafkaTypeOK
<1>7. ASSUME UNCHANGED <<log, member>> PROVE ConsumerTypeOK' /\ RecordsHeld'
  BY <1>0, <1>7 DEF ConsumerTypeOK, RecordsHeld
<1>8. ASSUME Busy(m), MoveOffset(m) PROVE committed' \in [Partition -> Nat]
  <2>1. member[m].part \in Partition /\ member[m].offset \in Nat
    BY <1>0, <1>8 DEF RecordsHeld, RecordHeld, Busy, ConsumerTypeOK, MemberState
  <2> QED
    BY <1>0, <1>8, <2>1 DEF MoveOffset, KafkaTypeOK
<1>9. ASSUME UNCHANGED kafkaVars
      PROVE  /\ UNCHANGED inflight /\ committed' \in [Partition -> Nat]
             /\ owner' \in [Partition -> Member \cup {None}]
             /\ position' \in [Partition -> Nat]
  BY <1>0, <1>9 DEF kafkaVars, KafkaTypeOK
<1>10. CASE StartMember(m)
  <2>1. /\ Goto(m, "idle") /\ Undisturbed /\ UNCHANGED storeVars /\ UNCHANGED kafkaVars
        /\ UNCHANGED log
    BY <1>10 DEF StartMember, kafkaVars
  <2> QED
    BY <1>3, <1>9, <2>1, GotoShape
<1>11. ASSUME NEW p \in Partition, Assign(m, p) PROVE <1>2!1
  <2>1. owner' \in [Partition -> Member \cup {None}] /\ position' \in [Partition -> Nat]
    BY <1>0, <1>11 DEF Assign, KafkaTypeOK
  <2> QED
    BY <1>3, <1>5, <1>7, <1>11, <2>1 DEF Assign
<1>12. ASSUME NEW p \in Partition, Revoke(m, p) PROVE <1>2!1
  <2>1. owner' \in [Partition -> Member \cup {None}]
    BY <1>0, <1>12 DEF Revoke, KafkaTypeOK
  <2> QED
    BY <1>3, <1>5, <1>6, <1>7, <1>12, <2>1 DEF Revoke
<1>13. CASE Remove(m)
  <2>1. owner' \in [Partition -> Member \cup {None}]
    BY <1>0, <1>13 DEF Remove, Release, KafkaTypeOK
  <2> QED
    BY <1>3, <1>5, <1>6, <1>7, <1>13, <2>1 DEF Remove
<1>14. ASSUME NEW p \in Partition, Poll(m, p) PROVE <1>2!1
  <2> DEFINE n == position[p] + 1
             st == [pc |-> "handle", part |-> p, offset |-> n, attempt |-> 1]
  <2>1. /\ Undisturbed /\ UNCHANGED storeVars
        /\ UNCHANGED <<log, inflight, committed, owner>>
        /\ position[p] < Len(log[p])
        /\ position' = [position EXCEPT ![p] = @ + 1]
        /\ member' = [member EXCEPT ![m] = st]
    BY <1>14 DEF Poll
  <2>2. position[p] \in Nat /\ Len(log[p]) \in Nat
    BY <1>0 DEF KafkaTypeOK
  <2>3. n \in 1..Len(log[p]) /\ n \in Nat /\ position' \in [Partition -> Nat]
    BY <1>0, <2>1, <2>2 DEF KafkaTypeOK
  <2> HIDE DEF n
  <2>4. /\ st \in MemberState /\ st.pc = "handle" /\ st.part = p /\ st.offset = n
    BY <2>3, MaxAttemptsAssumption DEF MemberState
  <2> HIDE DEF st
  <2>5. RecordHeld(st, log)
    BY <2>3, <2>4 DEF RecordHeld
  <2>6. ConsumerTypeOK' /\ RecordsHeld'
    BY <2>1, <2>4, <2>5, MemberMoves
  <2> QED
    BY <1>3, <1>4, <1>5, <2>1, <2>3, <2>6
<1>15. CASE Reject(m)
  BY <1>3, <1>5, <1>6, <1>15, ExitShape DEF Reject
<1>16. CASE InsertProcessed(m)
  <2>1. PICK pc \in {"dispatch", "offset"} : Goto(m, pc)
    BY <1>16 DEF InsertProcessed
  <2>2. /\ Undisturbed /\ UNCHANGED storeVars /\ UNCHANGED kafkaVars
        /\ UNCHANGED log /\ Busy(m) /\ Decodes(Record(m))
    BY <1>16 DEF InsertProcessed, kafkaVars, Busy
  <2> QED
    BY <1>3, <1>9, <2>1, <2>2, GotoShape
<1>17. ASSUME member[m].pc \in {"dispatch", "commit", "offset"}
       PROVE  Busy(m) /\ Decodes(Record(m))
  BY <1>0, <1>17 DEF Busy, Record, RecordsHeld, RecordHeld
<1>18. CASE InsertDispatch(m)
  <2>1. /\ Undisturbed /\ UNCHANGED storeVars /\ UNCHANGED kafkaVars
        /\ UNCHANGED log /\ member[m].pc = "dispatch" /\ Goto(m, "commit")
    BY <1>18 DEF InsertDispatch, AtDispatch, kafkaVars
  <2> QED
    BY <1>3, <1>9, <1>17, <2>1, GotoShape
<1>19. CASE Conflict(m)
  BY <1>3, <1>5, <1>6, <1>19, ExitShape DEF Conflict
<1>20. CASE Orphan(m)
  <2>1. Busy(m) /\ RetryOrGiveUp(m)
    BY <1>20, <1>17 DEF Orphan, AtDispatch
  <2> QED
    BY <1>3, <1>5, <1>6, <1>20, <2>1, RetryShape DEF Orphan
<1>21. CASE CommitTx(m)
  <2>1. /\ Undisturbed /\ UNCHANGED kafkaVars /\ UNCHANGED log
        /\ member[m].pc = "commit" /\ Goto(m, "offset") /\ RecordDispatchTx(Record(m))
    BY <1>21 DEF CommitTx, kafkaVars
  <2>2. StoreTypeOK' /\ UNCHANGED outbox
    BY <2>1, DispatchTxShape
  <2> QED
    BY <1>9, <1>17, <2>1, <2>2, GotoShape
<1>22. ASSUME CommittedUnseen(m) \/ UNCHANGED storeVars
       PROVE  StoreTypeOK' /\ UNCHANGED outbox
  BY <1>3, <1>22, DispatchTxShape DEF CommittedUnseen
<1>23. ASSUME OffsetMovedUnseen(m) \/ UNCHANGED committed
       PROVE  committed' \in [Partition -> Nat]
  BY <1>5, <1>8, <1>17, <1>23 DEF OffsetMovedUnseen
<1>24. CASE StorageFails(m)
  <2>1. /\ Busy(m) /\ RetryOrGiveUp(m) /\ Disturb
        /\ UNCHANGED <<log, inflight, committed, position>>
        /\ CommittedUnseen(m) \/ UNCHANGED storeVars
    BY <1>24 DEF StorageFails, Busy
  <2> QED
    BY <1>5, <1>6, <1>22, <2>1, RetryShape
<1>25. CASE CommitOffset(m)
  <2>1. /\ Undisturbed /\ UNCHANGED storeVars
        /\ UNCHANGED <<log, inflight, owner, position>>
        /\ Busy(m) /\ MoveOffset(m)
        /\ member' = [member EXCEPT ![m] = Resting("idle")]
    BY <1>25, <1>17 DEF CommitOffset
  <2>2. ConsumerTypeOK' /\ RecordsHeld'
    BY <2>1, RestingType, MemberMoves
  <2> QED
    BY <1>3, <1>4, <1>6, <1>8, <2>1, <2>2
<1>26. CASE OffsetFenced(m)
  BY <1>3, <1>5, <1>6, <1>26, ExitShape DEF OffsetFenced
<1>27. CASE OffsetFails(m)
  BY <1>3, <1>6, <1>23, <1>27, ExitShape DEF OffsetFails
<1>28. CASE StopMember(m)
  BY <1>6, <1>22, <1>23, <1>28, ExitShape DEF StopMember
<1> QED
  BY <1>10, <1>11, <1>12, <1>13, <1>14, <1>15, <1>16, <1>18, <1>19, <1>20, <1>21,
     <1>24, <1>25, <1>26, <1>27, <1>28
     DEF MemberStep, MemberWorks, MemberDisturbed
-----------------------------------------------------------------------------
(* Records written from outside the relays keep Shape. *)
LEMMA ShapeOutside ==
  ASSUME Shape, OutsideNext
  PROVE  Shape'
<1>0. /\ disturbances \in 0..MaxDisturbances /\ StoreTypeOK /\ KafkaTypeOK
      /\ RelayTypeOK /\ APITypeOK /\ CallsReady /\ InflightStored /\ ClaimsHeld
  BY DEF Shape, TypeOK
<1>1. SUFFICES /\ Disturb \/ Undisturbed
               /\ UNCHANGED storeVars /\ UNCHANGED groupVars
               /\ UNCHANGED <<relay, member, call>>
               /\ log' \in [Partition -> Seq(Payload)] /\ LogGrows
               /\ inflight' \in [EventId -> Nat] /\ InflightStored'
  <2>1. KafkaTypeOK'
    BY <1>0, <1>1 DEF groupVars, KafkaTypeOK
  <2>2. StoreTypeOK' /\ RelayTypeOK' /\ ClaimsHeld' /\ APITypeOK' /\ CallsReady'
    BY <1>0, <1>1
       DEF storeVars, StoreTypeOK, RelayTypeOK, ClaimsHeld, APITypeOK, CallsReady
  <2>3. ConsumerTypeOK' /\ RecordsHeld'
    BY <1>1, RecordsKept
  <2> QED
    BY <1>0, <1>1, <2>1, <2>2, <2>3, DisturbanceType DEF Shape, TypeOK
<1>2. ASSUME UNCHANGED log PROVE log' \in [Partition -> Seq(Payload)] /\ LogGrows
  BY <1>0, <1>2 DEF LogGrows, KafkaTypeOK
<1>3. ASSUME UNCHANGED storeVars PROVE RowsAdded /\ UNCHANGED outbox
  BY <1>3 DEF RowsAdded, storeVars
<1>4. ASSUME NEW e \in EventId, LateWrite(e) PROVE <1>1!1
  <2>1. /\ inflight[e] > 0 /\ inflight' = [inflight EXCEPT ![e] = @ - 1]
        /\ WriteEvent(e) /\ UNCHANGED groupVars /\ Undisturbed
        /\ UNCHANGED storeVars /\ UNCHANGED <<relay, member, call>>
    BY <1>4 DEF LateWrite, Land
  <2>2. outbox[e] # None
    BY <1>0, <2>1 DEF InflightStored
  <2>3. log' \in [Partition -> Seq(Payload)] /\ LogGrows
    BY <2>1, <2>2, WriteEventGrows
  <2>4. /\ inflight' \in [EventId -> Nat]
        /\ \A d \in EventId : d # e => inflight'[d] = inflight[d]
    BY <1>0, <2>1 DEF KafkaTypeOK
  <2>5. InflightStored'
    BY <1>0, <1>3, <2>1, <2>2, <2>4 DEF InflightStored
  <2> QED
    BY <2>1, <2>3, <2>4, <2>5
<1>5. ASSUME NEW e \in EventId, Replay(e) PROVE <1>1!1
  <2>1. /\ outbox[e] # None /\ Disturb
        /\ UNCHANGED groupVars /\ UNCHANGED storeVars /\ UNCHANGED <<relay, member, call>>
    BY <1>5 DEF Replay
  <2>2. CASE WriteEvent(e) /\ UNCHANGED inflight
    <3>1. log' \in [Partition -> Seq(Payload)] /\ LogGrows
      BY <2>1, <2>2, WriteEventGrows
    <3>2. inflight' \in [EventId -> Nat] /\ InflightStored'
      BY <1>0, <1>3, <2>1, <2>2 DEF KafkaTypeOK, InflightStored
    <3> QED
      BY <2>1, <3>1, <3>2
  <2>3. CASE Abandon(e) /\ UNCHANGED log
    BY <1>2, <1>3, <2>1, <2>3, AbandonShape
  <2> QED
    BY <1>5, <2>2, <2>3 DEF Replay
<1>6. ASSUME NEW p \in Partition, NEW payload \in ForeignRecord, ForeignWrite(p, payload)
      PROVE  <1>1!1
  <2>1. payload \in Payload /\ log \in [Partition -> Seq(Payload)]
    BY <1>0, ForeignRecordAssumption DEF KafkaTypeOK
  <2>2. log' \in [Partition -> Seq(Payload)] /\ LogGrows
    BY <1>6, <2>1, WriteGrows DEF ForeignWrite
  <2>3. inflight' \in [EventId -> Nat] /\ InflightStored'
    BY <1>0, <1>3, <1>6 DEF ForeignWrite, KafkaTypeOK, InflightStored
  <2> QED
    BY <1>6, <2>2, <2>3 DEF ForeignWrite
<1> QED
  BY <1>4, <1>5, <1>6 DEF OutsideNext

(* Every step keeps Shape, and so does a step that changes nothing. *)
LEMMA ShapeNext == Shape /\ [Next]_vars => Shape'
<1>1. ASSUME Shape, APINext PROVE Shape'
  BY <1>1, ShapeAPI DEF APINext
<1>2. ASSUME Shape, RelayNext PROVE Shape'
  BY <1>2, ShapeRelay DEF RelayNext
<1>3. ASSUME Shape, ConsumerNext PROVE Shape'
  BY <1>3, ShapeConsumer DEF ConsumerNext
<1>4. ASSUME Shape, UNCHANGED vars PROVE Shape'
  BY <1>4
     DEF vars, storeVars, kafkaVars, Shape, TypeOK, StoreTypeOK, KafkaTypeOK,
         RelayTypeOK, ConsumerTypeOK, APITypeOK, CallsReady, ClaimsHeld,
         InflightStored, RecordsHeld
<1> QED
  BY <1>1, <1>2, <1>3, <1>4, ShapeOutside DEF Next

(* Shape is an invariant: a call about to store has everything it stores,  *)
(* a relay's batch and every produce in flight are of stored events, and a *)
(* busy member's record is in the log and was decoded before any insert.   *)
THEOREM ShapeInvariant == Spec => []Shape
<1>1. Init => Shape
  BY ShapeInit
<1>2. Shape /\ [Next]_vars => Shape'
  BY ShapeNext
<1> QED
  BY <1>1, <1>2, PTL DEF Spec

(* Type correctness of the whole system, for any number of calls, relays,  *)
(* members, partitions, attempts and disturbances.                         *)
THEOREM TypeCorrect == Spec => []TypeOK
<1>1. Shape => TypeOK
  BY DEF Shape
<1> QED
  BY <1>1, ShapeInvariant, PTL
-----------------------------------------------------------------------------
(* The event of a row that passes the CHECKs of shipments, in a            *)
(* well-formed currency, is one Decode accepts.                            *)
LEMMA CreatedDecodes ==
  ASSUME NEW id \in ShipmentId, NEW s \in ShipmentRow, NEW e \in EventId,
         s.weight >= 1, s.weight <= 30000, s.amount >= 0,
         s.currency \in CurrencyCode
  PROVE  Decodes(NewShipmentCreated(id, s, e))
<1> DEFINE p == NewShipmentCreated(id, s, e)
<1>1. /\ p.json = TRUE /\ p.event_type = TypeShipmentCreated
      /\ p.schema_version = SchemaVersion /\ p.event_id = e /\ p.shipment_id = id
      /\ p.envelope = "present" /\ p.weight = s.weight /\ p.amount = s.amount
      /\ p.currency = s.currency
  BY DEF NewShipmentCreated
<1> HIDE DEF p
<1>2. s.weight \in Int /\ s.amount \in Int /\ s.currency \in Currency
      /\ SchemaVersion \in Int
  BY DEF ShipmentRow, SchemaVersion
<1>3. ASSUME NEW f \in Fields PROVE p[f] # Mistyped /\ p[f] # Absent
  BY <1>1, <1>2, WireAssumption, EventTypeAssumption DEF Fields
<1>4. ValidateWeight(p.weight)
  BY <1>1 DEF ValidateWeight, MinWeightGrams, MaxWeightGrams
<1>5. ValidateMoney([amount |-> p.amount, currency |-> p.currency])
  BY <1>1 DEF ValidateMoney, isCurrencyCode
<1>6. Unmarshals(p) /\ p.event_type # Absent /\ p.schema_version # Absent
  BY <1>1, <1>3 DEF Unmarshals, Fields
<1>7. Decode(p) = "ok"
  BY <1>1, <1>3, <1>4, <1>5, <1>6 DEF Decode
<1> QED
  BY <1>7 DEF Decodes, p

(* Rows are neither added nor removed, and an event keeps what it is of.   *)
RowsKept ==
  \A e \in EventId :
    /\ outbox'[e] = None <=> outbox[e] = None
    /\ outbox[e] # None =>
         /\ outbox'[e].shipment = outbox[e].shipment
         /\ outbox'[e].payload = outbox[e].payload
         /\ outbox'[e].created = outbox[e].created

(* Such a step leaves the events of every shipment as they are.            *)
LEMMA RowsOfKept ==
  ASSUME RowsKept, NEW s
  PROVE  OutboxRowOf(s)' = OutboxRowOf(s)
BY DEF RowsKept, OutboxRowOf

(* Steps of relays, consumers and the broker take nothing back.            *)
LEMMA StoreFrame ==
  ASSUME Shape, StoreInv, UNCHANGED <<shipments, call>>, RowsKept
  PROVE  StoreInv'
<1>1. CallsPriced' /\ OkDrawn'
  BY DEF StoreInv, CallsPriced, OkDrawn
<1>2. StoredTogether'
  <2>1. ASSUME NEW s \in ShipmentId, shipments[s] # None
        PROVE  \E e \in OutboxRowOf(s)' :
                 /\ OutboxRowOf(s)' = {e}
                 /\ outbox'[e].payload = NewShipmentCreated(s, shipments[s], e)
                 /\ outbox'[e].created = shipments[s].created
    <3>1. PICK e \in OutboxRowOf(s) :
            /\ OutboxRowOf(s) = {e}
            /\ outbox[e].payload = NewShipmentCreated(s, shipments[s], e)
            /\ outbox[e].created = shipments[s].created
      BY <2>1 DEF StoreInv, StoredTogether
    <3>2. e \in EventId /\ outbox[e] # None
      BY DEF OutboxRowOf
    <3> QED
      BY <3>1, <3>2, RowsOfKept DEF RowsKept
  <2>2. ASSUME NEW e \in EventId, outbox'[e] # None
        PROVE  shipments[outbox'[e].shipment] # None
    BY <2>2 DEF StoreInv, StoredTogether, RowsKept
  <2> QED
    BY <2>1, <2>2 DEF StoredTogether
<1>3. NoPoisonRow'
  BY DEF StoreInv, NoPoisonRow, RowsKept
<1>4. OkIsStored'
  BY RowsOfKept DEF StoreInv, OkIsStored
<1> QED
  BY <1>1, <1>2, <1>3, <1>4 DEF StoreInv

(* The two UPDATEs of ProcessPending leave alone what an event is of.      *)
LEMMA RecordResultKeeps ==
  ASSUME Shape, NEW r \in RelayProcess, RecordRelayResult(r)
  PROVE  RowsKept /\ UNCHANGED shipments
<1>1. \A e \in EventId : outbox'[e] = None <=> outbox[e] = None
  BY RecordResultShape DEF RowsAdded
<1>2. ASSUME NEW e \in EventId, outbox[e] # None
      PROVE  /\ outbox'[e].shipment = outbox[e].shipment
             /\ outbox'[e].payload = outbox[e].payload
             /\ outbox'[e].created = outbox[e].created
  <2>1. outbox'[e] =
          IF e \in Published(r)
          THEN [outbox[e] EXCEPT !.published = TRUE,
                                 !.attempts = outbox[e].attempts + 1,
                                 !.last_error = FALSE]
          ELSE IF e \in Failed(r)
          THEN [outbox[e] EXCEPT !.attempts = outbox[e].attempts + 1,
                                 !.last_error = TRUE]
          ELSE outbox[e]
    BY DEF RecordRelayResult, RecordResult
  <2>2. outbox[e] \in OutboxRow
    BY <1>2 DEF Shape, TypeOK, StoreTypeOK
  <2> DEFINE n == outbox[e].attempts + 1
  <2> HIDE DEF n
  <2> QED
    BY <2>1, <2>2 DEF OutboxRow, n
<1> QED
  BY <1>1, <1>2 DEF RowsKept, RecordRelayResult

(* A step of a relay changes no shipment and what no event is of.          *)
LEMMA RelayKeepsRows ==
  ASSUME Shape, NEW r \in RelayProcess, RelayStep(r)
  PROVE  RowsKept /\ UNCHANGED shipments
<1>1. ASSUME UNCHANGED storeVars PROVE RowsKept /\ UNCHANGED shipments
  BY <1>1 DEF storeVars, RowsKept
<1>2. UNCHANGED storeVars \/ RecordRelayResult(r)
  BY DEF RelayStep, RelayWorks, RelayDisturbed, Claim, ClaimFails, Publish,
         PublishFails, SessionLost, Commit, CommitFails, StopRelay, StartRelay
<1> QED
  BY <1>1, <1>2, RecordResultKeeps

(* A step of a consumer changes neither table.                             *)
LEMMA MemberKeepsRows ==
  ASSUME NEW m \in Member, MemberStep(m)
  PROVE  UNCHANGED <<shipments, outbox>>
<1>1. UNCHANGED storeVars \/ RecordDispatchTx(Record(m))
  BY DEF MemberStep, MemberWorks, MemberDisturbed, StartMember, Assign, Revoke,
         Remove, Poll, Reject, InsertProcessed, InsertDispatch, Conflict, Orphan,
         CommitTx, StorageFails, CommitOffset, OffsetFenced, OffsetFails,
         StopMember, CommittedUnseen
<1> QED
  BY <1>1 DEF storeVars, RecordDispatchTx
-----------------------------------------------------------------------------
(* The transaction adds two new rows, and of every other shipment and      *)
(* event nothing changes.                                                  *)
Stores(id, ev, row) ==
  /\ id \in ShipmentId /\ shipments[id] = None
  /\ ev \in EventId /\ outbox[ev] = None
  /\ row \in ShipmentRow
  /\ shipments' = [shipments EXCEPT ![id] = row]
  /\ outbox'[ev] =
       [shipment |-> id, payload |-> NewShipmentCreated(id, row, ev),
        created |-> row.created, published |-> FALSE,
        attempts |-> 0, last_error |-> FALSE]
  /\ outbox'[ev] # None
  /\ \A e \in EventId : e # ev => outbox'[e] = outbox[e]
  /\ OutboxRowOf(id)' = {ev}
  /\ \A s \in ShipmentId : s # id => OutboxRowOf(s)' = OutboxRowOf(s)

(* So does the transaction of an accepted call.                            *)
LEMMA StoredRows ==
  ASSUME Shape, StoreInv, NEW c \in Call, call[c].pc = "store",
         Accepted(c), StoreCall(c), NEW id, NEW ev, NEW row,
         id = call[c].shipment, ev = call[c].event, row = call[c].row
  PROVE  Stores(id, ev, row)
<1> DEFINE new == [shipment |-> id, payload |-> NewShipmentCreated(id, row, ev),
                   created |-> row.created, published |-> FALSE,
                   attempts |-> 0, last_error |-> FALSE]
<1>1. /\ id \in ShipmentId /\ ev \in EventId /\ row \in ShipmentRow
      /\ shipments[id] = None /\ outbox[ev] = None
      /\ shipments \in [ShipmentId -> ShipmentRow \cup {None}]
      /\ outbox \in [EventId -> OutboxRow \cup {None}]
  BY DEF Shape, TypeOK, StoreTypeOK, CallsReady, Accepted, InsertsAccepted
<1>2. new \in OutboxRow /\ new # None /\ new.shipment = id
  BY <1>1, CreatedPayload, CreatedRow, RowAssumption
<1>3. /\ shipments' = [shipments EXCEPT ![id] = row]
      /\ outbox' = [outbox EXCEPT ![ev] = new]
  BY DEF StoreCall, CreateShipmentTx, Event
<1> HIDE DEF new
<1>4. outbox'[ev] = new /\ \A e \in EventId : e # ev => outbox'[e] = outbox[e]
  BY <1>1, <1>3
<1>5. \A e \in EventId : outbox[e] # None => outbox[e].shipment # id
  BY <1>1 DEF StoreInv, StoredTogether
<1>6. OutboxRowOf(id)' = {ev}
  BY <1>1, <1>2, <1>4, <1>5 DEF OutboxRowOf
<1>7. \A s \in ShipmentId : s # id => OutboxRowOf(s)' = OutboxRowOf(s)
  BY <1>1, <1>2, <1>4 DEF OutboxRowOf
<1> QED
  BY <1>1, <1>2, <1>3, <1>4, <1>6, <1>7 DEF Stores, new

(* The accepted transaction keeps what the tables promise.                 *)
LEMMA StoredTables ==
  ASSUME Shape, StoreInv, NEW c \in Call, call[c].pc = "store",
         Accepted(c), StoreCall(c)
  PROVE  StoredTogether' /\ NoPoisonRow'
<1>0. PICK id, ev, row : id = call[c].shipment /\ ev = call[c].event /\ row = call[c].row
  OBVIOUS
<1> DEFINE new == [shipment |-> id, payload |-> NewShipmentCreated(id, row, ev),
                   created |-> row.created, published |-> FALSE,
                   attempts |-> 0, last_error |-> FALSE]
<1>1. Stores(id, ev, row) /\ outbox'[ev] = new
  BY <1>0, StoredRows DEF Stores
<1>2. /\ new.shipment = id /\ new.created = row.created
      /\ new.payload = NewShipmentCreated(id, row, ev)
  OBVIOUS
<1>3. /\ row.weight >= 1 /\ row.weight <= 30000 /\ row.amount >= 0
      /\ row.currency \in CurrencyCode
  BY <1>0 DEF Accepted, InsertsAccepted, StoreInv, CallsPriced
<1>4. /\ shipments \in [ShipmentId -> ShipmentRow \cup {None}]
      /\ outbox \in [EventId -> OutboxRow \cup {None}] /\ row # None
  BY <1>1, RowAssumption DEF Stores, Shape, TypeOK, StoreTypeOK
<1> HIDE DEF new
<1>5. shipments'[id] = row /\ \A s \in ShipmentId : s # id => shipments'[s] = shipments[s]
  BY <1>1, <1>4 DEF Stores
<1>6. ASSUME NEW s \in ShipmentId, shipments'[s] # None
      PROVE  \E e \in OutboxRowOf(s)' :
               /\ OutboxRowOf(s)' = {e}
               /\ outbox'[e].payload = NewShipmentCreated(s, shipments'[s], e)
               /\ outbox'[e].created = shipments'[s].created
  <2>1. CASE s = id
    BY <1>1, <1>2, <1>5, <2>1 DEF Stores
  <2>2. CASE s # id
    <3>1. PICK e \in OutboxRowOf(s) :
            /\ OutboxRowOf(s) = {e}
            /\ outbox[e].payload = NewShipmentCreated(s, shipments[s], e)
            /\ outbox[e].created = shipments[s].created
      BY <1>5, <1>6, <2>2 DEF StoreInv, StoredTogether
    <3>2. e \in EventId /\ outbox[e] # None
      BY DEF OutboxRowOf
    <3>3. outbox'[e] = outbox[e] /\ shipments'[s] = shipments[s]
      BY <1>1, <1>5, <2>2, <3>2 DEF Stores
    <3> QED
      BY <1>1, <2>2, <3>1, <3>3 DEF Stores
  <2> QED
    BY <2>1, <2>2
<1>7. ASSUME NEW e \in EventId, outbox'[e] # None
      PROVE  shipments'[outbox'[e].shipment] # None
  <2>1. CASE e = ev
    BY <1>1, <1>2, <1>4, <1>5, <2>1 DEF Stores
  <2>2. CASE e # ev
    <3>1. outbox'[e] = outbox[e] /\ shipments[outbox[e].shipment] # None
      BY <1>1, <1>7, <2>2 DEF Stores, StoreInv, StoredTogether
    <3>2. outbox[e].shipment \in ShipmentId
      BY <1>4, <1>7, <3>1 DEF OutboxRow
    <3> QED
      BY <1>1, <1>5, <3>1, <3>2 DEF Stores
  <2> QED
    BY <2>1, <2>2
<1>8. StoredTogether'
  BY <1>6, <1>7 DEF StoredTogether
<1>9. NoPoisonRow'
  <2>1. Decodes(NewShipmentCreated(id, row, ev))
    BY <1>1, <1>3, CreatedDecodes DEF Stores
  <2> QED
    BY <1>1, <1>2, <2>1 DEF Stores, StoreInv, NoPoisonRow
<1> QED
  BY <1>8, <1>9

(* Whatever a call stored and was told OK for is still there, and the call *)
(* that stored it now is told about its own rows.                          *)
LEMMA ReturnedStored ==
  ASSUME Shape, StoreInv, NEW c \in Call, call[c].pc = "store",
         Accepted(c), StoreCall(c), NEW code, Return(c, code)
  PROVE  StoreInv'
<1>0. PICK id, ev, row : id = call[c].shipment /\ ev = call[c].event /\ row = call[c].row
  OBVIOUS
<1>1. Stores(id, ev, row)
  BY <1>0, StoredRows
<1>2. /\ call \in [Call -> CallState] /\ None \notin ShipmentRow
      /\ shipments \in [ShipmentId -> ShipmentRow \cup {None}]
  BY RowAssumption DEF Shape, TypeOK, APITypeOK, StoreTypeOK
<1>3. /\ call'[c].pc = "done" /\ call'[c].shipment = id
      /\ call'[c].event = ev /\ call'[c].row = row
      /\ \A d \in Call : d # c => call'[d] = call[d]
  BY <1>0, <1>2 DEF Return, CallState
<1>4. CallsPriced' /\ OkDrawn'
  BY <1>1, <1>3 DEF Stores, StoreInv, CallsPriced, OkDrawn
<1>5. ASSUME NEW d \in Call, call'[d].code = "OK"
      PROVE  /\ shipments'[call'[d].shipment] = call'[d].row
             /\ OutboxRowOf(call[d].shipment)' = {call'[d].event}
  <2>1. CASE d = c
    BY <1>1, <1>2, <1>3, <2>1 DEF Stores
  <2>2. CASE d # c
    <3>1. PICK s : s = call[d].shipment
      OBVIOUS
    <3>2. /\ call'[d] = call[d] /\ s \in ShipmentId
          /\ call[d].row \in ShipmentRow
          /\ shipments[s] = call[d].row
          /\ OutboxRowOf(s) = {call[d].event}
      BY <1>3, <1>5, <2>2, <3>1 DEF StoreInv, OkDrawn, OkIsStored
    <3>3. s # id
      BY <1>1, <1>2, <3>2 DEF Stores
    <3> QED
      BY <1>1, <1>2, <3>1, <3>2, <3>3 DEF Stores
  <2> QED
    BY <2>1, <2>2
<1>6. OkIsStored'
  BY <1>5 DEF OkIsStored
<1> QED
  BY <1>4, <1>6, StoredTables DEF StoreInv

(* No error is reported to the caller as OK.                               *)
LEMMA StatusOfError == ASSUME NEW err PROVE toStatus(err) # "OK"
BY DEF toStatus

(* A call that stores nothing and does not claim to have.                  *)
LEMMA ReturnedUnstored ==
  ASSUME Shape, StoreInv, NEW c \in Call, UNCHANGED storeVars,
         NEW code, code # "OK", Return(c, code)
  PROVE  StoreInv'
<1>1. call \in [Call -> CallState] /\ UNCHANGED <<shipments, outbox>>
  BY DEF Shape, TypeOK, APITypeOK, storeVars
<1>2. /\ call'[c].pc = "done" /\ call'[c].code = code
      /\ \A d \in Call : d # c => call'[d] = call[d]
  BY <1>1 DEF Return, CallState
<1>3. StoredTogether' /\ NoPoisonRow'
  BY <1>1 DEF StoreInv, StoredTogether, NoPoisonRow, OutboxRowOf
<1>4. CallsPriced' /\ OkDrawn' /\ OkIsStored'
  BY <1>1, <1>2 DEF StoreInv, CallsPriced, OkDrawn, OkIsStored, OutboxRowOf
<1> QED
  BY <1>3, <1>4 DEF StoreInv

(* A step of a call keeps StoreInv. *)
LEMMA StoreAPI ==
  ASSUME Shape, StoreInv, NEW c \in Call, CallStep(c)
  PROVE  StoreInv'
<1>1. ASSUME NEW w \in Weight, RefuseWeight(c, w) PROVE StoreInv'
  BY <1>1, StatusOfError, ReturnedUnstored DEF RefuseWeight
<1>2. ASSUME NEW w \in Weight, NEW a, RefuseQuote(c, w, a) PROVE StoreInv'
  BY <1>2, StatusOfError, ReturnedUnstored DEF RefuseQuote
<1>3. ASSUME NEW w \in Weight, NEW a \in FaultyAnswer \cup {post_quote(w)},
             NEW id \in NewShipmentID, NEW e \in NewEventID, NEW t \in Stamp,
             Price(c, w, a, id, e, t)
      PROVE  StoreInv'
  <2> DEFINE row == [weight |-> w, amount |-> Quoted(a).money.amount,
                     currency |-> Quoted(a).money.currency, created |-> t]
             new == [pc |-> "store", shipment |-> id, event |-> e, code |-> None,
                     row |-> row]
  <2>1. /\ Quoted(a).err = {} /\ call' = [call EXCEPT ![c] = new]
        /\ UNCHANGED <<shipments, outbox>>
    BY <1>3 DEF Price, storeVars
  <2>2. a \in Answer
    BY PostQuoteType, ShipmentAPIAssumption
  <2>3. row.currency \in CurrencyCode
    BY <2>1, <2>2, QuotedMoney
  <2>4. new.code # "OK" /\ new.pc = "store" /\ new.row = row
    BY CodeAssumption DEF Code
  <2>5. StoredTogether' /\ NoPoisonRow'
    BY <2>1 DEF StoreInv, StoredTogether, NoPoisonRow, OutboxRowOf
  <2>6. call \in [Call -> CallState]
    BY DEF Shape, TypeOK, APITypeOK
  <2> HIDE DEF row, new
  <2>7. call'[c] = new /\ \A d \in Call : d # c => call'[d] = call[d]
    BY <2>1, <2>6
  <2>8. CallsPriced' /\ OkDrawn' /\ OkIsStored'
    BY <2>1, <2>3, <2>4, <2>7
       DEF StoreInv, CallsPriced, OkDrawn, OkIsStored, OutboxRowOf
  <2> QED
    BY <2>5, <2>8 DEF StoreInv
<1>4. CASE StoreShipment(c)
  BY <1>4, ReturnedStored DEF StoreShipment
<1>5. CASE StoreRefused(c)
  BY <1>5, StatusOfError, ReturnedUnstored DEF StoreRefused
<1>6. CASE StoreFails(c)
  <2>1. PICK err \in StoreError : Return(c, toStatus(err))
    BY <1>6 DEF StoreFails
  <2>2. CASE Accepted(c) /\ StoreCall(c)
    BY <1>6, <2>1, <2>2, ReturnedStored DEF StoreFails
  <2>3. CASE UNCHANGED storeVars
    BY <2>1, <2>3, StatusOfError, ReturnedUnstored
  <2> QED
    BY <1>6, <2>2, <2>3 DEF StoreFails
<1> QED
  BY <1>1, <1>2, <1>3, <1>4, <1>5, <1>6 DEF CallStep, CallStored, CallPriced
-----------------------------------------------------------------------------
(* Nobody has called yet and the tables are empty. *)
LEMMA StoreInvInit == Init => StoreInv
<1> SUFFICES ASSUME Init PROVE StoreInv
  OBVIOUS
<1>1. CallsPriced /\ OkDrawn /\ OkIsStored
  BY CodeAssumption
     DEF Init, APIInit, NewCall, Code, CallsPriced, OkDrawn, OkIsStored
<1>2. StoredTogether /\ NoPoisonRow
  BY DEF Init, StoreInit, StoredTogether, NoPoisonRow
<1> QED
  BY <1>1, <1>2 DEF StoreInv

(* Records written from outside change no table.                           *)
LEMMA OutsideKeepsTables ==
  ASSUME OutsideNext
  PROVE  UNCHANGED <<storeVars, relay, member, call>>
BY DEF OutsideNext, LateWrite, Replay, ForeignWrite

(* Every step keeps StoreInv. *)
LEMMA StoreInvNext ==
  ASSUME Shape, StoreInv, [Next]_vars
  PROVE  StoreInv'
<1>1. ASSUME UNCHANGED outbox PROVE RowsKept
  BY <1>1 DEF RowsKept
<1>2. CASE APINext
  BY <1>2, StoreAPI DEF APINext
<1>3. CASE RelayNext
  BY <1>3, RelayKeepsRows, StoreFrame DEF RelayNext
<1>4. CASE ConsumerNext
  BY <1>1, <1>4, MemberKeepsRows, StoreFrame DEF ConsumerNext
<1>5. CASE OutsideNext
  BY <1>1, <1>5, OutsideKeepsTables, StoreFrame DEF storeVars
<1>6. CASE UNCHANGED vars
  BY <1>1, <1>6, StoreFrame DEF vars, storeVars
<1> QED
  BY <1>2, <1>3, <1>4, <1>5, <1>6 DEF Next

(* StoreInv is an invariant: what CreateShipment's transaction and its     *)
(* replies promise, with what a call knows before it stores.               *)
THEOREM StoreInvariant == Spec => []StoreInv
<1>1. Init => StoreInv
  BY StoreInvInit
<1>2. Shape /\ StoreInv /\ [Next]_vars => StoreInv'
  BY StoreInvNext
<1> QED
  BY <1>1, <1>2, ShapeInvariant, PTL DEF Spec

(* The transactional outbox: CreateShipment commits a shipment and its     *)
(* event together or not at all, so every stored shipment has one event,   *)
(* its own, however many calls draw the same identifiers, are refused,     *)
(* fail, or commit without the caller learning it.                         *)
THEOREM StoredTogetherInvariant == Spec => []StoredTogether
<1>1. StoreInv => StoredTogether
  BY DEF StoreInv
<1> QED
  BY <1>1, StoreInvariant, PTL

(* No row stops the relay: MessageFor decodes whatever CreateShipment was  *)
(* allowed to commit, because the client's checks of the quote and the     *)
(* CHECKs of shipments together cover everything Decode asks for.          *)
THEOREM NoPoisonRowInvariant == Spec => []NoPoisonRow
<1>1. StoreInv => NoPoisonRow
  BY DEF StoreInv
<1> QED
  BY <1>1, StoreInvariant, PTL

(* CreateShipment returns OK only for what it committed: the reply's       *)
(* shipment is stored as replied, with its own event, for ever after.      *)
THEOREM OkIsStoredInvariant == Spec => []OkIsStored
<1>1. StoreInv => OkIsStored
  BY DEF StoreInv
<1> QED
  BY <1>1, StoreInvariant, PTL
-----------------------------------------------------------------------------
(* Started kilograms, by Python's floor division of the negated weight.    *)
LEMMA StartedKilograms ==
  ASSUME NEW w \in Int, 1 <= w, w <= 30000
  PROVE  /\ started_kilograms(w) \in 1..30
         /\ 1000 * (started_kilograms(w) - 1) < w
         /\ w <= 1000 * started_kilograms(w)
<1>1. PICK q \in Int : q = (-w) \div 1000
  OBVIOUS
<1>2. 1000 * q <= -w /\ -w < 1000 * (q + 1)
  BY <1>1
<1>3. PICK k \in Int : k = -q
  OBVIOUS
<1>4. k \in 1..30 /\ 1000 * (k - 1) < w /\ w <= 1000 * k
  BY <1>2, <1>3
<1> QED
  BY <1>1, <1>3, <1>4 DEF started_kilograms

(* The pricing service's own answer, read by the client, is its quote.     *)
LEMMA ServiceQuoted ==
  ASSUME NEW w \in Int, ValidateWeight(w)
  PROVE  Quoted(post_quote(w)).err = {} => Quoted(post_quote(w)).money = quote(w)
<1> DEFINE a == post_quote(w)
<1>0. validate_weight(w)
  BY DEF ValidateWeight, MinWeightGrams, MaxWeightGrams, validate_weight,
         MIN_WEIGHT_GRAMS, MAX_WEIGHT_GRAMS
<1>1. /\ a.transport = "done" /\ a.status = 200 /\ a.json = TRUE
      /\ a.amount = quote(w).amount /\ a.currency = quote(w).currency
  BY <1>0 DEF post_quote
<1>2. Fails({"ErrUnavailable"}).err # {}
  BY DEF Fails
<1> HIDE DEF a
<1>3. Quoted(a) = decodeQuote(a)
  BY <1>1 DEF Quoted
<1>4. decodeQuote(a) \in {Fails({"ErrUnavailable"}),
        [err |-> {}, money |-> [amount |-> a.amount, currency |-> a.currency]]}
  BY <1>1 DEF decodeQuote
<1>5. [amount |-> a.amount, currency |-> a.currency] = quote(w)
  BY <1>1 DEF quote
<1> QED
  BY <1>2, <1>3, <1>4, <1>5 DEF a

(* What the service quotes for a legal weight is the published rule.       *)
LEMMA QuoteIsRule ==
  ASSUME NEW w \in Int, ValidateWeight(w), NEW row,
         row.weight = w, row.amount = quote(w).amount,
         row.currency = quote(w).currency
  PROVE  AtPublishedRule(row)
<1>1. 1 <= w /\ w <= 30000
  BY DEF ValidateWeight, MinWeightGrams, MaxWeightGrams
<1>2. LegalWeight(w)
  BY <1>1 DEF LegalWeight
<1>3. /\ quote(w).amount = 500 + 100 * started_kilograms(w)
      /\ quote(w).currency = CURRENCY
  BY DEF quote, BASE_CENTS, PER_STARTED_KG_CENTS
<1>4. PICK k \in 1..30 :
        k = started_kilograms(w) /\ 1000 * (k - 1) < w /\ w <= 1000 * k
  BY <1>1, StartedKilograms
<1>5. CostsKilograms(row, k)
  BY <1>3, <1>4 DEF CostsKilograms
<1> QED
  BY <1>2, <1>3, <1>5 DEF AtPublishedRule

(* A priced call has the price of the published rule.                      *)
LEMMA PricedAtRule ==
  ASSUME FaultyAnswersFail, NEW w \in Weight,
         NEW a \in FaultyAnswer \cup {post_quote(w)},
         ValidateWeight(w), Quoted(a).err = {}, NEW t
  PROVE  AtPublishedRule([weight |-> w, amount |-> Quoted(a).money.amount,
                          currency |-> Quoted(a).money.currency, created |-> t])
<1>1. a = post_quote(w)
  BY DEF FaultyAnswersFail
<1>2. w \in Int
  BY ShipmentAPIAssumption
<1>3. Quoted(a).money = quote(w)
  <2>1. Quoted(post_quote(w)).err = {}
    BY <1>1
  <2>2. Quoted(post_quote(w)).money = quote(w)
    BY <1>2, <2>1, ServiceQuoted
  <2> QED
    BY <1>1, <2>2
<1> DEFINE row == [weight |-> w, amount |-> Quoted(a).money.amount,
                   currency |-> Quoted(a).money.currency, created |-> t]
<1>4. /\ row.weight = w /\ row.amount = quote(w).amount
      /\ row.currency = quote(w).currency
  BY <1>3
<1> HIDE DEF row
<1>5. AtPublishedRule(row)
  BY <1>2, <1>4, QuoteIsRule
<1> QED
  BY <1>5 DEF row

(* Every step keeps PriceInv. *)
LEMMA PriceInvNext ==
  ASSUME FaultyAnswersFail, Shape, StoreInv, PriceInv, [Next]_vars
  PROVE  PriceInv'
<1>0. call \in [Call -> CallState]
  BY DEF Shape, TypeOK, APITypeOK
<1>1. ASSUME UNCHANGED <<shipments, call>> PROVE PriceInv'
  BY <1>1 DEF PriceInv, CallsQuoted, StoredPriceIsQuoted
<1>2. ASSUME NEW c \in Call, CallStep(c) PROVE PriceInv'
  <2>1. ASSUME NEW code, Return(c, code), UNCHANGED storeVars PROVE PriceInv'
    BY <1>0, <2>1
       DEF Return, storeVars, CallState, PriceInv, CallsQuoted, StoredPriceIsQuoted
  <2>2. ASSUME NEW code, Return(c, code), call[c].pc = "store", Accepted(c), StoreCall(c)
        PROVE  PriceInv'
    <3>1. PICK id, ev, row :
            id = call[c].shipment /\ ev = call[c].event /\ row = call[c].row
      OBVIOUS
    <3>2. id \in ShipmentId /\ shipments' = [shipments EXCEPT ![id] = row]
      <4>1. Stores(id, ev, row)
        BY <2>2, <3>1, StoredRows
      <4> QED
        BY <4>1 DEF Stores
    <3>3. AtPublishedRule(row)
      BY <2>2, <3>1 DEF PriceInv, CallsQuoted
    <3>4. StoredPriceIsQuoted'
      BY <3>2, <3>3 DEF PriceInv, StoredPriceIsQuoted, Shape, TypeOK, StoreTypeOK
    <3>5. CallsQuoted'
      BY <1>0, <2>2 DEF Return, CallState, PriceInv, CallsQuoted
    <3> QED
      BY <3>4, <3>5 DEF PriceInv
  <2>3. ASSUME NEW w \in Weight, NEW a \in FaultyAnswer \cup {post_quote(w)},
               NEW id \in NewShipmentID, NEW e \in NewEventID, NEW t \in Stamp,
               Price(c, w, a, id, e, t)
        PROVE  PriceInv'
    <3> DEFINE row == [weight |-> w, amount |-> Quoted(a).money.amount,
                       currency |-> Quoted(a).money.currency, created |-> t]
               new == [pc |-> "store", shipment |-> id, event |-> e, code |-> None,
                       row |-> row]
    <3>1. /\ ValidateWeight(w) /\ Quoted(a).err = {}
          /\ call' = [call EXCEPT ![c] = new] /\ UNCHANGED shipments
      BY <2>3 DEF Price, storeVars
    <3>2. AtPublishedRule(row)
      BY <3>1, PricedAtRule
    <3>3. new.row = row
      OBVIOUS
    <3> HIDE DEF row, new
    <3>4. CallsQuoted'
      BY <1>0, <3>1, <3>2, <3>3 DEF PriceInv, CallsQuoted
    <3> QED
      BY <3>1, <3>4 DEF PriceInv, StoredPriceIsQuoted
  <2>4. ASSUME NEW w \in Weight, CallPriced(c, w) PROVE PriceInv'
    BY <2>1, <2>3, <2>4 DEF CallPriced, RefuseWeight, RefuseQuote
  <2>5. CASE CallStored(c)
    BY <2>1, <2>2, <2>5 DEF CallStored, StoreShipment, StoreRefused, StoreFails
  <2> QED
    BY <1>2, <2>4, <2>5 DEF CallStep
<1>3. CASE APINext
  BY <1>2, <1>3 DEF APINext
<1>4. CASE RelayNext
  BY <1>1, <1>4, RelayKeepsRows DEF RelayNext
<1>5. CASE ConsumerNext
  BY <1>1, <1>5, MemberKeepsRows DEF ConsumerNext
<1>6. CASE OutsideNext
  BY <1>1, <1>6, OutsideKeepsTables DEF storeVars
<1>7. CASE UNCHANGED vars
  BY <1>1, <1>7 DEF vars, storeVars
<1> QED
  BY <1>3, <1>4, <1>5, <1>6, <1>7 DEF Next

(* PriceInv is an invariant: a call about to store holds the published     *)
(* price of its weight, and so does everything stored.                     *)
THEOREM PriceInvariant ==
  ASSUME FaultyAnswersFail
  PROVE  Spec => []PriceInv
<1>1. Init => PriceInv
  BY DEF Init, APIInit, NewCall, StoreInit, PriceInv, CallsQuoted, StoredPriceIsQuoted
<1>2. Shape /\ StoreInv /\ PriceInv /\ [Next]_vars => PriceInv'
  BY PriceInvNext
<1> QED
  BY <1>1, <1>2, ShapeInvariant, StoreInvariant, PTL DEF Spec

(* As long as no failure of the pricing call looks like another quote (the *)
(* answers in FaultyAnswer are ones the client turns into errors), every   *)
(* stored shipment has a legal weight and costs 500 cents and 100 for each *)
(* started kilogram: the service's arithmetic, the client's checks and the *)
(* handler agree for every weight.                                         *)
THEOREM StoredPriceIsQuotedInvariant ==
  ASSUME FaultyAnswersFail
  PROVE  Spec => []StoredPriceIsQuoted
<1>1. PriceInv => StoredPriceIsQuoted
  BY DEF PriceInv
<1> QED
  BY <1>1, PriceInvariant, PTL
=============================================================================

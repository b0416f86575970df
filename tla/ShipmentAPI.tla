----------------------------- MODULE ShipmentAPI -----------------------------
(***************************************************************************)
(* The gRPC service of internal/shipmentapi/server.go: one CreateShipment  *)
(* call per element of Call.  GetQuote is Quoted without the store; it and *)
(* GetShipment change no state.                                            *)
(*                                                                         *)
(* A call prices the parcel, draws its identifiers and its timestamp, and  *)
(* stores the shipment and the event in one transaction.  Identifiers are  *)
(* random, so a call may draw one that is taken; timestamps come from the  *)
(* clocks of several replicas and are in no particular order.              *)
(***************************************************************************)
EXTENDS Store, Pricing

CONSTANTS
  Call,           \* the CreateShipment calls of a behaviour
  Weight,         \* the weights callers send
  NewShipmentID,  \* the shipment IDs the service may draw
  NewEventID,     \* the event IDs it may draw
  Stamp,          \* the timestamps its clocks may show
  FaultyAnswer,   \* what the pricing call may end with instead of post_quote
  StoreError      \* the error chains of a failed storage call

ASSUME ShipmentAPIAssumption ==
  /\ Weight \subseteq Int
  /\ NewShipmentID \subseteq ShipmentId
  /\ NewEventID \subseteq EventId
  /\ Stamp \subseteq Nat
  /\ FaultyAnswer \subseteq Answer
  /\ StoreError \subseteq SUBSET Sentinel

VARIABLE call    \* call -> how far the handler got

Code == {"OK", "InvalidArgument", "NotFound", "Canceled", "DeadlineExceeded",
         "Unavailable", "Internal"}

ASSUME CodeAssumption == None \notin Code

(* pc        new, store (about to commit the transaction), done            *)
(* shipment, event, row    what the call stores                            *)
(* code      the gRPC status it returned                                   *)
CallState ==
  [pc : {"new", "store", "done"}, shipment : ShipmentId \cup {None},
   event : EventId \cup {None}, row : ShipmentRow \cup {None},
   code : Code \cup {None}]

APITypeOK == call \in [Call -> CallState]

NewCall ==
  [pc |-> "new", shipment |-> None, event |-> None, row |-> None, code |-> None]

APIInit == call = [c \in Call |-> NewCall]

(* toStatus: context errors before dependency errors. *)
toStatus(err) ==
  IF err \cap {"ErrInvalidWeight", "ErrRejected"} # {} THEN "InvalidArgument"
  ELSE IF "ErrNotFound" \in err THEN "NotFound"
  ELSE IF "Canceled" \in err THEN "Canceled"
  ELSE IF err \cap {"ErrTimeout", "DeadlineExceeded"} # {} THEN "DeadlineExceeded"
  ELSE IF "ErrUnavailable" \in err THEN "Unavailable"
  ELSE "Internal"

(* GetShipment: NotFound, or what the store's view shows.                  *)
GetShipment(s) ==
  IF shipments[s] = None
  THEN [code |-> toStatus({"ErrNotFound"}), outbox |-> "none", dispatch |-> "none"]
  ELSE [code |-> "OK", outbox |-> View(s).outbox, dispatch |-> View(s).dispatch]

Return(c, code) == call' = [call EXCEPT ![c].pc = "done", ![c].code = code]

(* The handler refuses the weight before any downstream call.              *)
RefuseWeight(c, w) ==
  /\ call[c].pc = "new"
  /\ ~ValidateWeight(w)
  /\ Return(c, toStatus({"ErrInvalidWeight"}))
  /\ Undisturbed
  /\ UNCHANGED storeVars

(* The pricing call fails. *)
RefuseQuote(c, w, a) ==
  /\ call[c].pc = "new"
  /\ ValidateWeight(w)
  /\ Quoted(a).err # {}
  /\ Return(c, toStatus(Quoted(a).err))
  /\ Undisturbed
  /\ UNCHANGED storeVars

(* The parcel is priced; the shipment and its event are built.             *)
Price(c, w, a, id, e, t) ==
  /\ call[c].pc = "new"
  /\ ValidateWeight(w)
  /\ Quoted(a).err = {}
  /\ call' = [call EXCEPT ![c] =
       [pc |-> "store", shipment |-> id, event |-> e, code |-> None,
        row |-> [weight |-> w, amount |-> Quoted(a).money.amount,
                 currency |-> Quoted(a).money.currency, created |-> t]]]
  /\ Undisturbed
  /\ UNCHANGED storeVars

(* newOutboxEvent *)
Event(c) == NewShipmentCreated(call[c].shipment, call[c].row, call[c].event)

StoreCall(c) ==
  CreateShipmentTx(call[c].shipment, call[c].row, call[c].event, Event(c))

Accepted(c) == InsertsAccepted(call[c].shipment, call[c].row, call[c].event)

StoreShipment(c) ==
  /\ call[c].pc = "store"
  /\ Accepted(c)
  /\ StoreCall(c)
  /\ Return(c, "OK")
  /\ Undisturbed

(* Mutant of StoreRefused: a key violation is taken for a retry and hidden. *)
StoreRefusedHidden(c) ==
  /\ call[c].pc = "store"
  /\ ~Accepted(c)
  /\ Return(c, "OK")
  /\ Undisturbed
  /\ UNCHANGED storeVars

(* A constraint refuses one of the inserts: the transaction rolls back and *)
(* the error, which no sentinel describes, is Internal.                    *)
StoreRefused(c) ==
  /\ call[c].pc = "store"
  /\ ~Accepted(c)
  /\ Return(c, toStatus({}))
  /\ Undisturbed
  /\ UNCHANGED storeVars

(* Storage fails, or the service stops: the caller sees an error whether   *)
(* or not the COMMIT took effect.                                          *)
StoreFails(c) ==
  /\ call[c].pc = "store"
  /\ Disturb
  /\ (Accepted(c) /\ StoreCall(c)) \/ UNCHANGED storeVars
  /\ \E err \in StoreError : Return(c, toStatus(err))

CallPriced(c, w) ==
  \E a \in FaultyAnswer \cup {post_quote(w)} :
    \/ RefuseWeight(c, w)
    \/ RefuseQuote(c, w, a)
    \/ \E id \in NewShipmentID, e \in NewEventID, t \in Stamp :
         Price(c, w, a, id, e, t)

CallStored(c) == StoreShipment(c) \/ StoreRefused(c) \/ StoreFails(c)

CallStep(c) == (\E w \in Weight : CallPriced(c, w)) \/ CallStored(c)
=============================================================================

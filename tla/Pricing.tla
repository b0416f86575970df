------------------------------- MODULE Pricing -------------------------------
(***************************************************************************)
(* The pricing service (pricing/app/pricing.py and its HTTP endpoint in    *)
(* pricing/app/main.py) and the client that calls it                       *)
(* (internal/pricing/client.go).                                           *)
(*                                                                         *)
(* An answer is what the client's http.Do and ReadAll end with: how the    *)
(* exchange went, and if it went well the HTTP status and what the body    *)
(* holds.  An error is the set of sentinel errors in its chain, which is   *)
(* all that errors.Is can see.                                             *)
(***************************************************************************)
EXTENDS Events

CONSTANT CURRENCY

ASSUME CURRENCYAssumption == CURRENCY \in CurrencyCode

MIN_WEIGHT_GRAMS == 1
MAX_WEIGHT_GRAMS == 30000
BASE_CENTS == 500
PER_STARTED_KG_CENTS == 100

(* The pricing service's own range, besides domain.ValidateWeight's.       *)
validate_weight(w) == MIN_WEIGHT_GRAMS <= w /\ w <= MAX_WEIGHT_GRAMS

(* Mutant of started_kilograms: one more than the whole kilograms.         *)
whole_kilograms_and_one(w) == (w \div 1000) + 1

(* -(-w // 1000): Python's // is floor division, and so is \div here.      *)
started_kilograms(w) == -((-w) \div 1000)

quote(w) ==
  [amount |-> BASE_CENTS + PER_STARTED_KG_CENTS * started_kilograms(w),
   currency |-> CURRENCY]

Sentinel == {"ErrInvalidWeight", "ErrRejected", "ErrNotFound", "ErrTimeout",
             "Canceled", "DeadlineExceeded", "ErrUnavailable"}

(* transport  done, or why Do or ReadAll failed                            *)
(* json       the body is JSON whose two fields are absent or of their type *)
Answer ==
  [transport : {"done", "timeout", "canceled", "unreachable"}, status : Nat,
   json : BOOLEAN, amount : Int \cup {Absent}, currency : Currency \cup {Absent}]

(* POST /quote: 422 for a weight outside the range.                        *)
post_quote(w) ==
  [transport |-> "done",
   status    |-> IF validate_weight(w) THEN 200 ELSE 422,
   json      |-> TRUE,
   amount    |-> IF validate_weight(w) THEN quote(w).amount ELSE Absent,
   currency  |-> IF validate_weight(w) THEN quote(w).currency ELSE Absent]

Fails(err) == [err |-> err, money |-> <<>>]

classifyTransport(t) ==
  CASE t = "timeout"  -> Fails({"ErrTimeout", "DeadlineExceeded"})
    [] t = "canceled" -> Fails({"Canceled"})
    [] OTHER          -> Fails({"ErrUnavailable"})

(* Mutant of decodeQuote: the money is not validated.                      *)
decodeQuoteTrusting(a) ==
  LET money == [amount |-> a.amount, currency |-> a.currency] IN
  IF a.status \in {400, 422} THEN Fails({"ErrRejected"})
  ELSE IF a.status # 200 THEN Fails({"ErrUnavailable"})
  ELSE IF ~a.json THEN Fails({"ErrUnavailable"})
  ELSE IF a.amount = Absent \/ a.currency = Absent THEN Fails({"ErrUnavailable"})
  ELSE [err |-> {}, money |-> money]

decodeQuote(a) ==
  LET money == [amount |-> a.amount, currency |-> a.currency] IN
  IF a.status \in {400, 422} THEN Fails({"ErrRejected"})
  ELSE IF a.status # 200 THEN Fails({"ErrUnavailable"})
  ELSE IF ~a.json THEN Fails({"ErrUnavailable"})
  ELSE IF a.amount = Absent \/ a.currency = Absent THEN Fails({"ErrUnavailable"})
  ELSE IF ~ValidateMoney(money) THEN Fails({"ErrUnavailable"})
  ELSE [err |-> {}, money |-> money]

(* Client.Quote, of a request it could build: the errors of marshalling    *)
(* one integer and of a base URL that does not parse are left out.         *)
Quoted(a) ==
  IF a.transport # "done" THEN classifyTransport(a.transport) ELSE decodeQuote(a)
=============================================================================

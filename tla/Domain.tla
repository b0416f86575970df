------------------------------- MODULE Domain -------------------------------
(***************************************************************************)
(* The shared rules of internal/domain/domain.go: identifiers, the weight  *)
(* range and what a valid amount of money is.                              *)
(***************************************************************************)
EXTENDS Integers

CONSTANTS
  ShipmentId,     \* every shipment ID that can occur
  EventId,        \* every event ID that can occur
  Currency,       \* currency strings that can occur, well formed or not
  CurrencyCode    \* those of three letters A..Z

ASSUME CurrencyAssumption == CurrencyCode \subseteq Currency

MinWeightGrams == 1
MaxWeightGrams == 30000

ValidateWeight(w) == w >= MinWeightGrams /\ w <= MaxWeightGrams

Money == [amount : Int, currency : Currency]

isCurrencyCode(c) == c \in CurrencyCode

ValidateMoney(m) == m.amount >= 0 /\ isCurrencyCode(m.currency)
=============================================================================

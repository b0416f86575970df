------------------------------- MODULE Faults -------------------------------
(***************************************************************************)
(* The disturbances ParcelLab is built to survive: an outage, a process    *)
(* that stops, an answer that is lost, a rebalance, an operator's replay.  *)
(* They come from outside the program at any moment; the model counts them *)
(* so that a behaviour has at most MaxDisturbances.  A property that holds *)
(* for every MaxDisturbances holds for every finite number of outages.     *)
(***************************************************************************)
EXTENDS Naturals

CONSTANTS
  None,              \* SQL NULL, a nil pointer, "nobody"
  MaxDisturbances    \* bound on the disturbances of one behaviour

ASSUME MaxDisturbancesAssumption == MaxDisturbances \in Nat

VARIABLE disturbances

(* One more disturbance strikes; conjoined to every action that models one. *)
Disturb ==
  /\ disturbances < MaxDisturbances
  /\ disturbances' = disturbances + 1

Undisturbed == UNCHANGED disturbances
=============================================================================

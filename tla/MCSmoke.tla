------------------------------- MODULE MCSmoke -------------------------------
(***************************************************************************)
(* Instances of Smoke for TLC.                                             *)
(***************************************************************************)
EXTENDS Smoke

CONSTANTS s1, s2, e1, e2, p1, USD, usd

OneWeight == {1500}
NoFaultyAnswer == {}
Unavailable == {{"ErrUnavailable"}}
NoForeign == {}
OnePartition == [s \in ShipmentId |-> p1]
=============================================================================

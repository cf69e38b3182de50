---------------------------- MODULE MCSettlements ----------------------------
(***************************************************************************)
(* Instances of Settlements for TLC.                                       *)
(***************************************************************************)
EXTENDS Settlements

CONSTANTS alice, bob, carol, usd, eur, none, e1, e2
=============================================================================

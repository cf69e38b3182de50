----------------------------- MODULE MCGroupSync -----------------------------
(***************************************************************************)
(* An instance of GroupSync for TLC: alice created the group and has the   *)
(* tab a1, bob has b1; bob's edit is a log entry.                          *)
(***************************************************************************)
EXTENDS GroupSync, TLC

CONSTANTS alice, bob, a1, b1, e1, e2

\* One tab and one edit per member.
PairUserOf == (a1 :> alice) @@ (b1 :> bob)
PairTabOf  == (e1 :> a1) @@ (e2 :> b1)
=============================================================================

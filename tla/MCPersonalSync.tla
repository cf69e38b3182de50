--------------------------- MODULE MCPersonalSync ---------------------------
(***************************************************************************)
(* Instances of PersonalSync for TLC.                                      *)
(***************************************************************************)
EXTENDS PersonalSync, TLC

CONSTANTS d1, d2, o1, o2, o3, seed, nothing

Symmetry == Permutations({d1, d2}) \cup Permutations({o1, o2, o3})
=============================================================================

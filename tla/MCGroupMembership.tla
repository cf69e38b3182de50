-------------------------- MODULE MCGroupMembership --------------------------
(***************************************************************************)
(* Instances of GroupMembership for TLC: alice created the group.          *)
(***************************************************************************)
EXTENDS GroupMembership, TLC

CONSTANTS alice, bob, carol, r1, r2, r3, r4, groupRow

\* Requests are alike, and so are the users who did not create the group.
Symmetry == Permutations(Requests) \cup Permutations(Users \ {Creator})
=============================================================================

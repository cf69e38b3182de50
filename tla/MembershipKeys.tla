--------------------------- MODULE MembershipKeys ---------------------------
(***************************************************************************)
(* What membership changes promise to the rest of the system: people come  *)
(* and go one at a time, and every departure comes with a new encryption   *)
(* key, in the same step.  GroupSync takes exactly these changes as given. *)
(***************************************************************************)
EXTENDS Naturals

CONSTANTS Users, Creator

VARIABLES members, key

membershipVars == <<members, key>>

Init ==
    /\ members = {Creator}
    /\ key = 1

Join(u) ==
    /\ u \notin members
    /\ members' = members \cup {u}
    /\ UNCHANGED key

Depart(u) ==
    /\ u \in members
    /\ members' = members \ {u}
    /\ key' = key + 1

Next == \E u \in Users : Join(u) \/ Depart(u)

Spec == Init /\ [][Next]_membershipVars
=============================================================================

---------------------------- MODULE SharedLedger ----------------------------
(***************************************************************************)
(* What the group blob promises to the people who edit it, with the HTTP   *)
(* calls, vector clocks and encryption keys left out: the blob is a ledger *)
(* of edits, every edit enters it at most once and at its end, and an edit *)
(* that was reported as saved is in it.  A call that was given up may      *)
(* still take effect, because its request may be under way.                *)
(***************************************************************************)
EXTENDS Sequences

CONSTANT Edits

VARIABLES ledger, status

ledgerVars == <<ledger, status>>

Status == {"new", "open", "saved", "failed"}

Init ==
    /\ ledger = <<>>
    /\ status = [e \in Edits |-> "new"]

Open(e) ==
    /\ status[e] = "new"
    /\ status' = [status EXCEPT ![e] = "open"]
    /\ UNCHANGED ledger

Apply(e) ==
    /\ status[e] \in {"open", "failed"}
    /\ \A i \in DOMAIN ledger : ledger[i] # e
    /\ ledger' = Append(ledger, e)
    /\ UNCHANGED status

\* Several calls of one tab may share an answer, so one step settles a set.
Report ==
    /\ \A e \in Edits :
        \/ status'[e] = status[e]
        \/ status[e] = "open" /\ status'[e] = "failed"
        \/ /\ status[e] = "open" /\ status'[e] = "saved"
           /\ \E i \in DOMAIN ledger : ledger[i] = e
    /\ status' \in [Edits -> Status]
    /\ UNCHANGED ledger

Next ==
    \/ \E e \in Edits : Open(e) \/ Apply(e)
    \/ Report

Spec == Init /\ [][Next]_ledgerVars
=============================================================================

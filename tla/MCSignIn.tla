------------------------------ MODULE MCSignIn ------------------------------
(***************************************************************************)
(* Instances, for TLC, of how a user signs in and stays signed in: the     *)
(* requests for the credentials of one address, and the sessions of one    *)
(* user.  They share no state; in each behaviour one of them runs.         *)
(***************************************************************************)
EXTENDS Sessions, Accounts, TLC

CONSTANTS t1, t2, b1, r1, r2, p1, p2

VARIABLE part  \* the one that runs

MCBrowserOf == (t1 :> b1) @@ (t2 :> b1)

\* The tabs are alike, and so are the requests and the passwords.
MCSymmetry ==
    Permutations({t1, t2}) \cup Permutations({r1, r2}) \cup Permutations({p1, p2})

\* Sessions stay as they begin while accounts run, and the other way round; the
\* address is then free.
SignInInit ==
    /\ part \in {"sessions", "accounts"}
    /\ Init /\ AccountsInit
    /\ part = "sessions" => user = NoUser

\* Bounds: a user with a fault behind them is not restricted, and the last random
\* value is drawn while no failed login is counted.
FewFaults == barred' => faults' = 0
FewGuesses == failures' > 0 => drawn' < MaxDrawn

SignInNext ==
    \/ part = "sessions" /\ Next /\ UNCHANGED <<part, accountVars>> /\ FewFaults
    \/ part = "accounts" /\ AccountsNext /\ UNCHANGED <<part, vars>> /\ FewGuesses

SignInSpec == SignInInit /\ [][SignInNext]_<<part, vars, accountVars>>
=============================================================================

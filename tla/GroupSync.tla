------------------------------ MODULE GroupSync ------------------------------
(***************************************************************************)
(* The shared group blob: the server's group_sync row, guarded by the      *)
(* group's encryption key and a vector clock, and the browser tabs that    *)
(* edit it with fetch / decrypt / mutate / encrypt / upload, retried on    *)
(* conflict (modifySyncBlob, createGroupExpense, addLogEntry).             *)
(*                                                                         *)
(* An edit is one call of such a function.  The plaintext of the blob is   *)
(* abstracted to the sequence of edits that produced it; a key is a        *)
(* natural number, a fresh one for every rotation, NoKey standing for no   *)
(* key (and, in blobKey, for no group_sync row).                           *)
(***************************************************************************)
EXTENDS Integers, Sequences

CONSTANTS
    Users,       \* accounts
    Creator,     \* the user who created the group
    Tabs,        \* browser tabs: each has its own module-level caches
    Edits,       \* calls that change the blob
    LogAppends,  \* the calls that are addLogEntry: no key refresh
    UserOf,      \* the account signed in in a tab
    TabOf,       \* the tab a call runs in
    MaxKey       \* bound on key rotations

ASSUME ConstantsAssumption ==
    /\ Creator \in Users
    /\ LogAppends \subseteq Edits
    /\ UserOf \in [Tabs -> Users]
    /\ TabOf \in [Edits -> Tabs]
    /\ MaxKey \in Nat \ {0}

NoKey == 0
MaxAttempts == 3

VARIABLES
    members,     \* users with left_at IS NULL
    key,         \* groups.encryption_key
    blobKey,     \* the key group_sync.encrypted_blob is encrypted with
    ledger,      \* the plaintext of group_sync.encrypted_blob
    clock,       \* group_sync.vector_clock
    keyCache,    \* per tab: groupKeyCache
    fetch,       \* per tab: keyFetchState, the key request and its answer
    fetchedKey,  \* per tab: the key keyFetchState resolved to
    stage,       \* per call: where its loop is
    attempt,     \* per call: loop counter
    opKey,       \* per call: groupKey
    base,        \* per call: the plaintext it fetched and mutates
    baseClock,   \* per call: the vector clock fetched with it
    wire         \* per call: its PUT, as the server sees it

serverVars == <<members, key, blobKey, ledger, clock>>
tabVars    == <<keyCache, fetch, fetchedKey>>
callVars   == <<stage, attempt, opKey, base, baseClock, wire>>
vars       == <<serverVars, tabVars, callVars>>

Keys == 0..MaxKey
Outcomes == {"saved", "denied", "lost", "conflicted", "undecryptable"}
Stages == {"new", "get", "read", "key", "put"} \cup Outcomes
\* A PUT is sent, passes requireGroupAccess, and is applied or refused (409).
Wire == {"none", "sent", "checked", "applied", "refused", "denied"}

\* The account of a call
Actor(e) == UserOf[TabOf[e]]

TypeOK ==
    /\ members \subseteq Users
    /\ key \in Keys \ {NoKey}
    /\ blobKey \in Keys
    /\ ledger \in Seq(Edits)
    /\ clock \in [Users -> Nat]
    /\ keyCache \in [Tabs -> Keys]
    /\ fetch \in [Tabs -> {"none", "sent", "granted", "cached"}]
    /\ fetchedKey \in [Tabs -> Keys]
    /\ stage \in [Edits -> Stages]
    /\ attempt \in [Edits -> 0..MaxAttempts - 1]
    /\ opKey \in [Edits -> Keys]
    /\ base \in [Edits -> Seq(Edits)]
    /\ baseClock \in [Edits -> [Users -> Nat]]
    /\ wire \in [Edits -> Wire]

Init ==
    /\ members = {Creator}
    /\ key = 1
    /\ blobKey = NoKey
    /\ ledger = <<>>
    /\ clock = [u \in Users |-> 0]
    /\ keyCache = [t \in Tabs |-> NoKey]
    /\ fetch = [t \in Tabs |-> "none"]
    /\ fetchedKey = [t \in Tabs |-> NoKey]
    /\ stage = [e \in Edits |-> "new"]
    /\ attempt = [e \in Edits |-> 0]
    /\ opKey = [e \in Edits |-> NoKey]
    /\ base = [e \in Edits |-> <<>>]
    /\ baseClock = [e \in Edits |-> [u \in Users |-> 0]]
    /\ wire = [e \in Edits |-> "none"]

(***************************************************************************)
(* Vector clocks.  A key missing from a clock object counts as 0.          *)
(***************************************************************************)
\* Fault: equal clocks count as a conflict.
ConflictOnEqual(serverClock, clientClock) ==
    \E u \in Users : serverClock[u] >= clientClock[u]

DetectConflict(serverClock, clientClock) ==
    \E u \in Users : serverClock[u] > clientClock[u]

MergeClocks(serverClock, clientClock) ==
    [u \in Users |-> IF serverClock[u] > clientClock[u] THEN serverClock[u]
                                                        ELSE clientClock[u]]

(***************************************************************************)
(* Membership changes on the server.  Leaving and removal rotate the key   *)
(* and re-encrypt the blob in the same transaction; the transaction is     *)
(* aborted when the stored blob does not decrypt.  The clock is not moved. *)
(***************************************************************************)
\* Fault: a departure keeps the key.
KeepsKey ==
    /\ key < MaxKey
    /\ UNCHANGED <<key, blobKey, ledger, clock>>

RotateGroupEncryptionKey ==
    /\ key < MaxKey
    /\ blobKey \in {NoKey, key}
    /\ key' = key + 1
    /\ blobKey' = IF blobKey = NoKey THEN NoKey ELSE key + 1
    /\ UNCHANGED <<ledger, clock>>

\* The leaver's tab drops its key, unless the answer is lost.
LeaveGroup(t) ==
    /\ UserOf[t] \in members
    /\ members' = members \ {UserOf[t]}
    /\ RotateGroupEncryptionKey
    /\ keyCache' \in {keyCache, [keyCache EXCEPT ![t] = NoKey]}
    /\ UNCHANGED <<fetch, fetchedKey, callVars>>

\* The admin's tab caches the key in the answer, unless the answer is lost.
RemoveMember(t, u) ==
    /\ UserOf[t] \in members /\ u \in members \ {UserOf[t]}
    /\ members' = members \ {u}
    /\ RotateGroupEncryptionKey
    /\ keyCache' \in {keyCache, [keyCache EXCEPT ![t] = key']}
    /\ UNCHANGED <<fetch, fetchedKey, callVars>>

\* fetchGroupEncryptionKey, called by tab t outside an edit: the answer of the
\* last 60 seconds is used when there is one, a request in flight is shared.
UseOrFetchKey(t) ==
    /\ keyCache' = IF fetch[t] = "cached"
                   THEN [keyCache EXCEPT ![t] = fetchedKey[t]] ELSE keyCache
    /\ fetch' = IF fetch[t] = "none"
                THEN [fetch EXCEPT ![t] = "sent"] ELSE fetch
    /\ UNCHANGED fetchedKey

JoinGroup(t) ==
    /\ UserOf[t] \notin members
    /\ members' = members \cup {UserOf[t]}
    /\ UseOrFetchKey(t)
    /\ UNCHANGED <<key, blobKey, ledger, clock, callVars>>

\* Opening the group or the group list: a tab without a key, or whose key does
\* not decrypt the blob it was sent, asks for the key.
LoadGroup(t) ==
    /\ UserOf[t] \in members
    /\ \/ keyCache[t] = NoKey
       \/ blobKey # NoKey /\ blobKey # keyCache[t]
    /\ UseOrFetchKey(t)
    /\ UNCHANGED <<serverVars, callVars>>

\* The group answers 403: the tab forgets the group and its key.
DropGroup(t) ==
    /\ UserOf[t] \notin members
    /\ keyCache[t] # NoKey
    /\ keyCache' = [keyCache EXCEPT ![t] = NoKey]
    /\ UNCHANGED <<serverVars, fetch, fetchedKey, callVars>>

(***************************************************************************)
(* GET /encryption-key: access check, then the key is read and delivered   *)
(* to the tab and to every call that waits for it.                         *)
(***************************************************************************)
Waiting(t) == {e \in Edits : TabOf[e] = t /\ stage[e] = "key"}

KeyAccess(t) ==
    /\ fetch[t] = "sent"
    /\ UserOf[t] \in members
    /\ fetch' = [fetch EXCEPT ![t] = "granted"]
    /\ UNCHANGED <<serverVars, keyCache, fetchedKey, callVars>>

KeyReply(t) ==
    /\ fetch[t] = "granted"
    /\ fetch' = [fetch EXCEPT ![t] = "cached"]
    /\ fetchedKey' = [fetchedKey EXCEPT ![t] = key]
    /\ keyCache' = [keyCache EXCEPT ![t] = key]
    /\ opKey' = [e \in Edits |-> IF e \in Waiting(t) THEN key ELSE opKey[e]]
    /\ attempt' = [e \in Edits |-> IF e \in Waiting(t) THEN 1 ELSE attempt[e]]
    /\ stage' = [e \in Edits |-> IF e \in Waiting(t) THEN "get" ELSE stage[e]]
    /\ UNCHANGED <<serverVars, base, baseClock, wire>>

\* Fault: the shared promise is dropped and never settles.
NeverSettles(t) ==
    /\ fetch[t] \in {"sent", "granted"}
    /\ fetch' = [fetch EXCEPT ![t] = "none"]
    /\ UNCHANGED <<serverVars, keyCache, fetchedKey, callVars>>

\* No key: the request was denied or the network failed.  Nothing is cached and
\* the waiting calls rethrow the decryption error.
KeyFails(t) ==
    /\ fetch[t] \in {"sent", "granted"}
    /\ fetch' = [fetch EXCEPT ![t] = "none"]
    /\ stage' = [e \in Edits |-> IF e \in Waiting(t) THEN "undecryptable"
                                                       ELSE stage[e]]
    /\ UNCHANGED <<serverVars, keyCache, fetchedKey, attempt, opKey, base,
                   baseClock, wire>>

KeyFetchExpires(t) ==
    /\ fetch[t] = "cached"
    /\ fetch' = [fetch EXCEPT ![t] = "none"]
    /\ fetchedKey' = [fetchedKey EXCEPT ![t] = NoKey]
    /\ UNCHANGED <<serverVars, keyCache, callVars>>

(***************************************************************************)
(* One call: the loop of modifySyncBlob.                                   *)
(***************************************************************************)
Go(e, s) == stage' = [stage EXCEPT ![e] = s]

StartEdit(e) ==
    /\ stage[e] = "new"
    /\ keyCache[TabOf[e]] # NoKey
    /\ opKey' = [opKey EXCEPT ![e] = keyCache[TabOf[e]]]
    /\ Go(e, "get")
    /\ UNCHANGED <<serverVars, tabVars, attempt, base, baseClock, wire>>

\* requireGroupAccess on GET /sync
GetAccess(e) ==
    /\ stage[e] = "get"
    /\ Go(e, IF Actor(e) \in members THEN "read" ELSE "denied")
    /\ UNCHANGED <<serverVars, tabVars, attempt, opKey, base, baseClock, wire>>

\* getGroupSync answers and the blob decrypts (or there is none yet): the
\* mutation is applied to it and uploaded with the fetched clock.
ReadAndUpload(e) ==
    /\ stage[e] = "read"
    /\ blobKey \in {NoKey, opKey[e]}
    /\ base' = [base EXCEPT ![e] = ledger]
    /\ baseClock' = [baseClock EXCEPT ![e] = clock]
    /\ wire' = [wire EXCEPT ![e] = "sent"]
    /\ Go(e, "put")
    /\ UNCHANGED <<serverVars, tabVars, attempt, opKey>>

Undecryptable(e) == stage[e] = "read" /\ blobKey \notin {NoKey, opKey[e]}

\* The first attempt refreshes the key: from the 60-second cache ...
RefreshFromCache(e) ==
    LET t == TabOf[e] IN
    /\ Undecryptable(e) /\ attempt[e] = 0 /\ e \notin LogAppends
    /\ fetch[t] = "cached"
    /\ keyCache' = [keyCache EXCEPT ![t] = fetchedKey[t]]
    /\ opKey' = [opKey EXCEPT ![e] = fetchedKey[t]]
    /\ attempt' = [attempt EXCEPT ![e] = 1]
    /\ Go(e, "get")
    /\ UNCHANGED <<serverVars, fetch, fetchedKey, base, baseClock, wire>>

\* ... or by asking the server, sharing a request that is in flight.
RefreshFromServer(e) ==
    LET t == TabOf[e] IN
    /\ Undecryptable(e) /\ attempt[e] = 0 /\ e \notin LogAppends
    /\ fetch[t] # "cached"
    /\ fetch' = [fetch EXCEPT ![t] = IF @ = "none" THEN "sent" ELSE @]
    /\ Go(e, "key")
    /\ UNCHANGED <<serverVars, keyCache, fetchedKey, attempt, opKey, base,
                   baseClock, wire>>

GiveUpUndecryptable(e) ==
    /\ Undecryptable(e)
    /\ attempt[e] > 0 \/ e \in LogAppends
    /\ Go(e, "undecryptable")
    /\ UNCHANGED <<serverVars, tabVars, attempt, opKey, base, baseClock, wire>>

\* requireGroupAccess on PUT /sync
PutAccess(e) ==
    /\ wire[e] = "sent"
    /\ wire' = [wire EXCEPT ![e] =
                    IF Actor(e) \in members THEN "checked" ELSE "denied"]
    /\ UNCHANGED <<serverVars, tabVars, stage, attempt, opKey, base, baseClock>>

\* Fault: the key an upload was encrypted with is not checked.
AcceptsAnyKey(e) == blobKey # NoKey => ~DetectConflict(clock, baseClock[e])

\* The transaction of syncGroupBlob, which holds the groups row.
Accepts(e) ==
    /\ opKey[e] = key
    /\ blobKey # NoKey => ~DetectConflict(clock, baseClock[e])

\* Fault: the writer's component of the clock is not counted up.
MergesOnly(e) ==
    /\ wire[e] = "checked"
    /\ Accepts(e)
    /\ blobKey' = opKey[e]
    /\ ledger' = Append(base[e], e)
    /\ clock' = MergeClocks(clock, baseClock[e])
    /\ wire' = [wire EXCEPT ![e] = "applied"]
    /\ UNCHANGED <<members, key, tabVars, stage, attempt, opKey, base, baseClock>>

SyncGroupBlob(e) ==
    /\ wire[e] = "checked"
    /\ Accepts(e)
    /\ blobKey' = opKey[e]
    /\ ledger' = Append(base[e], e)
    /\ clock' = [MergeClocks(clock, baseClock[e]) EXCEPT ![Actor(e)] = @ + 1]
    /\ wire' = [wire EXCEPT ![e] = "applied"]
    /\ UNCHANGED <<members, key, tabVars, stage, attempt, opKey, base, baseClock>>

RefuseGroupBlob(e) ==
    /\ wire[e] = "checked"
    /\ ~Accepts(e)
    /\ wire' = [wire EXCEPT ![e] = "refused"]
    /\ UNCHANGED <<serverVars, tabVars, stage, attempt, opKey, base, baseClock>>

\* Fault: one attempt too many.
RetriesOnceMore(e) ==
    /\ stage[e] = "put"
    /\ \/ wire[e] = "applied" /\ Go(e, "saved") /\ UNCHANGED attempt
       \/ wire[e] = "denied" /\ Go(e, "denied") /\ UNCHANGED attempt
       \/ /\ wire[e] = "refused" /\ attempt[e] + 1 <= MaxAttempts
          /\ Go(e, "get")
          /\ attempt' = [attempt EXCEPT ![e] = @ + 1]
    /\ UNCHANGED <<serverVars, tabVars, opKey, base, baseClock, wire>>

\* The answer reaches the call.
PutReply(e) ==
    /\ stage[e] = "put"
    /\ \/ wire[e] = "applied" /\ Go(e, "saved") /\ UNCHANGED attempt
       \/ wire[e] = "denied" /\ Go(e, "denied") /\ UNCHANGED attempt
       \/ /\ wire[e] = "refused" /\ attempt[e] + 1 < MaxAttempts
          /\ Go(e, "get")
          /\ attempt' = [attempt EXCEPT ![e] = @ + 1]
       \/ /\ wire[e] = "refused" /\ attempt[e] + 1 = MaxAttempts
          /\ Go(e, "conflicted") /\ UNCHANGED attempt
    /\ UNCHANGED <<serverVars, tabVars, opKey, base, baseClock, wire>>

\* Fault: the error of a PUT is swallowed and the call returns normally.
SwallowsError(e) ==
    /\ stage[e] = "put"
    /\ Go(e, "saved")
    /\ UNCHANGED <<serverVars, tabVars, attempt, opKey, base, baseClock, wire>>

\* fetch() rejects: the call throws; a PUT that was sent stays under way.
NetworkError(e) ==
    /\ stage[e] \in {"get", "read", "put"}
    /\ Go(e, "lost")
    /\ UNCHANGED <<serverVars, tabVars, attempt, opKey, base, baseClock, wire>>

\* The tab is reloaded or the user logs out: caches and running calls are gone.
ReloadTab(t) ==
    /\ keyCache' = [keyCache EXCEPT ![t] = NoKey]
    /\ fetch' = [fetch EXCEPT ![t] = "none"]
    /\ stage' = [e \in Edits |->
                    IF TabOf[e] = t /\ stage[e] \in {"get", "read", "key", "put"}
                    THEN "lost" ELSE stage[e]]
    /\ fetchedKey' = [fetchedKey EXCEPT ![t] = NoKey]
    /\ UNCHANGED <<serverVars, attempt, opKey, base, baseClock, wire>>

CallStep(e) ==
    \/ GetAccess(e) \/ ReadAndUpload(e)
    \/ RefreshFromCache(e) \/ RefreshFromServer(e) \/ GiveUpUndecryptable(e)
    \/ PutReply(e)

ServerStep(e) == PutAccess(e) \/ SyncGroupBlob(e) \/ RefuseGroupBlob(e)

KeyStep(t) == KeyAccess(t) \/ KeyReply(t) \/ KeyFails(t)

Next ==
    \/ \E e \in Edits :
        StartEdit(e) \/ CallStep(e) \/ ServerStep(e) \/ NetworkError(e)
    \/ \E t \in Tabs :
        \/ LeaveGroup(t) \/ JoinGroup(t) \/ LoadGroup(t) \/ DropGroup(t)
        \/ KeyStep(t) \/ KeyFetchExpires(t) \/ ReloadTab(t)
        \/ \E u \in Users : RemoveMember(t, u)

Spec == Init /\ [][Next]_vars

\* A started call is driven by the event loop, a request by the server; nothing
\* obliges users to start edits, change the membership or open the group.
Fairness ==
    /\ \A e \in Edits : WF_vars(CallStep(e)) /\ WF_vars(ServerStep(e))
    /\ \A t \in Tabs : WF_vars(KeyStep(t))

FairSpec == Spec /\ Fairness

(***************************************************************************)
(* Properties                                                              *)
(***************************************************************************)

\* The stored blob decrypts with the group's current key: no upload and no
\* rotation bricks it for the members (comment in syncGroupBlob).
BlobReadable == blobKey \in {NoKey, key}

\* No update is lost or doubled: an edit is in the stored blob exactly when its
\* upload was applied, once and for good, whatever interleaving, retry or rotation
\* (vector-clock check of syncGroupBlob; it is also what keeps the displayId
\* numbers of createGroupExpense and the hash links of addLogEntry consistent).
AppliedIsKept ==
    \A e \in Edits : wire[e] = "applied" <=> \E i \in DOMAIN ledger : ledger[i] = e

AppliedOnce ==
    \A i, j \in DOMAIN ledger : ledger[i] = ledger[j] => i = j

NoLostUpdate == AppliedIsKept /\ AppliedOnce

\* The blob changes only by edits of users who are members at that moment,
\* although syncGroupBlob does not look at the membership again: a departure
\* rotates the key, which refuses what the departed user has under way.
OnlyMembersWrite ==
    [][\A e \in Edits : wire[e] # "applied" /\ wire'[e] = "applied"
                           => Actor(e) \in members]_vars

\* A PUT is refused only if the blob was replaced or the key was rotated since
\* its GET: the conflict check has no false positives.
NoSpuriousConflict ==
    [][\A e \in Edits : wire[e] = "checked" /\ wire'[e] = "refused"
                           => base[e] # ledger \/ opKey[e] # key]_vars

\* The blob is a ledger with atomic, at-most-once edits and truthful answers.
StatusOf(s) ==
    CASE s = "new" -> "new"
      [] s \in {"get", "read", "key", "put"} -> "open"
      [] s = "saved" -> "saved"
      [] OTHER -> "failed"

Abstract == INSTANCE SharedLedger WITH
                status <- [e \in Edits |-> StatusOf(stage[e])]

ImplementsLedger == Abstract!Spec

\* Every started call returns to its caller: no wait is endless.
CallsReturn ==
    \A e \in Edits : stage[e] # "new" ~> stage[e] \in Outcomes

=============================================================================

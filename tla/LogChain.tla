------------------------------ MODULE LogChain ------------------------------
(***************************************************************************)
(* The activity log of a group: a chain of hashes in the group's blob,     *)
(* which every member appends to (web stores/logStore.ts) and either of    *)
(* two verifiers checks (verifyIntegrity there, verifyLogChain of the      *)
(* shared engine/logManager.ts).  A hash is modelled by what it is         *)
(* computed from: the hash before, and the entry itself.                   *)
(***************************************************************************)
EXTENDS Naturals, Sequences, SequencesExt, FiniteSets

CONSTANTS
    Appends,        \* calls of addLogEntry, each of which makes one entry
    MaxTries,       \* PUTs of one call
    MaxEdits        \* bound: other edits of the blob

ASSUME LogAssumption == MaxTries \in Nat \ {0} /\ MaxEdits \in Nat

VARIABLES
    version, entries,   \* the blob on the server
    inherited,          \* the blob was begun with entries of the engine's format
    append,             \* how far each append is, and the blob it has read
    others              \* other edits of the blob so far

chainVars == <<version, entries, inherited, append, others>>

-----------------------------------------------------------------------------
\* Entries carry one of two hashes: SHA-512 over the engine's fields, or
\* SHA-256 over the fields that are displayed.
Hash(form, prev, id) == Append(prev, <<form, id>>)
EngineEntry(prev, id) == [id |-> id, form |-> "engine", prev |-> prev, hash |-> Hash("engine", prev, id)]
LegacyEntry(prev, id) == [id |-> id, form |-> "legacy", prev |-> prev, hash |-> Hash("legacy", prev, id)]

\* fromEngineEntry: read by addLogEntry, an engine entry takes the legacy fields
\* and keeps its hash.
FromEngineEntry(e) == [e EXCEPT !.form = "legacy"]
Read(l) == [i \in DOMAIN l |-> FromEngineEntry(l[i])]
LastHash(l) == IF l = <<>> THEN <<>> ELSE Last(l).hash

\* verifyIntegrity: an entry is broken if it does not link to the entry before
\* it, or its hash is not the one of its own format.
BrokenAt(l) ==
    {i \in DOMAIN l : \/ l[i].prev # LastHash(SubSeq(l, 1, i - 1))
                      \/ l[i].hash # Hash(l[i].form, l[i].prev, l[i].id)}

\* verifyLogChain, for entries of the engine: one entry has no successor, and
\* from it the links lead back to a first entry over hashes that are right.
Heads(l) == {i \in DOMAIN l : \A j \in DOMAIN l : l[j].prev = <<>> \/ l[j].prev # l[i].hash}

\* Fault: the entry before another is looked for at its place, not by its hash.
BeforeByPlace(l, i) == {j \in DOMAIN l : j + 1 = i}

Before(l, i) == {j \in DOMAIN l : l[i].prev # <<>> /\ l[j].hash = l[i].prev}

Walk(l, i) ==
    LET reached[n \in 0..Len(l)] ==
            IF n = 0 THEN {i} ELSE reached[n - 1] \cup UNION {Before(l, j) : j \in reached[n - 1]}
    IN  reached[Len(l)]

ChainHolds(l) ==
    l = <<>> \/ \E i \in DOMAIN l :
        /\ Heads(l) = {i}
        /\ \A j \in Walk(l, i) : /\ l[j].hash = Hash("engine", l[j].prev, l[j].id)
                                 /\ l[j].prev = <<>> \/ Before(l, j) # {}

-----------------------------------------------------------------------------
Idle == [at |-> "idle", version |-> 0, entries |-> <<>>, tries |-> 0]

LogTypeOK ==
    /\ version \in Nat /\ others \in 0..MaxEdits /\ inherited \in BOOLEAN
    /\ \A a \in Appends : /\ append[a].at \in {"idle", "read", "conflict", "done", "failed"}
                          /\ append[a].version <= version /\ append[a].tries \in 0..MaxTries
    /\ \A i \in DOMAIN entries : entries[i].form \in {"engine", "legacy"}

ChainInit ==
    /\ version = 0 /\ others = 0 /\ inherited \in BOOLEAN
    /\ entries = IF inherited THEN <<EngineEntry(<<>>, "first")>> ELSE <<>>
    /\ append = [a \in Appends |-> Idle]

\* addLogEntry reads the blob before its first PUT, and again after a conflict;
\* the call gives up when a request fails or the blob cannot be read.
ReadBlob(a) ==
    /\ append[a].at \in {"idle", "conflict"}
    /\ append' = [append EXCEPT ![a] = [at |-> "read", version |-> version, entries |-> Read(entries), tries |-> append[a].tries]]
    /\ UNCHANGED <<version, entries, inherited, others>>

GiveUp(a) ==
    /\ append[a].at \in {"idle", "read", "conflict"}
    /\ append' = [append EXCEPT ![a].at = "failed"]
    /\ UNCHANGED <<version, entries, inherited, others>>

\* Fault: the entry is linked and hashed before the log is read.
LinkedOnce(a) == LegacyEntry(<<>>, a)

\* Every attempt links and hashes the entry anew, to the tail it has just read.
Linked(a) == LegacyEntry(LastHash(append[a].entries), a)

Put(a) ==
    /\ append[a].at = "read"
    /\ IF append[a].version = version
       THEN /\ version' = version + 1 /\ entries' = Append(append[a].entries, Linked(a))
            /\ append' = [append EXCEPT ![a].at = "done"]
       ELSE /\ append' = [append EXCEPT ![a].at = IF append[a].tries + 1 = MaxTries THEN "failed" ELSE "conflict",
                                        ![a].tries = append[a].tries + 1]
            /\ UNCHANGED <<version, entries>>
    /\ UNCHANGED <<inherited, others>>

\* The PUT is accepted and its answer lost: the entry is in, and the call fails.
PutUnanswered(a) ==
    /\ append[a].at = "read" /\ append[a].version = version
    /\ version' = version + 1 /\ entries' = Append(append[a].entries, Linked(a))
    /\ append' = [append EXCEPT ![a].at = "failed"]
    /\ UNCHANGED <<inherited, others>>

\* An expense or a settlement is edited: the blob changes, its log does not.
OtherEdit ==
    /\ others < MaxEdits /\ others' = others + 1 /\ version' = version + 1
    /\ UNCHANGED <<entries, inherited, append>>

ChainNext == (\E a \in Appends : ReadBlob(a) \/ GiveUp(a) \/ Put(a) \/ PutUnanswered(a)) \/ OtherEdit

-----------------------------------------------------------------------------
\* However appends, conflicts and lost answers interleave, verifyIntegrity finds
\* nothing broken in a log that was begun in the legacy format.
ChainVerifies == ~inherited => BrokenAt(entries) = {}

\* The verifiers agree on a sound log: one written by the engine in the order of
\* the entries of the blob passes verifyLogChain, in whatever order it is given.
VerifiersAgree ==
    LET engine[n \in 0..Len(entries)] ==
            IF n = 0 THEN <<>> ELSE Append(engine[n - 1], EngineEntry(LastHash(engine[n - 1]), entries[n].id))
        l == engine[Len(entries)]
    IN  /\ BrokenAt(l) = {} /\ ChainHolds(l) /\ ChainHolds(Reverse(l))
        /\ \A i \in DOMAIN l : i < Len(l) => ~ChainHolds(RemoveAt(l, i))
=============================================================================

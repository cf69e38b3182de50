--------------------------- MODULE GroupSyncProofs ---------------------------
(***************************************************************************)
(* Proofs about GroupSync: for any users, tabs, edits and number of key    *)
(* rotations.  The argument: a tab never holds a clock ahead of the        *)
(* server's, and a clock equal to the server's comes with the ledger the   *)
(* server has (ClockTracksLedger); an upload that passes the conflict      *)
(* check therefore carries the current ledger plus one edit.               *)
(***************************************************************************)
EXTENDS GroupSync, TLAPS

LEq(c, d) == \A u \in Users : c[u] <= d[u]

\* No row yet: nothing was ever stored.
NoRowIsEmpty ==
    blobKey = NoKey => ledger = <<>> /\ clock = [u \in Users |-> 0]

ClockTracksLedger ==
    \A e \in Edits :
        /\ LEq(baseClock[e], clock)
        /\ baseClock[e] = clock => base[e] = ledger

\* How far the call and its PUT can be apart.
StageWire ==
    \A e \in Edits :
        /\ stage[e] = "new" => wire[e] = "none"
        /\ stage[e] \in {"get", "read", "key", "undecryptable"}
                => wire[e] \in {"none", "refused"}
        /\ stage[e] = "put" => wire[e] # "none"
        /\ stage[e] = "saved" => wire[e] = "applied"

\* No key is known before it is made ...
KeysKnown ==
    /\ \A t \in Tabs : keyCache[t] <= key /\ fetchedKey[t] <= key
    /\ \A e \in Edits : opKey[e] <= key

\* ... so an upload under the current key was let in after the last departure.
CurrentKeyIsMembers ==
    \A e \in Edits :
        wire[e] = "checked" /\ opKey[e] = key => Actor(e) \in members

IInv ==
    /\ TypeOK
    /\ BlobReadable
    /\ NoRowIsEmpty
    /\ ClockTracksLedger
    /\ StageWire
    /\ KeysKnown
    /\ CurrentKeyIsMembers
    /\ NoLostUpdate

-----------------------------------------------------------------------------
(* Typing of the operators. *)

LEMMA MergeClocksType ==
    ASSUME NEW c \in [Users -> Nat], NEW d \in [Users -> Nat]
    PROVE  /\ MergeClocks(c, d) \in [Users -> Nat]
           /\ LEq(c, MergeClocks(c, d))
           /\ LEq(d, MergeClocks(c, d))
BY DEF MergeClocks, LEq

LEMMA NoConflictIsLEq ==
    ASSUME NEW c \in [Users -> Nat], NEW d \in [Users -> Nat],
           ~DetectConflict(c, d)
    PROVE  LEq(c, d)
<1> SUFFICES ASSUME NEW u \in Users PROVE c[u] <= d[u]
    BY DEF LEq
<1>1. c[u] \in Nat /\ d[u] \in Nat
    OBVIOUS
<1>2. ~(c[u] > d[u])
    BY DEF DetectConflict
<1>3. QED  BY <1>1, <1>2

LEMMA LEqAntisymmetric ==
    ASSUME NEW c \in [Users -> Nat], NEW d \in [Users -> Nat],
           LEq(c, d), LEq(d, c)
    PROVE  c = d
<1>1. ASSUME NEW u \in Users PROVE c[u] = d[u]
    <2>1. c[u] \in Nat /\ d[u] \in Nat
        OBVIOUS
    <2>2. c[u] <= d[u] /\ d[u] <= c[u]
        BY DEF LEq
    <2>3. QED  BY <2>1, <2>2
<1>2. QED  BY <1>1

LEMMA ActorType == \A e \in Edits : TabOf[e] \in Tabs /\ Actor(e) \in Users
BY ConstantsAssumption DEF Actor

LEMMA KeysType == /\ Keys \subseteq Nat
                  /\ NoKey \in Keys /\ 1 \in Keys \ {NoKey}
                  /\ \A k \in Keys : k < MaxKey => k + 1 \in Keys \ {NoKey}
BY ConstantsAssumption DEF Keys, NoKey

LEMMA TypeInit == Init => TypeOK
BY ConstantsAssumption, KeysType
   DEF Init, TypeOK, Stages, Wire, MaxAttempts, NoKey

(***************************************************************************)
(* Every step preserves the types: one step per action.                    *)
(***************************************************************************)
LEMMA TypeNext == TypeOK /\ [Next]_vars => TypeOK'
<1> SUFFICES ASSUME TypeOK, [Next]_vars PROVE TypeOK'
    OBVIOUS
<1> USE KeysType, ActorType DEF TypeOK, Stages, Outcomes, Wire, MaxAttempts, Go
<1>1. ASSUME NEW e \in Edits, StartEdit(e) PROVE TypeOK'
    BY <1>1 DEF StartEdit, serverVars, tabVars
<1>2. ASSUME NEW e \in Edits, CallStep(e) PROVE TypeOK'
    <2>1. CASE GetAccess(e)
        BY <2>1 DEF GetAccess, serverVars, tabVars
    <2>2. CASE ReadAndUpload(e)
        BY <2>2 DEF ReadAndUpload, serverVars, tabVars
    <2>3. CASE RefreshFromCache(e)
        BY <2>3 DEF RefreshFromCache, serverVars
    <2>4. CASE RefreshFromServer(e)
        BY <2>4 DEF RefreshFromServer, serverVars
    <2>5. CASE GiveUpUndecryptable(e)
        BY <2>5 DEF GiveUpUndecryptable, serverVars, tabVars
    <2>6. CASE PutReply(e)
        <3>1. /\ UNCHANGED <<serverVars, tabVars, opKey, base, baseClock, wire>>
              /\ \E s \in Stages : stage' = [stage EXCEPT ![e] = s]
              /\ \/ attempt' = attempt
                 \/ /\ attempt[e] + 1 < 3
                    /\ attempt' = [attempt EXCEPT ![e] = attempt[e] + 1]
            BY <2>6 DEF PutReply
        <3>2. stage' \in [Edits -> Stages]
            BY <3>1
        <3>3. attempt' \in [Edits -> 0..2]
            <4>1. attempt \in [Edits -> 0..2]
                OBVIOUS
            <4>2. \A n \in 0..2 : n + 1 < 3 => n + 1 \in 0..2
                OBVIOUS
            <4>3. attempt[e] \in 0..2
                BY <4>1
            <4>4. QED  BY <3>1, <4>1, <4>2, <4>3
        <3>4. QED  BY <3>1, <3>2, <3>3 DEF serverVars, tabVars
    <2>7. QED  BY <1>2, <2>1, <2>2, <2>3, <2>4, <2>5, <2>6 DEF CallStep
<1>3. ASSUME NEW e \in Edits, ServerStep(e) PROVE TypeOK'
    <2>1. CASE PutAccess(e)
        BY <2>1 DEF PutAccess, serverVars, tabVars
    <2>2. CASE SyncGroupBlob(e)
        <3>1. clock' \in [Users -> Nat]
            <4> DEFINE m == MergeClocks(clock, baseClock[e])
            <4>1. m \in [Users -> Nat]
                BY MergeClocksType
            <4>2. clock' = [m EXCEPT ![Actor(e)] = @ + 1]
                BY <2>2 DEF SyncGroupBlob
            <4> HIDE DEF m
            <4>3. QED  BY <4>1, <4>2
        <3>2. ledger' \in Seq(Edits)
            BY <2>2 DEF SyncGroupBlob
        <3>3. QED  BY <2>2, <3>1, <3>2 DEF SyncGroupBlob, tabVars
    <2>3. CASE RefuseGroupBlob(e)
        BY <2>3 DEF RefuseGroupBlob, serverVars, tabVars
    <2>4. QED  BY <1>3, <2>1, <2>2, <2>3 DEF ServerStep
<1>4. ASSUME NEW e \in Edits, NetworkError(e) PROVE TypeOK'
    BY <1>4 DEF NetworkError, serverVars, tabVars
<1>5. ASSUME NEW t \in Tabs, KeyStep(t) PROVE TypeOK'
    <2>1. CASE KeyAccess(t)
        BY <2>1 DEF KeyAccess, serverVars, callVars
    <2>2. CASE KeyReply(t)
        BY <2>2 DEF KeyReply, serverVars
    <2>3. CASE KeyFails(t)
        BY <2>3 DEF KeyFails, serverVars
    <2>4. QED  BY <1>5, <2>1, <2>2, <2>3 DEF KeyStep
<1>6. ASSUME NEW t \in Tabs, LeaveGroup(t) PROVE TypeOK'
    BY <1>6 DEF LeaveGroup, RotateGroupEncryptionKey, callVars
<1>7. ASSUME NEW t \in Tabs, NEW u \in Users, RemoveMember(t, u) PROVE TypeOK'
    BY <1>7 DEF RemoveMember, RotateGroupEncryptionKey, callVars
<1>8. ASSUME NEW t \in Tabs, JoinGroup(t) PROVE TypeOK'
    BY <1>8, ConstantsAssumption DEF JoinGroup, UseOrFetchKey, callVars
<1>9. ASSUME NEW t \in Tabs, LoadGroup(t) PROVE TypeOK'
    BY <1>9 DEF LoadGroup, UseOrFetchKey, serverVars, callVars
<1>10. ASSUME NEW t \in Tabs, DropGroup(t) PROVE TypeOK'
    BY <1>10 DEF DropGroup, serverVars, callVars
<1>11. ASSUME NEW t \in Tabs, KeyFetchExpires(t) PROVE TypeOK'
    BY <1>11 DEF KeyFetchExpires, serverVars, callVars
<1>12. ASSUME NEW t \in Tabs, ReloadTab(t) PROVE TypeOK'
    BY <1>12 DEF ReloadTab, serverVars
<1>13. CASE UNCHANGED vars
    BY <1>13 DEF vars, serverVars, tabVars, callVars
<1>14. QED
    BY <1>1, <1>2, <1>3, <1>4, <1>5, <1>6, <1>7, <1>8, <1>9, <1>10, <1>11,
       <1>12, <1>13 DEF Next

\* Types hold in every behaviour.
THEOREM TypeCorrect == Spec => []TypeOK
BY TypeInit, TypeNext, PTL DEF Spec

-----------------------------------------------------------------------------
(* Which steps touch what. *)

\* The steps that are not of a call or its PUT leave the blob's plaintext, the
\* clock and the PUTs alone, and settle or restart calls in known ways only.
TabStep(t) ==
    \/ LeaveGroup(t) \/ JoinGroup(t) \/ LoadGroup(t) \/ DropGroup(t)
    \/ KeyStep(t) \/ KeyFetchExpires(t) \/ ReloadTab(t)
    \/ \E u \in Users : RemoveMember(t, u)

LEMMA TabStepFrame ==
    ASSUME NEW t \in Tabs, TabStep(t)
    PROVE  UNCHANGED <<ledger, clock, base, baseClock, wire>>
BY DEF TabStep, LeaveGroup, JoinGroup, LoadGroup, DropGroup, KeyStep, KeyAccess,
       KeyReply, KeyFails, KeyFetchExpires, ReloadTab, RemoveMember,
       RotateGroupEncryptionKey, serverVars, callVars

\* The plaintext, the clock and a call's snapshot of them change in two steps.
LEMMA LedgerFrame ==
    ASSUME [Next]_vars
    PROVE  \/ UNCHANGED <<ledger, clock, base, baseClock>>
           \/ \E e \in Edits : ReadAndUpload(e)
           \/ \E e \in Edits : SyncGroupBlob(e)
<1>1. CASE UNCHANGED vars
    BY <1>1 DEF vars, serverVars, callVars
<1>2. ASSUME NEW t \in Tabs, TabStep(t)
      PROVE  UNCHANGED <<ledger, clock, base, baseClock>>
    BY <1>2, TabStepFrame
<1>3. ASSUME NEW e \in Edits,
             StartEdit(e) \/ CallStep(e) \/ ServerStep(e) \/ NetworkError(e)
      PROVE  \/ UNCHANGED <<ledger, clock, base, baseClock>>
             \/ ReadAndUpload(e) \/ SyncGroupBlob(e)
    BY <1>3 DEF StartEdit, CallStep, ServerStep, NetworkError, GetAccess,
       RefreshFromCache, RefreshFromServer, GiveUpUndecryptable, PutReply,
       PutAccess, RefuseGroupBlob, serverVars
<1>4. QED  BY <1>1, <1>2, <1>3 DEF Next, TabStep

\* The PUTs change in four steps.
LEMMA WireFrame ==
    ASSUME [Next]_vars
    PROVE  \/ UNCHANGED wire
           \/ \E e \in Edits : \/ ReadAndUpload(e) \/ PutAccess(e)
                              \/ SyncGroupBlob(e) \/ RefuseGroupBlob(e)
<1>1. CASE UNCHANGED vars
    BY <1>1 DEF vars, callVars
<1>2. ASSUME NEW t \in Tabs, TabStep(t) PROVE UNCHANGED wire
    BY <1>2, TabStepFrame
<1>3. ASSUME NEW e \in Edits,
             StartEdit(e) \/ CallStep(e) \/ ServerStep(e) \/ NetworkError(e)
      PROVE  \/ UNCHANGED wire
             \/ ReadAndUpload(e) \/ PutAccess(e)
             \/ SyncGroupBlob(e) \/ RefuseGroupBlob(e)
    BY <1>3 DEF StartEdit, CallStep, ServerStep, NetworkError, GetAccess,
       RefreshFromCache, RefreshFromServer, GiveUpUndecryptable, PutReply
<1>4. QED  BY <1>1, <1>2, <1>3 DEF Next, TabStep
-----------------------------------------------------------------------------
(***************************************************************************)
(* The parts of the inductive invariant, one lemma each.                   *)
(***************************************************************************)
LEMMA IInvInit == Init => IInv
<1> SUFFICES ASSUME Init PROVE IInv
    OBVIOUS
<1>1. TypeOK
    BY TypeInit
<1>2. BlobReadable /\ NoRowIsEmpty
    BY DEF Init, BlobReadable, NoRowIsEmpty
<1>3. ClockTracksLedger
    BY DEF Init, ClockTracksLedger, LEq
<1>4. StageWire /\ CurrentKeyIsMembers
    BY DEF Init, StageWire, CurrentKeyIsMembers
<1>5. KeysKnown
    BY DEF Init, KeysKnown, NoKey
<1>6. NoLostUpdate
    BY DEF Init, NoLostUpdate, AppliedIsKept, AppliedOnce
<1>7. QED  BY <1>1, <1>2, <1>3, <1>4, <1>5, <1>6 DEF IInv

\* An accepted upload replaces exactly the blob it was computed from.
LEMMA AcceptedIsCurrent ==
    ASSUME TypeOK, NoRowIsEmpty, ClockTracksLedger,
           NEW e \in Edits, Accepts(e)
    PROVE  baseClock[e] = clock /\ base[e] = ledger
<1>1. baseClock[e] \in [Users -> Nat] /\ clock \in [Users -> Nat]
    BY DEF TypeOK
<1>2. LEq(baseClock[e], clock)
    BY DEF ClockTracksLedger
<1>3. LEq(clock, baseClock[e])
    <2>1. CASE blobKey = NoKey
        <3>1. clock = [u \in Users |-> 0]
            BY <2>1 DEF NoRowIsEmpty
        <3>2. ASSUME NEW u \in Users PROVE clock[u] <= baseClock[e][u]
            <4>1. clock[u] = 0 /\ baseClock[e][u] \in Nat
                BY <1>1, <3>1
            <4>2. QED  BY <4>1
        <3>3. QED  BY <3>2 DEF LEq
    <2>2. CASE blobKey # NoKey
        <3>1. ~DetectConflict(clock, baseClock[e])
            BY <2>2 DEF Accepts
        <3>2. QED  BY <1>1, <3>1, NoConflictIsLEq
    <2>3. QED  BY <2>1, <2>2
<1>4. baseClock[e] = clock
    BY <1>1, <1>2, <1>3, LEqAntisymmetric
<1>5. QED  BY <1>4 DEF ClockTracksLedger

\* The key and the key of the blob change in a rotation or with an upload.
LEMMA KeyFrame ==
    ASSUME [Next]_vars
    PROVE  \/ UNCHANGED <<key, blobKey>>
           \/ RotateGroupEncryptionKey
           \/ \E e \in Edits : SyncGroupBlob(e)
<1>1. CASE UNCHANGED vars
    BY <1>1 DEF vars, serverVars
<1>2. ASSUME NEW t \in Tabs, TabStep(t)
      PROVE  UNCHANGED <<key, blobKey>> \/ RotateGroupEncryptionKey
    BY <1>2 DEF TabStep, LeaveGroup, JoinGroup, LoadGroup, DropGroup, KeyStep,
       KeyAccess, KeyReply, KeyFails, KeyFetchExpires, ReloadTab, RemoveMember,
       serverVars
<1>3. ASSUME NEW e \in Edits,
             StartEdit(e) \/ CallStep(e) \/ ServerStep(e) \/ NetworkError(e)
      PROVE  UNCHANGED <<key, blobKey>> \/ SyncGroupBlob(e)
    BY <1>3 DEF StartEdit, CallStep, ServerStep, NetworkError, GetAccess,
       ReadAndUpload, RefreshFromCache, RefreshFromServer, GiveUpUndecryptable,
       PutReply, PutAccess, RefuseGroupBlob, serverVars
<1>4. QED  BY <1>1, <1>2, <1>3 DEF Next, TabStep

LEMMA BlobReadableNext ==
    ASSUME TypeOK, BlobReadable, [Next]_vars
    PROVE  BlobReadable'
<1>1. CASE UNCHANGED <<key, blobKey>>
    BY <1>1 DEF BlobReadable
<1>2. CASE RotateGroupEncryptionKey
    BY <1>2 DEF BlobReadable, RotateGroupEncryptionKey
<1>3. ASSUME NEW e \in Edits, SyncGroupBlob(e) PROVE BlobReadable'
    BY <1>3 DEF BlobReadable, SyncGroupBlob, Accepts
<1>4. QED  BY <1>1, <1>2, <1>3, KeyFrame

LEMMA NoRowIsEmptyNext ==
    ASSUME TypeOK, NoRowIsEmpty, [Next]_vars
    PROVE  NoRowIsEmpty'
<1>1. ASSUME NEW e \in Edits, SyncGroupBlob(e) PROVE NoRowIsEmpty'
    BY <1>1 DEF NoRowIsEmpty, SyncGroupBlob, Accepts, TypeOK
<1>2. CASE RotateGroupEncryptionKey
    BY <1>2 DEF NoRowIsEmpty, RotateGroupEncryptionKey, TypeOK, Keys, NoKey
<1>3. CASE UNCHANGED <<key, blobKey>>
    <2>1. CASE UNCHANGED <<ledger, clock>>
        BY <1>3, <2>1 DEF NoRowIsEmpty
    <2>2. ASSUME NEW e \in Edits, ReadAndUpload(e)
          PROVE UNCHANGED <<ledger, clock>>
        BY <2>2 DEF ReadAndUpload, serverVars
    <2>3. QED  BY <1>1, <2>1, <2>2, LedgerFrame
<1>4. QED  BY <1>1, <1>2, <1>3, KeyFrame

\* The upload moves the clock strictly above every clock a call holds.
LEMMA UploadRaisesClock ==
    ASSUME TypeOK, ClockTracksLedger, NEW e \in Edits, SyncGroupBlob(e)
    PROVE  /\ LEq(clock, clock')
           /\ clock'[Actor(e)] > clock[Actor(e)]
<1> DEFINE m == MergeClocks(clock, baseClock[e])
<1>1. clock \in [Users -> Nat] /\ baseClock[e] \in [Users -> Nat]
    BY DEF TypeOK
<1>2. m \in [Users -> Nat] /\ LEq(clock, m)
    BY <1>1, MergeClocksType
<1>3. clock' = [m EXCEPT ![Actor(e)] = @ + 1]
    BY DEF SyncGroupBlob
<1> HIDE DEF m
<1>4. ASSUME NEW u \in Users
      PROVE  clock[u] <= clock'[u] /\ (u = Actor(e) => clock[u] < clock'[u])
    <2>1. clock[u] \in Nat /\ m[u] \in Nat /\ clock[u] <= m[u]
        BY <1>1, <1>2 DEF LEq
    <2>2. clock'[u] = IF u = Actor(e) THEN m[u] + 1 ELSE m[u]
        BY <1>2, <1>3
    <2>3. QED  BY <2>1, <2>2
<1>5. QED  
    <2>1. LEq(clock, clock')
        BY <1>4 DEF LEq
    <2>2. clock[Actor(e)] < clock'[Actor(e)]
        BY <1>4, ActorType
    <2>3. clock[Actor(e)] \in Nat /\ clock'[Actor(e)] \in Nat
        BY <1>1, <1>2, <1>3, ActorType
    <2>4. QED  BY <2>1, <2>2, <2>3

LEMMA ClockTracksLedgerNext ==
    ASSUME TypeOK, TypeOK', ClockTracksLedger, [Next]_vars
    PROVE  ClockTracksLedger'
<1>1. CASE UNCHANGED <<ledger, clock, base, baseClock>>
    BY <1>1 DEF ClockTracksLedger, LEq
<1>2. ASSUME NEW e \in Edits, ReadAndUpload(e) PROVE ClockTracksLedger'
    <2> SUFFICES ASSUME NEW f \in Edits
                 PROVE  /\ LEq(baseClock'[f], clock')
                        /\ baseClock'[f] = clock' => base'[f] = ledger'
        BY DEF ClockTracksLedger, LEq
    <2>1. clock' = clock /\ ledger' = ledger
        BY <1>2 DEF ReadAndUpload, serverVars
    <2>2. CASE f = e
        <3>1. baseClock'[f] = clock /\ base'[f] = ledger
            BY <1>2, <2>2 DEF ReadAndUpload, TypeOK
        <3>2. LEq(clock, clock)
            <4>1. ASSUME NEW u \in Users PROVE clock[u] <= clock[u]
                <5>1. clock[u] \in Nat
                    BY DEF TypeOK
                <5>2. QED  BY <5>1
            <4>2. QED  BY <4>1 DEF LEq
        <3>3. QED  BY <2>1, <3>1, <3>2
    <2>3. CASE f # e
        <3>1. baseClock'[f] = baseClock[f] /\ base'[f] = base[f]
            BY <1>2, <2>3 DEF ReadAndUpload, TypeOK
        <3>2. QED  BY <2>1, <3>1 DEF ClockTracksLedger
    <2>4. QED  BY <2>2, <2>3
<1>3. ASSUME NEW e \in Edits, SyncGroupBlob(e) PROVE ClockTracksLedger'
    <2> SUFFICES ASSUME NEW f \in Edits
                 PROVE  /\ LEq(baseClock'[f], clock')
                        /\ baseClock'[f] # clock'
        BY DEF ClockTracksLedger, LEq
    <2>1. baseClock' = baseClock
        BY <1>3 DEF SyncGroupBlob
    <2>2. LEq(clock, clock') /\ clock'[Actor(e)] > clock[Actor(e)]
        BY <1>3, UploadRaisesClock
    <2>3. LEq(baseClock[f], clock)
        BY DEF ClockTracksLedger
    <2>4. ASSUME NEW u \in Users
          PROVE  /\ baseClock[f][u] <= clock'[u]
                 /\ clock'[u] > clock[u] => baseClock[f][u] # clock'[u]
        <3>1. baseClock[f][u] \in Nat /\ clock[u] \in Nat /\ clock'[u] \in Nat
            BY DEF TypeOK
        <3>2. baseClock[f][u] <= clock[u] /\ clock[u] <= clock'[u]
            BY <2>2, <2>3 DEF LEq
        <3>3. QED  BY <3>1, <3>2
    <2>5. LEq(baseClock[f], clock')
        BY <2>4 DEF LEq
    <2>6. baseClock[f] # clock'
        BY <2>2, <2>4, ActorType
    <2>7. QED  BY <2>1, <2>5, <2>6
<1>4. QED  BY <1>1, <1>2, <1>3, LedgerFrame
LEMMA StageWireNext ==
    ASSUME TypeOK, StageWire, [Next]_vars
    PROVE  StageWire'
<1> USE DEF StageWire, TypeOK, Go, Outcomes, Stages
<1>1. CASE UNCHANGED vars
    BY <1>1 DEF vars, callVars
<1>2. ASSUME NEW e \in Edits,
             StartEdit(e) \/ CallStep(e) \/ NetworkError(e)
      PROVE  StageWire'
    <2>1. CASE StartEdit(e)
        BY <2>1 DEF StartEdit
    <2>2. CASE GetAccess(e)
        BY <2>2 DEF GetAccess
    <2>3. CASE ReadAndUpload(e)
        BY <2>3 DEF ReadAndUpload
    <2>4. CASE RefreshFromCache(e)
        BY <2>4 DEF RefreshFromCache, Undecryptable
    <2>5. CASE RefreshFromServer(e)
        BY <2>5 DEF RefreshFromServer, Undecryptable
    <2>6. CASE GiveUpUndecryptable(e)
        BY <2>6 DEF GiveUpUndecryptable, Undecryptable
    <2>7. CASE PutReply(e)
        BY <2>7 DEF PutReply
    <2>8. CASE NetworkError(e)
        BY <2>8 DEF NetworkError
    <2>9. QED  BY <1>2, <2>1, <2>2, <2>3, <2>4, <2>5, <2>6, <2>7, <2>8 DEF CallStep
<1>3. ASSUME NEW e \in Edits, ServerStep(e) PROVE StageWire'
    BY <1>3 DEF ServerStep, PutAccess, SyncGroupBlob, RefuseGroupBlob
<1>4. ASSUME NEW t \in Tabs, TabStep(t) PROVE StageWire'
    <2>1. wire' = wire
        BY <1>4, TabStepFrame
    <2>2. CASE KeyReply(t)
        BY <2>1, <2>2 DEF KeyReply, Waiting
    <2>3. CASE KeyFails(t)
        BY <2>1, <2>3 DEF KeyFails, Waiting
    <2>4. CASE ReloadTab(t)
        BY <2>1, <2>4 DEF ReloadTab
    <2>5. CASE UNCHANGED stage
        BY <2>1, <2>5
    <2>6. KeyReply(t) \/ KeyFails(t) \/ ReloadTab(t) \/ UNCHANGED stage
        BY <1>4 DEF TabStep, LeaveGroup, JoinGroup, LoadGroup, DropGroup, KeyStep,
           KeyAccess, KeyFetchExpires, RemoveMember, callVars
    <2>7. QED  BY <2>2, <2>3, <2>4, <2>5, <2>6
<1>5. QED  BY <1>1, <1>2, <1>3, <1>4 DEF Next, TabStep

\* The key never goes back.
LEMMA KeyGrows ==
    ASSUME TypeOK, [Next]_vars
    PROVE  key' = key \/ key' = key + 1
<1>1. ASSUME NEW e \in Edits, SyncGroupBlob(e) PROVE key' = key
    BY <1>1 DEF SyncGroupBlob
<1>2. QED  BY <1>1, KeyFrame DEF RotateGroupEncryptionKey

\* Whoever takes a key takes the current one, or one that somebody had.
LEMMA KeysKnownNext ==
    ASSUME TypeOK, TypeOK', KeysKnown, [Next]_vars
    PROVE  KeysKnown'
<1>1. /\ key \in Nat /\ key' \in Nat
      /\ \A t \in Tabs : keyCache[t] \in Nat /\ fetchedKey[t] \in Nat
      /\ \A e \in Edits : opKey[e] \in Nat
    BY KeysType DEF TypeOK
<1>2. key <= key'
    BY <1>1, KeyGrows
<1>3. \A k \in Nat : k <= key => k <= key'
    BY <1>1, <1>2
<1> DEFINE Old(k) == k \in {NoKey, key, key'} \/ (k \in Nat /\ k <= key)
<1>4. ASSUME NEW k, Old(k) PROVE k <= key'
    BY <1>1, <1>2, <1>3, <1>4 DEF NoKey
<1>5. \A t \in Tabs : keyCache[t] <= key /\ fetchedKey[t] <= key
    BY DEF KeysKnown
<1>6. \A e \in Edits : opKey[e] <= key
    BY DEF KeysKnown
<1>7. /\ \A t \in Tabs : Old(keyCache[t]) /\ Old(fetchedKey[t])
      /\ \A e \in Edits : Old(opKey[e])
    BY <1>1, <1>5, <1>6
<1> HIDE DEF Old
<1>8. /\ \A t \in Tabs : Old(keyCache'[t]) /\ Old(fetchedKey'[t])
      /\ \A e \in Edits : Old(opKey'[e])
    <2>0. Old(NoKey) /\ Old(key) /\ Old(key')
        BY DEF Old
    <2> USE <1>7, <2>0, ActorType DEF TypeOK
    <2>1. CASE UNCHANGED vars
        BY <2>1 DEF vars, tabVars, callVars
    <2>2. ASSUME NEW e \in Edits,
                 StartEdit(e) \/ CallStep(e) \/ ServerStep(e) \/ NetworkError(e)
          PROVE  /\ \A s \in Tabs : Old(keyCache'[s]) /\ Old(fetchedKey'[s])
                 /\ \A f \in Edits : Old(opKey'[f])
        <3>1. CASE StartEdit(e)
            BY <3>1 DEF StartEdit, tabVars
        <3>2. CASE RefreshFromCache(e)
            BY <3>2 DEF RefreshFromCache
        <3>3. CASE UNCHANGED <<keyCache, fetchedKey, opKey>>
            BY <3>3
        <3>4. QED
            BY <2>2, <3>1, <3>2, <3>3 DEF CallStep, ServerStep, NetworkError,
               GetAccess, ReadAndUpload, RefreshFromServer, GiveUpUndecryptable,
               PutReply, PutAccess, SyncGroupBlob, RefuseGroupBlob, tabVars
    <2>3. ASSUME NEW t \in Tabs, TabStep(t)
          PROVE  /\ \A s \in Tabs : Old(keyCache'[s]) /\ Old(fetchedKey'[s])
                 /\ \A e \in Edits : Old(opKey'[e])
        <3>1. CASE KeyReply(t)
            BY <3>1 DEF KeyReply
        <3>2. CASE ReloadTab(t) \/ KeyFetchExpires(t) \/ DropGroup(t)
            BY <3>2 DEF ReloadTab, KeyFetchExpires, DropGroup, callVars
        <3>3. CASE LoadGroup(t) \/ JoinGroup(t)
            BY <3>3 DEF LoadGroup, JoinGroup, UseOrFetchKey, callVars
        <3>4. CASE LeaveGroup(t)
            BY <3>4 DEF LeaveGroup, callVars
        <3>5. ASSUME NEW u \in Users, RemoveMember(t, u)
              PROVE  /\ \A s \in Tabs : Old(keyCache'[s]) /\ Old(fetchedKey'[s])
                     /\ \A e \in Edits : Old(opKey'[e])
            BY <3>5 DEF RemoveMember, callVars
        <3>6. CASE KeyAccess(t) \/ KeyFails(t)
            BY <3>6 DEF KeyAccess, KeyFails, callVars
        <3>7. QED
            BY <2>3, <3>1, <3>2, <3>3, <3>4, <3>5, <3>6 DEF TabStep, KeyStep
    <2>4. QED  BY <2>1, <2>2, <2>3 DEF Next, TabStep
<1>9. QED  BY <1>4, <1>8 DEF KeysKnown
\* A departure rotates the key: only a newcomer changes the members under it.
LEMMA MembersFrame ==
    ASSUME [Next]_vars
    PROVE  members \subseteq members' \/ RotateGroupEncryptionKey
<1>1. CASE UNCHANGED vars
    BY <1>1 DEF vars, serverVars
<1>2. ASSUME NEW t \in Tabs, TabStep(t)
      PROVE  members \subseteq members' \/ RotateGroupEncryptionKey
    BY <1>2 DEF TabStep, LeaveGroup, JoinGroup, LoadGroup, DropGroup, KeyStep,
       KeyAccess, KeyReply, KeyFails, KeyFetchExpires, ReloadTab, RemoveMember,
       serverVars
<1>3. ASSUME NEW e \in Edits,
             StartEdit(e) \/ CallStep(e) \/ ServerStep(e) \/ NetworkError(e)
      PROVE  UNCHANGED members
    BY <1>3 DEF StartEdit, CallStep, ServerStep, NetworkError, GetAccess,
       ReadAndUpload, RefreshFromCache, RefreshFromServer, GiveUpUndecryptable,
       PutReply, PutAccess, SyncGroupBlob, RefuseGroupBlob, serverVars
<1>4. QED  BY <1>1, <1>2, <1>3 DEF Next, TabStep

\* A call takes a key before it uploads, or after the upload was refused.
LEMMA OpKeyFrame ==
    ASSUME TypeOK, StageWire, [Next]_vars, NEW e \in Edits
    PROVE  opKey'[e] = opKey[e] \/ wire[e] \in {"none", "refused"}
<1> USE DEF TypeOK, StageWire
<1>1. CASE UNCHANGED vars
    BY <1>1 DEF vars, callVars
<1>2. ASSUME NEW f \in Edits,
             StartEdit(f) \/ CallStep(f) \/ ServerStep(f) \/ NetworkError(f)
      PROVE  opKey'[e] = opKey[e] \/ wire[e] \in {"none", "refused"}
    BY <1>2 DEF StartEdit, CallStep, ServerStep, NetworkError, GetAccess,
       ReadAndUpload, RefreshFromCache, RefreshFromServer, GiveUpUndecryptable,
       Undecryptable, PutReply, PutAccess, SyncGroupBlob, RefuseGroupBlob
<1>3. ASSUME NEW t \in Tabs, TabStep(t)
      PROVE  opKey'[e] = opKey[e] \/ wire[e] \in {"none", "refused"}
    BY <1>3 DEF TabStep, LeaveGroup, JoinGroup, LoadGroup, DropGroup, KeyStep,
       KeyAccess, KeyReply, Waiting, KeyFails, KeyFetchExpires, ReloadTab,
       RemoveMember, callVars
<1>4. QED  BY <1>1, <1>2, <1>3 DEF Next, TabStep

LEMMA CurrentKeyIsMembersNext ==
    ASSUME TypeOK, TypeOK', StageWire, KeysKnown, CurrentKeyIsMembers, [Next]_vars
    PROVE  CurrentKeyIsMembers'
<1> SUFFICES ASSUME NEW e \in Edits, wire'[e] = "checked", opKey'[e] = key'
             PROVE  Actor(e) \in members'
    BY DEF CurrentKeyIsMembers, Actor
<1>1. CASE wire[e] # "checked"
    <2>1. PICK f \in Edits : \/ ReadAndUpload(f) \/ PutAccess(f)
                             \/ SyncGroupBlob(f) \/ RefuseGroupBlob(f)
        BY <1>1, WireFrame
    <2>2. PutAccess(f) /\ f = e
        BY <1>1, <2>1 DEF ReadAndUpload, PutAccess, SyncGroupBlob,
           RefuseGroupBlob, TypeOK
    <2>3. QED  BY <2>2 DEF PutAccess, serverVars, TypeOK
<1>2. CASE wire[e] = "checked"
    <2>1. opKey'[e] = opKey[e]
        BY <1>2, OpKeyFrame
    <2>2. opKey[e] <= key /\ opKey[e] \in Nat /\ key \in Nat
        BY KeysType DEF KeysKnown, TypeOK
    <2>3. ~RotateGroupEncryptionKey /\ key' = key
        BY <2>1, <2>2, KeyGrows DEF RotateGroupEncryptionKey
    <2>4. members \subseteq members'
        BY <2>3, MembersFrame
    <2>5. QED  BY <1>2, <2>1, <2>3, <2>4 DEF CurrentKeyIsMembers
<1>3. QED  BY <1>1, <1>2

\* What an upload appends, and to what.
LEMMA UploadAppends ==
    ASSUME TypeOK, NoRowIsEmpty, ClockTracksLedger,
           NEW e \in Edits, SyncGroupBlob(e)
    PROVE  /\ ledger' = Append(ledger, e)
           /\ base[e] = ledger /\ base' = base
           /\ wire[e] = "checked" /\ wire' = [wire EXCEPT ![e] = "applied"]
<1>1. base[e] = ledger
    BY AcceptedIsCurrent DEF SyncGroupBlob
<1>2. QED  BY <1>1 DEF SyncGroupBlob

LEMMA AppliedIsKeptNext ==
    ASSUME TypeOK, NoRowIsEmpty, ClockTracksLedger, StageWire, AppliedIsKept,
           [Next]_vars
    PROVE  AppliedIsKept'
<1>1. CASE UNCHANGED wire /\ UNCHANGED ledger
    BY <1>1 DEF AppliedIsKept
<1>2. ASSUME NEW e \in Edits,
             ReadAndUpload(e) \/ PutAccess(e) \/ RefuseGroupBlob(e)
      PROVE  AppliedIsKept'
    <2>1. ledger' = ledger
        BY <1>2 DEF ReadAndUpload, PutAccess, RefuseGroupBlob, serverVars
    <2>2. wire[e] # "applied" /\ wire'[e] # "applied"
        BY <1>2 DEF ReadAndUpload, PutAccess, RefuseGroupBlob, StageWire, TypeOK
    <2>3. \A f \in Edits : f # e => wire'[f] = wire[f]
        BY <1>2 DEF ReadAndUpload, PutAccess, RefuseGroupBlob, TypeOK
    <2>4. QED  BY <2>1, <2>2, <2>3 DEF AppliedIsKept
<1>3. ASSUME NEW e \in Edits, SyncGroupBlob(e) PROVE AppliedIsKept'
    <2>1. /\ ledger' = Append(ledger, e) /\ ledger \in Seq(Edits)
          /\ wire' = [wire EXCEPT ![e] = "applied"]
        BY <1>3, UploadAppends DEF TypeOK
    <2> SUFFICES ASSUME NEW f \in Edits
                 PROVE  wire'[f] = "applied"
                            <=> \E i \in DOMAIN ledger' : ledger'[i] = f
        BY DEF AppliedIsKept
    <2>2. /\ Len(ledger) \in Nat /\ DOMAIN ledger = 1..Len(ledger)
          /\ DOMAIN ledger' = 1..Len(ledger) + 1
          /\ \A i \in 1..Len(ledger) : ledger'[i] = ledger[i]
          /\ ledger'[Len(ledger) + 1] = e
        BY <2>1
    <2>3. (\E i \in DOMAIN ledger' : ledger'[i] = f)
            <=> f = e \/ \E i \in DOMAIN ledger : ledger[i] = f
        BY <2>2
    <2>4. wire'[f] = "applied" <=> f = e \/ wire[f] = "applied"
        BY <2>1 DEF TypeOK
    <2>5. QED  BY <2>3, <2>4 DEF AppliedIsKept
<1>4. ASSUME NEW e \in Edits, ReadAndUpload(e) \/ SyncGroupBlob(e)
      PROVE  AppliedIsKept'
    BY <1>2, <1>3, <1>4
<1>5. QED  BY <1>1, <1>2, <1>3, <1>4, WireFrame, LedgerFrame

LEMMA AppliedOnceNext ==
    ASSUME TypeOK, NoRowIsEmpty, ClockTracksLedger, NoLostUpdate, [Next]_vars
    PROVE  AppliedOnce'
<1>1. CASE UNCHANGED <<ledger, clock, base, baseClock>>
    BY <1>1 DEF NoLostUpdate, AppliedOnce
<1>2. ASSUME NEW e \in Edits, ReadAndUpload(e) PROVE AppliedOnce'
    BY <1>2 DEF ReadAndUpload, serverVars, NoLostUpdate, AppliedOnce
<1>3. ASSUME NEW e \in Edits, SyncGroupBlob(e) PROVE AppliedOnce'
    <2>1. /\ ledger' = Append(ledger, e) /\ ledger \in Seq(Edits)
          /\ wire[e] = "checked"
        BY <1>3, UploadAppends DEF TypeOK
    <2> DEFINE n == Len(ledger)
    <2>2. /\ n \in Nat /\ DOMAIN ledger = 1..n /\ DOMAIN ledger' = 1..n + 1
          /\ \A i \in 1..n : ledger'[i] = ledger[i]
          /\ ledger'[n + 1] = e
        BY <2>1
    <2> HIDE DEF n
    <2>3. \A i \in 1..n : ledger[i] # e
        BY <2>1, <2>2 DEF NoLostUpdate, AppliedIsKept
    <2>4. \A i, j \in 1..n : ledger[i] = ledger[j] => i = j
        BY <2>2 DEF NoLostUpdate, AppliedOnce
    <2>5. 1..n + 1 = 1..n \cup {n + 1}
        BY <2>2
    <2>6. QED  BY <2>2, <2>3, <2>4, <2>5 DEF AppliedOnce
<1>4. QED  BY <1>1, <1>2, <1>3, LedgerFrame

LEMMA IInvNext == IInv /\ [Next]_vars => IInv'
<1> SUFFICES ASSUME IInv, [Next]_vars PROVE IInv'
    OBVIOUS
<1> USE DEF IInv
<1>1. TypeOK'
    BY TypeNext
<1>2. BlobReadable' /\ NoRowIsEmpty'
    BY BlobReadableNext, NoRowIsEmptyNext
<1>3. ClockTracksLedger'
    BY <1>1, ClockTracksLedgerNext
<1>4. StageWire' /\ KeysKnown' /\ CurrentKeyIsMembers'
    BY <1>1, StageWireNext, KeysKnownNext, CurrentKeyIsMembersNext
<1>5. NoLostUpdate'
    BY AppliedIsKeptNext, AppliedOnceNext DEF NoLostUpdate
<1>6. QED  BY <1>1, <1>2, <1>3, <1>4, <1>5

LEMMA Inductive == Spec => []IInv
BY IInvInit, IInvNext, PTL DEF Spec

-----------------------------------------------------------------------------
(* The theorems. *)

\* No edit is ever lost, overwritten or doubled: the stored blob has exactly the
\* edits whose uploads were applied, each once.
THEOREM UpdatesAreKept == Spec => []NoLostUpdate
<1>1. IInv => NoLostUpdate
    BY DEF IInv
<1>2. QED  BY <1>1, Inductive, PTL

\* Whatever the rotations and uploads under way, the members' key opens the blob.
THEOREM BlobStaysReadable == Spec => []BlobReadable
<1>1. IInv => BlobReadable
    BY DEF IInv
<1>2. QED  BY <1>1, Inductive, PTL

\* An upload is applied only for a current member.
THEOREM OnlyMembers == Spec => OnlyMembersWrite
<1> DEFINE A == \A e \in Edits : wire[e] # "applied" /\ wire'[e] = "applied"
                                    => Actor(e) \in members
<1>1. IInv /\ [Next]_vars => [A]_vars
    <2> SUFFICES ASSUME IInv, [Next]_vars, NEW e \in Edits,
                        wire[e] # "applied", wire'[e] = "applied"
                 PROVE  Actor(e) \in members
        OBVIOUS
    <2>1. PICK f \in Edits : \/ ReadAndUpload(f) \/ PutAccess(f)
                             \/ SyncGroupBlob(f) \/ RefuseGroupBlob(f)
        BY WireFrame
    <2>2. SyncGroupBlob(f) /\ f = e
        BY <2>1 DEF IInv, TypeOK, ReadAndUpload, PutAccess, SyncGroupBlob,
           RefuseGroupBlob
    <2>3. wire[e] = "checked" /\ opKey[e] = key
        BY <2>2 DEF SyncGroupBlob, Accepts
    <2>4. QED  BY <2>3 DEF IInv, CurrentKeyIsMembers
<1> HIDE DEF A
<1>2. Spec => [][A]_vars
    BY <1>1, Inductive, PTL DEF Spec
<1>3. QED  BY <1>2 DEF OnlyMembersWrite, A

\* A call never holds a longer ledger than the server, and holds the server's clock
\* when it holds its ledger: the converse of ClockTracksLedger.
LedgerTracksClock ==
    \A e \in Edits :
        /\ Len(base[e]) <= Len(ledger)
        /\ base[e] = ledger => baseClock[e] = clock

LEMMA LedgerTracksClockNext ==
    ASSUME IInv, LedgerTracksClock, [Next]_vars PROVE LedgerTracksClock'
<1> USE DEF IInv
<1>1. CASE UNCHANGED <<ledger, clock, base, baseClock>>
    BY <1>1 DEF LedgerTracksClock
<1>2. ASSUME NEW e \in Edits, ReadAndUpload(e) PROVE LedgerTracksClock'
    <2>1. /\ ledger' = ledger /\ clock' = clock
          /\ base' = [base EXCEPT ![e] = ledger]
          /\ baseClock' = [baseClock EXCEPT ![e] = clock]
        BY <1>2 DEF ReadAndUpload, serverVars
    <2>2. Len(ledger) \in Nat
        BY DEF TypeOK
    <2>3. QED  BY <2>1, <2>2 DEF LedgerTracksClock, TypeOK
<1>3. ASSUME NEW e \in Edits, SyncGroupBlob(e) PROVE LedgerTracksClock'
    <2>1. ledger' = Append(ledger, e) /\ base' = base /\ ledger \in Seq(Edits)
        BY <1>3, UploadAppends DEF TypeOK
    <2>2. Len(ledger) \in Nat /\ Len(ledger') = Len(ledger) + 1
        BY <2>1
    <2>3. ASSUME NEW f \in Edits PROVE Len(base[f]) < Len(ledger')
        <3>1. base[f] \in Seq(Edits) /\ Len(base[f]) \in Nat
            BY DEF TypeOK
        <3>2. Len(base[f]) <= Len(ledger)
            BY DEF LedgerTracksClock
        <3>3. QED  BY <2>2, <3>1, <3>2
    <2>4. ASSUME NEW f \in Edits
          PROVE  Len(base'[f]) <= Len(ledger') /\ base'[f] # ledger'
        <3>1. Len(base[f]) \in Nat
            BY DEF TypeOK
        <3>2. QED  BY <2>1, <2>2, <2>3, <3>1
    <2>5. QED  BY <2>4 DEF LedgerTracksClock
<1>4. QED  BY <1>1, <1>2, <1>3, LedgerFrame

LEMMA LedgerTracks == Spec => []LedgerTracksClock
<1>1. Init => LedgerTracksClock
    BY DEF Init, LedgerTracksClock
<1>2. IInv /\ LedgerTracksClock /\ [Next]_vars => LedgerTracksClock'
    BY LedgerTracksClockNext
<1>3. QED  BY <1>1, <1>2, Inductive, PTL DEF Spec

\* An upload is refused only when the blob was replaced, or the key rotated, since the
\* call read it: the conflict check of syncGroupBlob has no false positives, and a
\* retry is never spent for nothing.
THEOREM RefusalsHaveACause == Spec => NoSpuriousConflict
<1> DEFINE A == \A e \in Edits : wire[e] = "checked" /\ wire'[e] = "refused"
                                    => base[e] # ledger \/ opKey[e] # key
<1>1. IInv /\ LedgerTracksClock /\ [Next]_vars => [A]_vars
    <2> SUFFICES ASSUME IInv, LedgerTracksClock, [Next]_vars, NEW e \in Edits,
                        wire[e] = "checked", wire'[e] = "refused",
                        base[e] = ledger, opKey[e] = key
                 PROVE  FALSE
        OBVIOUS
    <2>1. PICK f \in Edits : \/ ReadAndUpload(f) \/ PutAccess(f)
                             \/ SyncGroupBlob(f) \/ RefuseGroupBlob(f)
        BY WireFrame
    <2>2. RefuseGroupBlob(f) /\ f = e
        BY <2>1 DEF IInv, TypeOK, ReadAndUpload, PutAccess, SyncGroupBlob,
           RefuseGroupBlob
    <2>3. DetectConflict(clock, baseClock[e])
        BY <2>2 DEF RefuseGroupBlob, Accepts
    <2>4. baseClock[e] = clock /\ clock \in [Users -> Nat]
        BY DEF IInv, LedgerTracksClock, TypeOK
    <2>5. QED  BY <2>3, <2>4 DEF DetectConflict
<1> HIDE DEF A
<1>2. Spec => [][A]_vars
    BY <1>1, Inductive, LedgerTracks, PTL DEF Spec
<1>3. QED  BY <1>2 DEF NoSpuriousConflict, A
-----------------------------------------------------------------------------
(***************************************************************************)
(* The calls implement the ledger of SharedLedger.                         *)
(***************************************************************************)
LEMMA StatusOfType ==
    ASSUME NEW s \in Stages
    PROVE  /\ StatusOf(s) \in {"new", "open", "saved", "failed"}
           /\ StatusOf(s) = "new" <=> s = "new"
           /\ StatusOf(s) = "open" <=> s \in {"get", "read", "key", "put"}
           /\ StatusOf(s) = "saved" <=> s = "saved"
<1>1. CASE s = "new"
    BY <1>1 DEF StatusOf
<1>2. CASE s \in {"get", "read", "key", "put"}
    BY <1>2 DEF StatusOf
<1>3. CASE s = "saved"
    BY <1>3 DEF StatusOf
<1>4. CASE s \in Outcomes \ {"saved"}
    BY <1>4 DEF StatusOf, Outcomes
<1>5. QED  BY <1>1, <1>2, <1>3, <1>4 DEF Stages, Outcomes

LEMMA LedgerInit == Init => Abstract!Init
<1> SUFFICES ASSUME Init PROVE Abstract!Init
    OBVIOUS
<1>1. ledger = <<>>
    BY DEF Init
<1>2. [e \in Edits |-> StatusOf(stage[e])] = [e \in Edits |-> "new"]
    BY DEF Init, StatusOf
<1>3. QED  BY <1>1, <1>2 DEF Abstract!Init

\* Except for a start, a call's status changes only from open, to failed or,
\* when its PUT was applied, to saved.
LEMMA StatusFrame ==
    ASSUME TypeOK, TypeOK', StageWire, [Next]_vars
    PROVE  \/ \E e \in Edits : StartEdit(e)
           \/ \A e \in Edits :
                \/ StatusOf(stage'[e]) = StatusOf(stage[e])
                \/ /\ StatusOf(stage[e]) = "open"
                   /\ \/ StatusOf(stage'[e]) = "failed"
                      \/ StatusOf(stage'[e]) = "saved" /\ wire[e] = "applied"
<1> DEFINE Running == {"get", "read", "key", "put"}
           Settles(e) == /\ stage[e] \in Running
                         /\ \/ stage'[e] \in Outcomes \ {"saved"}
                            \/ stage'[e] = "saved" /\ wire[e] = "applied"
           Moves(e) == stage[e] \in Running /\ stage'[e] \in Running
<1>1. ASSUME NEW e \in Edits,
             stage'[e] = stage[e] \/ Moves(e) \/ Settles(e)
      PROVE  \/ StatusOf(stage'[e]) = StatusOf(stage[e])
             \/ /\ StatusOf(stage[e]) = "open"
                /\ \/ StatusOf(stage'[e]) = "failed"
                   \/ StatusOf(stage'[e]) = "saved" /\ wire[e] = "applied"
    <2>1. stage[e] \in Stages /\ stage'[e] \in Stages
        BY DEF TypeOK
    <2>2. QED  BY <1>1, <2>1, StatusOfType DEF Outcomes
<1> USE DEF TypeOK, Outcomes, Go
<1>2. ASSUME NEW f \in Edits, CallStep(f) \/ ServerStep(f) \/ NetworkError(f),
             NEW e \in Edits
      PROVE  stage'[e] = stage[e] \/ Moves(e) \/ Settles(e)
    <2>1. CASE GetAccess(f)
        BY <2>1 DEF GetAccess
    <2>2. CASE ReadAndUpload(f)
        BY <2>2 DEF ReadAndUpload
    <2>3. CASE RefreshFromCache(f)
        BY <2>3 DEF RefreshFromCache, Undecryptable
    <2>4. CASE RefreshFromServer(f)
        BY <2>4 DEF RefreshFromServer, Undecryptable
    <2>5. CASE GiveUpUndecryptable(f)
        BY <2>5 DEF GiveUpUndecryptable, Undecryptable
    <2>6. CASE PutReply(f)
        BY <2>6 DEF PutReply
    <2>7. CASE NetworkError(f)
        BY <2>7 DEF NetworkError
    <2>8. CASE ServerStep(f)
        BY <2>8 DEF ServerStep, PutAccess, SyncGroupBlob, RefuseGroupBlob
    <2>9. QED  BY <1>2, <2>1, <2>2, <2>3, <2>4, <2>5, <2>6, <2>7, <2>8 DEF CallStep
<1>3. ASSUME NEW t \in Tabs, TabStep(t), NEW e \in Edits
      PROVE  stage'[e] = stage[e] \/ Moves(e) \/ Settles(e)
    BY <1>3 DEF TabStep, LeaveGroup, JoinGroup, LoadGroup, DropGroup, KeyStep,
       KeyAccess, KeyReply, KeyFails, Waiting, KeyFetchExpires, ReloadTab,
       RemoveMember, callVars
<1>4. CASE UNCHANGED vars
    BY <1>1, <1>4 DEF vars, callVars
<1>5. QED  BY <1>1, <1>2, <1>3, <1>4 DEF Next, TabStep

LEMMA LedgerNext ==
    ASSUME IInv, IInv', [Next]_vars
    PROVE  [Abstract!Next]_(Abstract!ledgerVars)
<1> DEFINE status == [e \in Edits |-> StatusOf(stage[e])]
<1>1. \A e \in Edits : stage[e] \in Stages /\ stage'[e] \in Stages
    BY DEF IInv, TypeOK
<1>2. ASSUME NEW e \in Edits, StartEdit(e) PROVE Abstract!Open(e)
    <2>1. stage[e] = "new" /\ stage' = [stage EXCEPT ![e] = "get"]
        BY <1>2 DEF StartEdit, Go
    <2>2. ledger' = ledger
        BY <1>2 DEF StartEdit, serverVars
    <2>3. status[e] = "new" /\ status' = [status EXCEPT ![e] = "open"]
        BY <1>1, <2>1, StatusOfType DEF IInv, TypeOK
    <2>4. QED  BY <2>2, <2>3 DEF Abstract!Open
<1>3. ASSUME NEW e \in Edits, SyncGroupBlob(e) PROVE Abstract!Apply(e)
    <2>1. ledger' = Append(ledger, e) /\ wire[e] = "checked"
        BY <1>3, UploadAppends DEF IInv
    <2>2. \A i \in DOMAIN ledger : ledger[i] # e
        BY <2>1 DEF IInv, NoLostUpdate, AppliedIsKept
    <2>3. stage[e] \notin {"new", "saved"}
        BY <2>1 DEF IInv, StageWire
    <2>4. status[e] \in {"open", "failed"}
        BY <1>1, <2>3, StatusOfType
    <2>5. status' = status
        BY <1>3 DEF SyncGroupBlob
    <2>6. QED  BY <2>1, <2>2, <2>4, <2>5 DEF Abstract!Apply
<1>4. ASSUME ~\E e \in Edits : StartEdit(e) \/ SyncGroupBlob(e)
      PROVE  Abstract!Report
    <2>1. ledger' = ledger
        BY <1>4, LedgerFrame DEF ReadAndUpload, serverVars
    <2>2. ASSUME NEW e \in Edits
          PROVE  \/ status'[e] = status[e]
                 \/ status[e] = "open" /\ status'[e] = "failed"
                 \/ /\ status[e] = "open" /\ status'[e] = "saved"
                    /\ \E i \in DOMAIN ledger : ledger[i] = e
        <3>1. \/ StatusOf(stage'[e]) = StatusOf(stage[e])
              \/ /\ StatusOf(stage[e]) = "open"
                 /\ \/ StatusOf(stage'[e]) = "failed"
                    \/ StatusOf(stage'[e]) = "saved" /\ wire[e] = "applied"
            BY <1>4, StatusFrame DEF IInv
        <3>2. wire[e] = "applied" => \E i \in DOMAIN ledger : ledger[i] = e
            BY DEF IInv, NoLostUpdate, AppliedIsKept
        <3>3. QED  BY <3>1, <3>2
    <2>3. status' \in [Edits -> Abstract!Status]
        BY <1>1, StatusOfType DEF Abstract!Status
    <2>4. QED  BY <2>1, <2>2, <2>3 DEF Abstract!Report
<1>5. QED  BY <1>2, <1>3, <1>4 DEF Abstract!Next

\* Retries, refreshes, conflicts and lost answers are invisible: the calls behave
\* like atomic, at-most-once edits of one ledger, answered truthfully.
THEOREM Implementation == Spec => ImplementsLedger
<1>1. IInv /\ IInv' /\ [Next]_vars => [Abstract!Next]_(Abstract!ledgerVars)
    BY LedgerNext
<1>2. QED  BY LedgerInit, <1>1, Inductive, PTL DEF Spec, ImplementsLedger, Abstract!Spec
=============================================================================

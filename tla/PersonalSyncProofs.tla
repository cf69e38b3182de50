------------------------- MODULE PersonalSyncProofs -------------------------
(***************************************************************************)
(* Proofs about PersonalSync: whatever blob is stored, loaded, under way   *)
(* or kept to be restored is a sound one, so that no order in which blobs  *)
(* replace each other can harm what a sound blob promises.                 *)
(***************************************************************************)
EXTENDS PersonalSync, FiniteSetTheorems, TLAPS

\* What a blob promises when the cycles in waived need no expense.
Sound(b, waived) ==
    /\ b \in Blobs
    /\ b.before <= b.due
    /\ b.rec[Seed] # 0
    /\ \A c \in Cycles \ waived : c < b.due => b.rec[c] # 0

Waived == paid \cup deleted

SoundTabs ==
    \A d \in Devices :
        /\ blob[d] # NoBlob => Sound(blob[d], Waived)
        /\ answer[d] # NoBlob => Sound(answer[d], Waived)

SoundSave(o) ==
    /\ op[o].pc \notin {"new", "done"} => Sound(op[o].put, Waived)
    /\ op[o].pc \in {"sent", "conflict"} => Sound(op[o].mine, Waived)
    /\ Pending(o) =>
        /\ op[o].tab \in Devices
        /\ op[o].kind \notin BillKinds => Sound(op[o].before, Waived)

SoundSaves == \A o \in Ops : SoundSave(o)

\* Every mutation has its own time.
Made == {o \in Ops : op[o].pc # "new"}
Stamps == stamp = Cardinality(Made) + 1

IInv == TypeOK /\ Sound(server.blob, Waived) /\ SoundTabs /\ SoundSaves /\ Stamps

-----------------------------------------------------------------------------
(* Times *)

LEMMA MaxStampNat == MaxStamp \in Nat \ {0}
BY OpsAssumption, FS_CardinalityType DEF MaxStamp

\* There is a time left for a mutation that was not made.
LEMMA StampLeft ==
    ASSUME Stamps, NEW o \in Ops, op[o].pc = "new"
    PROVE  stamp \in 1..MaxStamp /\ stamp + 1 \in 1..MaxStamp
<1>1. Made \subseteq Ops /\ o \notin Made
  BY DEF Made
<1>2. IsFiniteSet(Made) /\ Cardinality(Made) <= Cardinality(Ops)
  BY <1>1, OpsAssumption, FS_Subset
<1>3. Cardinality(Made) # Cardinality(Ops)
  BY <1>1, OpsAssumption, FS_Subset
<1>4. Cardinality(Made) \in Nat /\ Cardinality(Ops) \in Nat
  BY <1>2, OpsAssumption, FS_CardinalityType
<1> QED
  BY <1>2, <1>3, <1>4 DEF Stamps, MaxStamp

\* A mutation takes the next time.
LEMMA StampTaken ==
    ASSUME Stamps, NEW o \in Ops, op[o].pc = "new", op'[o].pc # "new",
           \A p \in Ops \ {o} : op'[p].pc = op[p].pc, stamp' = stamp + 1
    PROVE  Stamps'
<1>1. Made' = Made \cup {o} /\ o \notin Made /\ Made \subseteq Ops
  BY DEF Made
<1>2. IsFiniteSet(Made)
  BY <1>1, OpsAssumption, FS_Subset
<1>3. Cardinality(Made \cup {o}) = Cardinality(Made) + 1
  BY <1>1, <1>2, FS_AddElement
<1> QED
  BY <1>1, <1>3 DEF Stamps

LEMMA StampsKept ==
    ASSUME Stamps, \A p \in Ops : op'[p].pc # "new" <=> op[p].pc # "new",
           stamp' = stamp
    PROVE  Stamps'
<1>1. Made' = Made
  BY DEF Made
<1> QED
  BY <1>1 DEF Stamps

-----------------------------------------------------------------------------
(* Blobs *)

\* Waiving more asks for less.
LEMMA SoundStays ==
    ASSUME NEW b, NEW v, NEW w, v \subseteq w, Sound(b, v)
    PROVE  Sound(b, w)
BY DEF Sound

\* mergeById drops no record of the server's, and leaves the bill alone.
LEMMA MergeIsSound ==
    ASSUME NEW theirs, NEW mine, NEW w, Sound(theirs, w), mine \in Blobs
    PROVE  Sound(Merge(theirs, mine), w)
<1> DEFINE m == Merge(theirs, mine)
<1>1. theirs \in Blobs
  BY DEF Sound
<1>2. \A x \in Records : theirs.rec[x] \in 0..MaxStamp /\ mine.rec[x] \in 0..MaxStamp
  BY <1>1 DEF Blobs
<1>3. /\ m.rec = [x \in Records |-> Later(theirs.rec[x], mine.rec[x])]
      /\ m.due = theirs.due /\ m.before = theirs.before
      /\ m = [rec |-> m.rec, due |-> theirs.due, before |-> theirs.before]
  BY <1>1 DEF Merge, Blobs
<1>4. \A x \in Records : m.rec[x] \in 0..MaxStamp /\ (theirs.rec[x] # 0 => m.rec[x] # 0)
  BY <1>2, <1>3, MaxStampNat DEF Later
<1>5. m \in Blobs
  BY <1>1, <1>3, <1>4 DEF Blobs
<1> QED
  BY <1>3, <1>4, <1>5 DEF Sound, Records

\* A change of one record that keeps it.
LEMMA TouchIsSound ==
    ASSUME NEW b, NEW w, Sound(b, w), NEW x \in Records, NEW t \in 1..MaxStamp
    PROVE  Sound([b EXCEPT !.rec[x] = t], w)
<1> DEFINE c == [b EXCEPT !.rec[x] = t]
<1>1. b \in Blobs
  BY DEF Sound
<1>2. /\ c.rec = [b.rec EXCEPT ![x] = t] /\ c.due = b.due /\ c.before = b.before
      /\ c = [rec |-> c.rec, due |-> b.due, before |-> b.before]
  BY <1>1 DEF Blobs
<1>3. \A y \in Records : c.rec[y] \in 0..MaxStamp /\ (b.rec[y] # 0 => c.rec[y] # 0)
  BY <1>1, <1>2, MaxStampNat DEF Blobs
<1>4. c \in Blobs
  BY <1>1, <1>2, <1>3 DEF Blobs
<1> QED
  BY <1>2, <1>3, <1>4 DEF Sound, Records

\* A deletion waives what it deletes; it does not delete the seed.
LEMMA DeletionIsSound ==
    ASSUME NEW b, NEW w, Sound(b, w), NEW x \in Ops \cup Cycles, x # Seed
    PROVE  Sound([b EXCEPT !.rec[x] = 0], w \cup {x})
<1> DEFINE c == [b EXCEPT !.rec[x] = 0]
<1>1. b \in Blobs /\ x \in Records
  BY DEF Sound, Records
<1>2. /\ c.rec = [b.rec EXCEPT ![x] = 0] /\ c.due = b.due /\ c.before = b.before
      /\ c = [rec |-> c.rec, due |-> b.due, before |-> b.before]
  BY <1>1 DEF Blobs
<1>3. \A y \in Records : c.rec[y] \in 0..MaxStamp /\ (y # x => c.rec[y] = b.rec[y])
  BY <1>1, <1>2, MaxStampNat DEF Blobs
<1>4. c \in Blobs
  BY <1>1, <1>2, <1>3 DEF Blobs
<1> QED
  BY <1>2, <1>3, <1>4 DEF Sound, Records

\* processDueBillsInner: the due date moves together with its expenses.
LEMMA ProcessingIsSound ==
    ASSUME NEW b, NEW w, Sound(b, w), b.due <= Today, stamp + 1 \in 1..MaxStamp
    PROVE  Sound([rec |-> WithCycles(b.rec, b.due..Today),
                  due |-> Today + 1, before |-> b.due], w)
<1> DEFINE c == [rec |-> WithCycles(b.rec, b.due..Today), due |-> Today + 1, before |-> b.due]
<1>1. b \in Blobs
  BY DEF Sound
<1>2. b.due \in 1..(Today + 1) /\ \A x \in Records : b.rec[x] \in 0..MaxStamp
  BY <1>1 DEF Blobs
<1>3. \A x \in Records :
        /\ c.rec[x] \in 0..MaxStamp
        /\ b.rec[x] # 0 => c.rec[x] # 0
        /\ x \in b.due..Today => c.rec[x] # 0
  BY <1>2, MaxStampNat DEF WithCycles
<1>4. c \in Blobs
  BY <1>2, <1>3, BoundsAssumption DEF Blobs, WithCycles
<1>5. c.before <= c.due /\ c.rec[Seed] # 0
  BY <1>2, <1>3, BoundsAssumption DEF Sound, Records
<1>6. ASSUME NEW x \in Cycles \ w PROVE c.rec[x] # 0
  <2>1. x \in Records /\ x \in 1..Today
    BY DEF Records, Cycles
  <2>2. CASE x < b.due
    BY <1>3, <1>6, <2>1, <2>2 DEF Sound
  <2>3. CASE ~(x < b.due)
    BY <1>2, <1>3, <2>1, <2>3, BoundsAssumption
  <2> QED
    BY <2>2, <2>3
<1> QED
  BY <1>4, <1>5, <1>6 DEF Sound

\* markAsPaid: the cycle that is passed was paid by hand.
LEMMA PaymentIsSound ==
    ASSUME NEW b, NEW w, Sound(b, w), b.due <= Today
    PROVE  Sound([rec |-> b.rec, due |-> b.due + 1, before |-> b.due], w \cup {b.due})
<1> DEFINE c == [rec |-> b.rec, due |-> b.due + 1, before |-> b.due]
<1>1. b \in Blobs
  BY DEF Sound
<1>2. b.due \in 1..Today /\ b.rec \in [Records -> 0..MaxStamp]
  BY <1>1, BoundsAssumption DEF Blobs
<1>3. c \in Blobs
  BY <1>1, <1>2, BoundsAssumption DEF Blobs
<1>4. ASSUME NEW x \in Cycles \ (w \cup {b.due}), x < c.due PROVE c.rec[x] # 0
  <2>1. x \in 1..Today /\ x < b.due
    BY <1>2, <1>4, BoundsAssumption DEF Cycles
  <2> QED
    BY <1>2, <1>4, <2>1 DEF Sound
<1>5. c.before <= c.due /\ c.rec[Seed] # 0
  BY <1>2, BoundsAssumption DEF Sound
<1> QED
  BY <1>3, <1>4, <1>5 DEF Sound

\* undoMarkAsPaid: the expenses that go are those of cycles that are due again.
LEMMA UndoIsSound ==
    ASSUME NEW b, NEW w, Sound(b, w), NEW undone,
           undone = IF b.before = 0 THEN {} ELSE b.before..Today
    PROVE  Sound([rec |-> [x \in Records |-> IF x \in undone THEN 0 ELSE b.rec[x]],
                  due |-> IF b.before = 0 THEN b.due ELSE b.before, before |-> 0], w)
<1> DEFINE rec == [x \in Records |-> IF x \in undone THEN 0 ELSE b.rec[x]]
           due == IF b.before = 0 THEN b.due ELSE b.before
           c == [rec |-> rec, due |-> due, before |-> 0]
<1>1. b \in Blobs /\ b.before <= b.due
  BY DEF Sound
<1>2. /\ b.due \in 1..(Today + 1) /\ b.before \in 0..Today
      /\ \A x \in Records : b.rec[x] \in 0..MaxStamp
  BY <1>1 DEF Blobs
<1>3. due \in 1..(Today + 1) /\ due <= b.due
  BY <1>1, <1>2, BoundsAssumption
<1>4. undone \subseteq Cycles /\ \A x \in undone : ~(x < due)
  BY <1>2, BoundsAssumption DEF Cycles
<1>5. \A x \in Records : rec[x] \in 0..MaxStamp /\ (x \notin undone => rec[x] = b.rec[x])
  BY <1>2, MaxStampNat
<1>6. c \in Blobs
  BY <1>3, <1>5, BoundsAssumption DEF Blobs
<1>7. Seed \in Records /\ Seed \notin undone
  BY <1>4, OpsAssumption DEF Records, Cycles
<1>8. ASSUME NEW x \in Cycles \ w, x < due PROVE rec[x] # 0
  <2>1. x \in Records /\ x \notin undone /\ x < b.due
    BY <1>2, <1>3, <1>4, <1>8, BoundsAssumption DEF Records, Cycles
  <2> QED
    BY <1>5, <1>8, <2>1 DEF Sound
<1>9. 0 <= due
  BY <1>3
<1> QED
  BY <1>5, <1>6, <1>7, <1>8, <1>9 DEF Sound

-----------------------------------------------------------------------------
(* Mutations *)

\* savePersonalBlob takes a sound blob.
LEMMA SaveKeeps ==
    ASSUME IInv, NEW o \in Ops, NEW d \in Devices, NEW kind \in Kinds, NEW STATE new,
           blob[d] # NoBlob, Save(o, d, kind, new),
           deleted \subseteq deleted', deleted' \subseteq Records,
           paid \subseteq paid', paid' \subseteq Cycles,
           Sound(new, Waived')
    PROVE  IInv'
<1> USE DEF IInv
<1>1. /\ op[o].pc = "new" /\ stamp' = stamp + 1
      /\ UNCHANGED <<server, answer, readings, faults, saved, reloaded>>
      /\ \A p \in Ops \ {o} : op'[p] = op[p]
      /\ op'[o] = [pc |-> "sent", tab |-> d, kind |-> kind,
                   attempt |-> 0, clock |-> clock[d] + 1, mine |-> new, put |-> new,
                   before |-> IF kind \in BillKinds THEN NoBlob ELSE blob[d]]
      /\ DOMAIN op' = Ops
  BY DEF Save, TypeOK
<1>2. Waived \subseteq Waived'
  BY DEF Waived
<1>3. new \in Blobs /\ blob[d] \in Blobs
  BY DEF Sound, TypeOK
<1>4. Sound(server.blob, Waived)'
  BY <1>1, <1>2, SoundStays
<1>5. TypeOK'
  <2>1. op' \in [Ops -> Saves]
    <3>1. op'[o] \in Saves
      BY <1>1, <1>3, BoundsAssumption DEF Saves, TypeOK
    <3> QED
      BY <1>1, <3>1 DEF TypeOK, Save
  <2>2. \A p \in Ops : op'[p].pc \notin {"new", "done"} => op'[p].put \in Blobs
    BY <1>1, <1>3 DEF TypeOK
  <2>3. stamp' \in 1..MaxStamp
    BY <1>1, StampLeft
  <2>4. blob' \in [Devices -> Blobs \cup {NoBlob}] /\ clock' \in [Devices -> Nat]
    BY <1>3 DEF TypeOK, Save
  <2> QED
    BY <1>1, <2>1, <2>2, <2>3, <2>4 DEF TypeOK
<1>6. SoundTabs'
  <2>1. ASSUME NEW e \in Devices PROVE blob'[e] = blob[e] \/ blob'[e] = new
    BY DEF Save, TypeOK
  <2> QED
    BY <1>1, <1>2, <2>1, SoundStays DEF SoundTabs
<1>7. SoundSaves'
  <2>1. ASSUME NEW p \in Ops \ {o} PROVE SoundSave(p)'
    BY <1>1, <1>2, <2>1, SoundStays DEF SoundSaves, SoundSave, Pending
  <2>2. SoundSave(o)'
    BY <1>1, <1>2, SoundStays DEF SoundTabs, SoundSave, Pending
  <2> QED
    BY <2>1, <2>2 DEF SoundSaves
<1>8. Stamps'
  BY <1>1, StampTaken
<1> QED
  BY <1>4, <1>5, <1>6, <1>7, <1>8

LEMMA MutationKeeps ==
    ASSUME IInv, NEW o \in Ops, NEW d \in Devices,
           \/ AddExpense(o, d) \/ UpdateExpense(o, d) \/ DeleteExpense(o, d)
           \/ ProcessDueBills(o, d) \/ MarkAsPaid(o, d) \/ UndoMarkAsPaid(o, d)
    PROVE  IInv'
<1> USE DEF IInv
<1> DEFINE b == blob[d]
<1>1. blob[d] # NoBlob /\ op[o].pc = "new"
  BY DEF AddExpense, UpdateExpense, DeleteExpense, ProcessDueBills, MarkAsPaid,
         UndoMarkAsPaid, Save
<1>2. Sound(b, Waived) /\ deleted \subseteq Records /\ paid \subseteq Cycles
  BY <1>1 DEF SoundTabs, TypeOK
<1>3. stamp + 1 \in 1..MaxStamp
  BY <1>1, StampLeft
<1>4. CASE AddExpense(o, d)
  <2>1. o \in Records
    BY DEF Records
  <2>2. Sound([b EXCEPT !.rec[o] = stamp + 1], Waived)
    BY <1>2, <1>3, <2>1, TouchIsSound
  <2>3. UNCHANGED <<deleted, paid>> /\ Save(o, d, "add", [b EXCEPT !.rec[o] = stamp + 1])
    BY <1>4 DEF AddExpense
  <2> QED
    BY <1>1, <1>2, <2>2, <2>3, SaveKeeps DEF Waived, Kinds
<1>5. CASE UpdateExpense(o, d)
  <2>1. PICK x \in Records : Save(o, d, "edit", [b EXCEPT !.rec[x] = stamp + 1])
    BY <1>5 DEF UpdateExpense
  <2>2. Sound([b EXCEPT !.rec[x] = stamp + 1], Waived)
    BY <1>2, <1>3, TouchIsSound
  <2>3. UNCHANGED <<deleted, paid>>
    BY <1>5 DEF UpdateExpense
  <2> QED
    BY <1>1, <1>2, <2>1, <2>2, <2>3, SaveKeeps DEF Waived, Kinds
<1>6. CASE DeleteExpense(o, d)
  <2>1. PICK x \in Ops \cup Cycles :
          /\ Save(o, d, "delete", [b EXCEPT !.rec[x] = 0])
          /\ deleted' = deleted \cup {x}
    BY <1>6 DEF DeleteExpense
  <2>2. paid' = paid /\ x \in Records /\ x # Seed
    BY <1>6, OpsAssumption DEF DeleteExpense, Records, Cycles
  <2>3. Sound([b EXCEPT !.rec[x] = 0], Waived \cup {x})
    BY <1>2, <2>2, DeletionIsSound
  <2>4. Waived' = Waived \cup {x} /\ deleted' \subseteq Records
    BY <1>2, <2>1, <2>2 DEF Waived
  <2> QED
    BY <1>1, <1>2, <2>1, <2>2, <2>3, <2>4, SaveKeeps DEF Kinds
<1>7. CASE ProcessDueBills(o, d)
  <2> DEFINE new == [rec |-> WithCycles(b.rec, b.due..Today),
                     due |-> Today + 1, before |-> b.due]
  <2>1. b.due <= Today /\ UNCHANGED <<deleted, paid>> /\ Save(o, d, "process", new)
    BY <1>7 DEF ProcessDueBills
  <2>2. Sound(new, Waived)
    BY <1>2, <1>3, <2>1, ProcessingIsSound
  <2>3. "process" \in Kinds
    BY DEF Kinds, BillKinds
  <2> QED
    BY <1>1, <1>2, <2>1, <2>2, <2>3, SaveKeeps DEF Waived
<1>8. CASE MarkAsPaid(o, d)
  <2> DEFINE new == [rec |-> b.rec, due |-> b.due + 1, before |-> b.due]
  <2>1. /\ b.due <= Today /\ Save(o, d, "paid", new)
        /\ deleted' = deleted /\ paid' = paid \cup {b.due}
    BY <1>8 DEF MarkAsPaid
  <2>2. Waived' = Waived \cup {b.due}
    BY <2>1 DEF Waived
  <2>3. Sound(new, Waived')
    BY <1>2, <2>1, <2>2, PaymentIsSound
  <2>4. b.due \in Cycles
    BY <1>2, <2>1, BoundsAssumption DEF Sound, Blobs, Cycles
  <2>5. "paid" \in Kinds
    BY DEF Kinds, BillKinds
  <2> QED
    BY <1>1, <1>2, <2>1, <2>3, <2>4, <2>5, SaveKeeps
<1>9. CASE UndoMarkAsPaid(o, d)
  <2> DEFINE undone == IF b.before = 0 THEN {} ELSE b.before..Today
             new == [rec |-> [x \in Records |-> IF x \in undone THEN 0 ELSE b.rec[x]],
                     due |-> IF b.before = 0 THEN b.due ELSE b.before, before |-> 0]
  <2>1. UNCHANGED <<deleted, paid>> /\ Save(o, d, "undo", new)
    BY <1>9 DEF UndoMarkAsPaid
  <2>2. Sound(new, Waived)
    BY <1>2, UndoIsSound
  <2>3. "undo" \in Kinds
    BY DEF Kinds, BillKinds
  <2> QED
    BY <1>1, <1>2, <2>1, <2>2, <2>3, SaveKeeps DEF Waived
<1> QED
  BY <1>4, <1>5, <1>6, <1>7, <1>8, <1>9

-----------------------------------------------------------------------------
(* Loading and saving *)

LEMMA AdriftIsSave ==
    ASSUME TypeOK, SoundSaves, NEW o \in Ops, Pending(o)
    PROVE  Adrift(o) \in Saves /\ Adrift(o).pc = "adrift" /\ Sound(Adrift(o).put, Waived)
<1>1. op[o] \in Saves /\ Sound(op[o].put, Waived)
  BY DEF TypeOK, SoundSaves, SoundSave, Pending
<1> DEFINE r == [pc |-> "done", tab |-> NoBlob, kind |-> "none", attempt |-> 0,
                  clock |-> 0, mine |-> NoBlob, put |-> NoBlob, before |-> NoBlob]
<1>3. Done = r
  BY DEF Done, NoOp
<1>4. Adrift(o) = [r EXCEPT !.pc = "adrift", !.clock = op[o].clock, !.put = op[o].put]
  BY <1>3 DEF Adrift
<1>2. Adrift(o) = [pc |-> "adrift", tab |-> NoBlob, kind |-> "none", attempt |-> 0,
                   clock |-> op[o].clock, mine |-> NoBlob, put |-> op[o].put,
                   before |-> NoBlob]
  BY <1>4
<1> QED
  BY <1>1, <1>2, BoundsAssumption DEF Saves, Kinds

LEMMA DoneIsSave == Done \in Saves /\ Done.pc = "done"
BY BoundsAssumption DEF Done, NoOp, Saves, Kinds

\* A step in which saves go on or end, and some blobs are replaced by sound ones.
LEMMA StepKeeps ==
    ASSUME IInv, UNCHANGED <<stamp, deleted, paid>>,
           op' \in [Ops -> Saves],
           \A o \in Ops : SoundSave(o)' /\ (op'[o].pc # "new" <=> op[o].pc # "new"),
           server' \in [blob : Blobs, clock : Nat], Sound(server'.blob, Waived),
           DOMAIN blob' = Devices, DOMAIN answer' = Devices,
           \A d \in Devices :
               /\ blob'[d] = NoBlob \/ Sound(blob'[d], Waived)
               /\ answer'[d] = NoBlob \/ Sound(answer'[d], Waived),
           blob' = [d \in Devices |-> blob'[d]], answer' = [d \in Devices |-> answer'[d]],
           clock' \in [Devices -> Nat], readings' \in 0..MaxReadings,
           faults' \in 0..MaxFaults, saved' \subseteq Ops, reloaded' \in BOOLEAN
    PROVE  IInv'
<1>1. Waived' = Waived
  BY DEF Waived
<1>2. blob' \in [Devices -> Blobs \cup {NoBlob}]
  BY DEF Sound
<1>3. answer' \in [Devices -> Blobs \cup {NoBlob}]
  BY DEF Sound
<1>4. \A o \in Ops : op'[o].pc \notin {"new", "done"} => op'[o].put \in Blobs
  BY DEF SoundSave, Sound
<1>5. TypeOK'
  BY <1>2, <1>3, <1>4 DEF IInv, TypeOK
<1>6. SoundTabs' /\ SoundSaves' /\ Sound(server.blob, Waived)'
  BY <1>1 DEF SoundTabs, SoundSaves
<1>7. Stamps'
  BY StampsKept DEF IInv
<1> QED
  BY <1>5, <1>6, <1>7 DEF IInv

LEMMA LoadingKeeps ==
    ASSUME IInv, NEW d \in Devices,
           Open(d) \/ Fetch(d) \/ FetchReply(d) \/ FetchFails(d)
    PROVE  IInv'
<1> USE DEF IInv
<1>1. Waived' = Waived
  BY DEF Open, Fetch, FetchReply, FetchFails, history, Waived
<1>2. \A e \in Devices :
        /\ blob[e] = NoBlob \/ Sound(blob[e], Waived)
        /\ answer[e] = NoBlob \/ Sound(answer[e], Waived)
  BY DEF SoundTabs
<1>3. CASE Open(d)
  <2>1. \A o \in Ops : op'[o] = IF o \notin PendingOf(d) THEN op[o]
                                ELSE IF op[o].pc = "sent" THEN Adrift(o) ELSE Done
    BY <1>3 DEF Open
  <2>2. ASSUME NEW o \in Ops
        PROVE  op'[o] \in Saves /\ SoundSave(o)' /\ (op'[o].pc # "new" <=> op[o].pc # "new")
    <3>1. CASE o \notin PendingOf(d)
      BY <1>1, <2>1, <3>1 DEF TypeOK, SoundSaves, SoundSave, Pending
    <3>2. CASE o \in PendingOf(d) /\ op[o].pc = "sent"
      <4>1. op'[o] = Adrift(o) /\ Pending(o)
        BY <2>1, <3>2 DEF PendingOf
      <4>2. Adrift(o) \in Saves /\ Adrift(o).pc = "adrift" /\ Sound(Adrift(o).put, Waived)
        BY <4>1, AdriftIsSave
      <4> QED
        BY <1>1, <3>2, <4>1, <4>2 DEF SoundSave, Pending
    <3>3. CASE o \in PendingOf(d) /\ op[o].pc # "sent"
      <4>1. op'[o] = Done /\ op[o].pc # "new"
        BY <2>1, <3>3 DEF PendingOf, Pending
      <4> QED
        BY <4>1, DoneIsSave DEF SoundSave, Pending
    <3> QED
      BY <3>1, <3>2, <3>3
  <2>3. op' \in [Ops -> Saves]
    BY <1>3, <2>2 DEF Open
  <2>4. /\ UNCHANGED <<stamp, deleted, paid, server, faults, saved, reloaded>>
        /\ clock' \in [Devices -> Nat] /\ readings' \in 0..MaxReadings
    BY <1>3, BoundsAssumption DEF Open, DateNow, TypeOK, history
  <2>5. \A e \in Devices :
        /\ blob'[e] = NoBlob \/ Sound(blob'[e], Waived)
        /\ answer'[e] = NoBlob \/ Sound(answer'[e], Waived)
    BY <1>2, <1>3 DEF Open, TypeOK
  <2>6. /\ DOMAIN blob' = Devices /\ DOMAIN answer' = Devices
        /\ blob' = [e \in Devices |-> blob'[e]] /\ answer' = [e \in Devices |-> answer'[e]]
    BY <1>3 DEF Open, TypeOK
  <2> QED
    BY <2>2, <2>3, <2>4, <2>5, <2>6, StepKeeps DEF TypeOK
<1>4. CASE Fetch(d) \/ FetchReply(d) \/ FetchFails(d)
  <2>1. UNCHANGED <<op, stamp, deleted, paid, server, clock, readings, saved>>
    BY <1>4 DEF Fetch, FetchReply, FetchFails, history
  <2>2. \A o \in Ops : SoundSave(o)' /\ (op'[o].pc # "new" <=> op[o].pc # "new")
    BY <1>1, <2>1 DEF SoundSaves, SoundSave, Pending
  <2>3. \A e \in Devices :
        /\ blob'[e] = NoBlob \/ Sound(blob'[e], Waived)
        /\ answer'[e] = NoBlob \/ Sound(answer'[e], Waived)
    BY <1>2, <1>4 DEF Fetch, FetchReply, FetchFails, TypeOK
  <2>4. /\ DOMAIN blob' = Devices /\ DOMAIN answer' = Devices
        /\ blob' = [e \in Devices |-> blob'[e]] /\ answer' = [e \in Devices |-> answer'[e]]
    BY <1>4 DEF Fetch, FetchReply, FetchFails, TypeOK
  <2>5. faults' \in 0..MaxFaults
    BY <1>4, BoundsAssumption DEF Fetch, FetchReply, FetchFails, TypeOK, history
  <2>6. reloaded' \in BOOLEAN
    BY <1>4, Zenon DEF Fetch, FetchReply, FetchFails, TypeOK, history
  <2> QED
    BY <2>1, <2>2, <2>3, <2>4, <2>5, <2>6, StepKeeps DEF TypeOK
<1> QED
  BY <1>3, <1>4

\* A step of the save of o that replaces its record.
LEMMA SavingKeeps ==
    ASSUME IInv, NEW o \in Ops,
           PutServer(o) \/ SaveResolves(o) \/ MergeAndRetry(o)
               \/ RetryUnmerged(o) \/ SaveFails(o)
    PROVE  IInv'
<1> USE DEF IInv
<1>1. UNCHANGED <<stamp, deleted, paid, answer, reloaded>> /\ Waived' = Waived
  BY DEF PutServer, SaveResolves, MergeAndRetry, RetryUnmerged, SaveFails, history, Waived
<1>2. \A e \in Devices :
        /\ blob[e] = NoBlob \/ Sound(blob[e], Waived)
        /\ answer[e] = NoBlob \/ Sound(answer[e], Waived)
  BY DEF SoundTabs
<1>3. /\ op[o] \in Saves /\ SoundSave(o) /\ op[o].pc # "new"
      /\ op[o].pc # "done" /\ Sound(op[o].put, Waived)
  BY DEF PutServer, SaveResolves, MergeAndRetry, RetryUnmerged, SaveFails, Pending,
         SoundSaves, SoundSave, TypeOK
<1>4. op' = [op EXCEPT ![o] = op'[o]] /\ \A p \in Ops \ {o} : op'[p] = op[p]
  BY DEF PutServer, SaveResolves, MergeAndRetry, RetryUnmerged, SaveFails, TypeOK
<1>5. ASSUME op'[o] \in Saves, SoundSave(o)', op'[o].pc # "new"
      PROVE  /\ op' \in [Ops -> Saves]
             /\ \A p \in Ops : SoundSave(p)' /\ (op'[p].pc # "new" <=> op[p].pc # "new")
  <2>1. op' \in [Ops -> Saves]
    BY <1>4, <1>5 DEF TypeOK
  <2>2. \A p \in Ops \ {o} : SoundSave(p)'
    BY <1>1, <1>4 DEF SoundSaves, SoundSave, Pending
  <2> QED
    BY <1>3, <1>4, <1>5, <2>1, <2>2
<1>6. CASE PutServer(o)
  <2>1. op[o].clock \in Nat /\ op[o].put \in Blobs
    BY <1>3 DEF Saves, Sound
  <2>2. server' \in [blob : Blobs, clock : Nat] /\ Sound(server'.blob, Waived)
    BY <1>3, <1>6, <2>1 DEF PutServer, TypeOK
  <2>3. \/ op'[o] = Done
        \/ op[o].pc = "sent" /\ op'[o] = [op[o] EXCEPT !.pc = "conflict"]
        \/ op[o].pc = "sent"
             /\ op'[o] = [op[o] EXCEPT !.pc = "stored", !.mine = NoBlob,
                                      !.clock = op[o].clock + 1]
    BY <1>6 DEF PutServer, TypeOK
  <2>4. op'[o] \in Saves /\ op'[o].pc # "new"
    <3>1. CASE op'[o] = Done
      BY <3>1, DoneIsSave
    <3>2. CASE op'[o] = [op[o] EXCEPT !.pc = "conflict"]
      BY <1>3, <3>2 DEF Saves
    <3>3. CASE op'[o] = [op[o] EXCEPT !.pc = "stored", !.mine = NoBlob,
                                      !.clock = op[o].clock + 1]
      <4>1. op[o].clock + 1 \in Nat
        BY <2>1
      <4> QED
        BY <1>3, <3>3, <4>1 DEF Saves
    <3> QED
      BY <2>3, <3>1, <3>2, <3>3
  <2>5. SoundSave(o)'
    <3>1. CASE op'[o] = Done
      BY <3>1, DoneIsSave DEF SoundSave, Pending
    <3>2. CASE op[o].pc = "sent" /\ op'[o].pc \in {"conflict", "stored"}
      <4>1. /\ op'[o].tab = op[o].tab /\ op'[o].kind = op[o].kind
            /\ op'[o].put = op[o].put /\ op'[o].before = op[o].before
            /\ op'[o].pc = "conflict" => op'[o].mine = op[o].mine
        BY <1>3, <2>3, <3>2, DoneIsSave DEF Saves
      <4> QED
        BY <1>1, <1>3, <3>2, <4>1 DEF SoundSave, Pending
    <3> QED
      BY <1>3, <2>3, <3>1, <3>2 DEF Saves
  <2>6. UNCHANGED <<blob, clock, readings, faults, saved>>
    BY <1>6 DEF PutServer, history
  <2> QED
    BY <1>1, <1>2, <1>5, <2>2, <2>4, <2>5, <2>6, StepKeeps DEF TypeOK
<1>7. CASE SaveResolves(o)
  <2> DEFINE d == op[o].tab
  <2>1. op[o].pc = "stored" /\ d \in Devices /\ op[o].clock \in Nat
    BY <1>3, <1>7 DEF SaveResolves, SoundSave, Pending, Saves
  <2>2. op'[o] = Done
    BY <1>7 DEF SaveResolves, TypeOK
  <2>3. clock' \in [Devices -> Nat]
    BY <1>7, <2>1 DEF SaveResolves, TypeOK, Later
  <2>4. /\ \A e \in Devices : blob'[e] = NoBlob \/ Sound(blob'[e], Waived)
        /\ DOMAIN blob' = Devices /\ blob' = [e \in Devices |-> blob'[e]]
    BY <1>2, <1>3, <1>7, <2>1 DEF SaveResolves, TypeOK
  <2>5. UNCHANGED <<server, readings, faults>> /\ saved' \subseteq Ops
    BY <1>7 DEF SaveResolves, TypeOK
  <2>6. SoundSave(o)' /\ op'[o] \in Saves /\ op'[o].pc # "new"
    BY <2>2, DoneIsSave DEF SoundSave, Pending
  <2> QED
    BY <1>1, <1>2, <1>5, <2>3, <2>4, <2>5, <2>6, StepKeeps DEF TypeOK
<1>8. CASE MergeAndRetry(o)
  <2> DEFINE merged == Merge(server.blob, op[o].mine)
  <2>1. op[o].pc = "conflict" /\ Sound(op[o].mine, Waived) /\ Sound(server.blob, Waived)
    BY <1>3, <1>8 DEF MergeAndRetry, SoundSave
  <2>2. Sound(merged, Waived)
    BY <2>1, MergeIsSound DEF Sound
  <2>9. merged \in Blobs
    BY <2>2 DEF Sound
  <2> HIDE DEF merged
  <2>3. op'[o] = [op[o] EXCEPT !.pc = "sent", !.attempt = @ + 1,
                             !.clock = server.clock + 1, !.put = merged]
    BY <1>8 DEF MergeAndRetry, TypeOK, merged
  <2>4. op[o].attempt + 1 \in 0..(MaxAttempts - 1) /\ server.clock + 1 \in Nat
    BY <1>3, <1>8, BoundsAssumption DEF MergeAndRetry, Saves, TypeOK
  <2>5. op'[o] \in Saves /\ op'[o].pc = "sent" /\ op'[o].put = merged
    <3>1. op[o] \in Saves
      BY <1>3
    <3>2. PICK q, n, c : q = op[o] /\ n = op[o].attempt + 1 /\ c = server.clock + 1
      OBVIOUS
    <3>3. op'[o] = [q EXCEPT !.pc = "sent", !.attempt = n, !.clock = c, !.put = merged]
      BY <2>3, <3>2
    <3>4. q \in Saves /\ n \in 0..(MaxAttempts - 1) /\ c \in Nat
      BY <2>4, <3>1, <3>2
    <3> QED
      <4>1. PICK e, p : e = op'[o] /\ p = merged
        OBVIOUS
      <4>2. e = [pc |-> "sent", tab |-> q.tab, kind |-> q.kind, attempt |-> n, clock |-> c,
                 mine |-> q.mine, put |-> p, before |-> q.before]
        BY ONLY <3>3, <3>4, <4>1 DEF Saves
      <4>3. p \in Blobs
        BY <2>9, <4>1
      <4>4. e \in Saves
        BY ONLY <3>4, <4>2, <4>3 DEF Saves
      <4> QED
        BY ONLY <4>1, <4>2, <4>4
  <2>6. op'[o].tab = op[o].tab /\ op'[o].kind = op[o].kind
        /\ op'[o].mine = op[o].mine /\ op'[o].before = op[o].before
    BY <1>3, <2>3 DEF Saves
  <2>7. SoundSave(o)'
    BY <1>1, <1>3, <2>1, <2>2, <2>5, <2>6 DEF SoundSave, Pending
  <2>8. UNCHANGED <<server, blob, clock, readings, faults, saved>>
    BY <1>8 DEF MergeAndRetry, history
  <2> QED
    BY <1>1, <1>2, <1>5, <2>5, <2>7, <2>8, StepKeeps DEF TypeOK
<1>9. CASE RetryUnmerged(o)
  <2>1. op'[o] = [op[o] EXCEPT !.pc = "sent", !.attempt = @ + 1, !.clock = DateNow]
    BY <1>9 DEF RetryUnmerged, TypeOK
  <2>2. /\ op[o].pc = "conflict" /\ op[o].attempt + 1 \in 0..(MaxAttempts - 1)
        /\ DateNow \in Nat /\ readings' \in 0..MaxReadings /\ faults' \in 0..MaxFaults
    BY <1>3, <1>9, BoundsAssumption DEF RetryUnmerged, Saves, TypeOK, DateNow
  <2>3. op'[o] \in Saves /\ op'[o].pc = "sent"
    BY <1>3, <2>1, <2>2 DEF Saves
  <2>4. op'[o].tab = op[o].tab /\ op'[o].kind = op[o].kind /\ op'[o].put = op[o].put
        /\ op'[o].mine = op[o].mine /\ op'[o].before = op[o].before
    BY <1>3, <2>1 DEF Saves
  <2>5. SoundSave(o)'
    BY <1>1, <1>3, <2>2, <2>3, <2>4 DEF SoundSave, Pending
  <2>6. UNCHANGED <<server, blob, clock, saved>>
    BY <1>9 DEF RetryUnmerged, history
  <2> QED
    BY <1>1, <1>2, <1>5, <2>2, <2>3, <2>5, <2>6, StepKeeps DEF TypeOK
<1>10. CASE SaveFails(o)
  <2> DEFINE d == op[o].tab
  <2>1. Pending(o)
    BY <1>10 DEF SaveFails, Pending
  <2>2. d \in Devices /\ (op[o].kind \notin BillKinds => Sound(op[o].before, Waived))
    BY <1>3, <2>1 DEF SoundSave
  <2>3. /\ \A e \in Devices : blob'[e] = NoBlob \/ Sound(blob'[e], Waived)
        /\ DOMAIN blob' = Devices /\ blob' = [e \in Devices |-> blob'[e]]
    BY <1>2, <1>10, <2>2 DEF SaveFails, TypeOK
  <2>4. op'[o] = Adrift(o) \/ op'[o] = Done
    BY <1>10 DEF SaveFails, TypeOK
  <2>5. SoundSave(o)' /\ op'[o] \in Saves /\ op'[o].pc # "new"
    <3>1. CASE op'[o] = Adrift(o)
      <4>1. op'[o] \in Saves /\ op'[o].pc = "adrift" /\ Sound(op'[o].put, Waived)
        BY <2>1, <3>1, AdriftIsSave
      <4> QED
        BY <1>1, <4>1 DEF SoundSave, Pending
    <3>2. CASE op'[o] = Done
      BY <3>2, DoneIsSave DEF SoundSave, Pending
    <3> QED
      BY <2>4, <3>1, <3>2
  <2>6. UNCHANGED <<server, clock, readings, saved>> /\ faults' \in 0..MaxFaults
    BY <1>10, BoundsAssumption DEF SaveFails, TypeOK, history
  <2> QED
    BY <1>1, <1>2, <1>5, <2>3, <2>5, <2>6, StepKeeps DEF TypeOK
<1> QED
  BY <1>6, <1>7, <1>8, <1>9, <1>10

-----------------------------------------------------------------------------
(* The theorems *)

LEMMA InitSound == Init => IInv
<1> SUFFICES ASSUME Init PROVE IInv
  OBVIOUS
<1> DEFINE b == [EmptyBlob EXCEPT !.rec[Seed] = 1]
<1>1. /\ b = [rec |-> [x \in Records |-> IF x = Seed THEN 1 ELSE 0], due |-> 1, before |-> 0]
      /\ Seed \in Records
  BY DEF EmptyBlob, Records
<1>2. b \in Blobs
  BY <1>1, MaxStampNat, BoundsAssumption DEF Blobs
<1>3. Sound(b, Waived)
  BY <1>1, <1>2, BoundsAssumption DEF Sound, Cycles
<1>4. NoOp \in Saves /\ NoOp.pc = "new"
  BY BoundsAssumption DEF NoOp, Saves, Kinds
<1>5. TypeOK
  <2>1. server \in [blob : Blobs, clock : Nat] /\ stamp \in 1..MaxStamp
    BY <1>2, MaxStampNat DEF Init
  <2>2. op \in [Ops -> Saves] /\ \A o \in Ops : op[o].pc = "new"
    BY <1>4 DEF Init
  <2>3. /\ blob \in [Devices -> Blobs \cup {NoBlob}] /\ clock \in [Devices -> Nat]
        /\ answer \in [Devices -> Blobs \cup {NoBlob}]
    BY DEF Init
  <2>4. /\ readings \in 0..MaxReadings /\ faults \in 0..MaxFaults
        /\ saved \subseteq Ops /\ deleted \subseteq Records /\ paid \subseteq Cycles
    BY BoundsAssumption DEF Init
  <2>5. reloaded \in BOOLEAN
    BY Zenon DEF Init
  <2> QED
    BY <2>1, <2>2, <2>3, <2>4, <2>5 DEF TypeOK
<1>6. SoundTabs /\ SoundSaves
  BY <1>4 DEF Init, SoundTabs, SoundSaves, SoundSave, Pending
<1>7. Made = {}
  BY <1>4 DEF Init, Made
<1>8. Stamps
  BY <1>7, FS_EmptySet DEF Init, Stamps
<1> QED
  BY <1>3, <1>5, <1>6, <1>8 DEF Init, IInv

LEMMA StepSound == IInv /\ [Next]_vars => IInv'
<1> SUFFICES ASSUME IInv, [Next]_vars PROVE IInv'
  OBVIOUS
<1>1. CASE UNCHANGED vars
  BY <1>1 DEF vars, history, IInv, TypeOK, SoundTabs, SoundSaves, SoundSave, Stamps, Made,
              Pending, Waived
<1>2. CASE Next
  BY <1>2, LoadingKeeps, MutationKeeps, SavingKeeps DEF Next
<1> QED
  BY <1>1, <1>2

LEMMA AlwaysSound == Spec => []IInv
BY InitSound, StepSound, PTL DEF Spec

\* The variables keep their types, for any tabs, mutations and cycles: the due
\* date never runs ahead, attempts are bounded, every mutation has its time.
THEOREM PersonalTypes == Spec => []TypeOK
BY AlwaysSound, PTL DEF IInv

\* The data that was there before survives every interleaving of loads,
\* overwriting saves, merges, failures and reloads.
THEOREM SeedSurvives == Spec => []NeverWiped
<1>1. IInv => NeverWiped
  BY DEF IInv, Sound, NeverWiped
<1> QED
  BY <1>1, AlwaysSound, PTL

\* A due date never moves on without the expenses of the cycles it passes.
THEOREM CyclesAreBilled == Spec => []CyclesHaveExpenses
<1>1. IInv => CyclesHaveExpenses
  BY DEF IInv, Sound, CyclesHaveExpenses, Waived
<1> QED
  BY <1>1, AlwaysSound, PTL

-----------------------------------------------------------------------------
(* Two saves that overlap in a tab: whichever is stored last was built on  *)
(* the other, or has merged it.                                            *)

\* What the save of o adds, or has added, and nobody has deleted.
Adding(o) == Pending(o) /\ op[o].kind = "add"
Wanted(o) == o \notin deleted /\ (o \in saved \/ Adding(o))

\* Only one tab is open, and what is under way is its own.
OneTab ==
    /\ readings = 0 => stamp = 1 /\ server.clock = 1 /\ \A d \in Devices : clock[d] = 0
    /\ \A d \in Devices : blob[d] # NoBlob \/ answer[d] # NoBlob => clock[d] # 0
    /\ \A d, e \in Devices : clock[d] # 0 /\ clock[e] # 0 => d = e

\* Nothing is adrift, and an expense is in the blob that adds it.
Steady ==
    /\ \A o \in Ops : op[o].pc # "adrift" /\ (Pending(o) => clock[op[o].tab] # 0)
    /\ saved \subseteq Made /\ \A o \in saved : op[o].pc = "done"
    /\ \A o \in Ops : Adding(o) =>
        op[o].put.rec[o] # 0 /\ (op[o].pc # "stored" => op[o].mine.rec[o] # 0)

\* Before the first save.
NoneMade == \A d \in Devices : clock[d] # 0 => server.clock <= clock[d]

\* After the save of o has begun: its tab shows it, and is not behind the server.
OneMade(o) ==
    /\ op[o].pc # "conflict"
    /\ op[o].pc # "sent" /\ Wanted(o) => server.blob.rec[o] # 0
    /\ \A d \in Devices : clock[d] # 0 =>
        /\ blob[d] # NoBlob /\ (Wanted(o) => blob[d].rec[o] # 0)
        /\ server.clock <= clock[d] + 1
        /\ op[o].pc = "sent" => op[o].clock = clock[d] /\ server.clock <= clock[d]

\* After that of p has begun, too.
TwoMade(o, p) ==
    /\ Made \subseteq {o, p} /\ o # p
    /\ op[p].pc # "conflict"
    /\ op[p].pc = "sent" => /\ server.clock <= op[p].clock
                            /\ op[o].pc # "conflict"
                            /\ op[o].pc = "sent" => server.clock <= op[o].clock /\ op[o].clock < op[p].clock
    /\ op[p].pc \in {"sent", "stored"} /\ Wanted(o) => op[p].put.rec[o] # 0
    /\ op[p].pc # "sent" /\ Wanted(p) =>
        /\ server.blob.rec[p] # 0
        /\ op[o].pc = "sent" => op[o].clock < server.clock \/ op[o].put.rec[p] # 0
    /\ op[o].pc \in {"stored", "done"} /\ Wanted(o) => server.blob.rec[o] # 0

\* No fault, no other page, and two mutations at most.
Calm == Undisturbed /\ stamp <= 3

SavesOverlap ==
    /\ OneTab /\ Steady
    /\ stamp = 1 => NoneMade
    /\ stamp = 2 => \A o \in Made : OneMade(o)
    /\ stamp = 3 => \E o, p \in Ops : TwoMade(o, p)

\* It holds while all is calm.
PairInv == Calm => SavesOverlap

\* The time of the last mutation tells how many there were.
LEMMA MadeByThen ==
    ASSUME IInv
    PROVE  /\ stamp = 1 => Made = {}
           /\ stamp = 2 => \E o \in Ops : Made = {o}
           /\ stamp \in Nat \ {0}
<1>1. stamp = Cardinality(Made) + 1 /\ stamp \in Nat \ {0} /\ Made \subseteq Ops
  BY MaxStampNat DEF IInv, Stamps, TypeOK, Made
<1>2. IsFiniteSet(Made)
  BY <1>1, OpsAssumption, FS_Subset
<1>3. Cardinality(Made) \in Nat
  BY <1>2, FS_CardinalityType
<1>4. stamp = 1 => Made = {}
  BY <1>1, <1>2, <1>3, FS_EmptySet
<1>5. ASSUME stamp = 2 PROVE \E o \in Ops : Made = {o}
  <2>1. Cardinality(Made) = 1
    BY <1>1, <1>3, <1>5
  <2>2. PICK o : Made = {o}
    BY <1>2, <2>1, FS_Singleton
  <2> QED
    BY <1>1, <2>2
<1> QED
  BY <1>1, <1>4, <1>5

\* What is calm after a step was so before.
LEMMA CalmBefore ==
    ASSUME IInv, [Next]_vars, Calm'
    PROVE  Calm /\ faults' = faults /\ reloaded' = reloaded
<1>1. /\ readings \in Nat /\ faults \in Nat /\ stamp \in Nat /\ reloaded \in BOOLEAN
      /\ readings' <= 1 /\ faults' = 0 /\ ~reloaded' /\ stamp' <= 3
  BY MaxStampNat, BoundsAssumption DEF IInv, TypeOK, Calm, Undisturbed
<1>2. /\ readings' = readings \/ readings' = readings + 1
      /\ faults' = faults \/ faults' = faults + 1
      /\ stamp' = stamp \/ stamp' = stamp + 1
      /\ reloaded' = reloaded \/ \E e \in Devices : FetchReply(e)
  <2>1. CASE UNCHANGED vars
    BY <2>1 DEF vars, history
  <2>2. ASSUME NEW e \in Devices, Open(e) \/ Fetch(e) \/ FetchReply(e) \/ FetchFails(e)
        PROVE  /\ readings' = readings \/ readings' = readings + 1
               /\ faults' = faults \/ faults' = faults + 1
               /\ stamp' = stamp
               /\ reloaded' = reloaded \/ FetchReply(e)
    BY <2>2 DEF Open, Fetch, FetchReply, FetchFails, history
  <2>3. ASSUME NEW e \in Devices, NEW o \in Ops,
               \/ AddExpense(o, e) \/ UpdateExpense(o, e) \/ DeleteExpense(o, e)
               \/ ProcessDueBills(o, e) \/ MarkAsPaid(o, e) \/ UndoMarkAsPaid(o, e)
        PROVE  UNCHANGED <<readings, faults, reloaded>> /\ stamp' = stamp + 1
    BY <2>3 DEF AddExpense, UpdateExpense, DeleteExpense, ProcessDueBills, MarkAsPaid, UndoMarkAsPaid, Save
  <2>4. ASSUME NEW o \in Ops,
               PutServer(o) \/ SaveResolves(o) \/ MergeAndRetry(o) \/ RetryUnmerged(o) \/ SaveFails(o)
        PROVE  /\ readings' = readings \/ readings' = readings + 1
               /\ faults' = faults \/ faults' = faults + 1
               /\ UNCHANGED <<stamp, reloaded>>
    BY <2>4 DEF PutServer, SaveResolves, MergeAndRetry, RetryUnmerged, SaveFails, history
  <2> QED
    BY <2>1, <2>2, <2>3, <2>4 DEF Next
<1>3. \A e \in Devices : FetchReply(e) /\ reloaded => reloaded'
  BY Zenon DEF FetchReply
<1>4. reloaded' = reloaded
  <2>1. CASE reloaded' = reloaded
    BY <2>1
  <2>2. CASE \E e \in Devices : FetchReply(e)
    <3>1. reloaded => reloaded'
      BY <1>3, <2>2, Zenon
    <3>2. ~reloaded
      BY <1>1, <3>1, Zenon
    <3>3. reloaded = FALSE
      BY <1>1, <3>2, Zenon
    <3>4. reloaded' \in BOOLEAN
      BY <2>2 DEF FetchReply
    <3>5. reloaded' = FALSE
      BY <1>1, <3>4, Zenon
    <3> QED
      BY <3>3, <3>5
  <2> QED
    BY <1>2, <2>1, <2>2
<1>5. readings <= 1 /\ faults = 0 /\ stamp <= 3
  BY <1>1, <1>2
<1>6. faults' = faults
  BY <1>1, <1>5
<1>7. ~reloaded
  BY <1>1, <1>4
<1> QED
  BY <1>4, <1>5, <1>6, <1>7 DEF Calm, Undisturbed

LEMMA CalmAtFirst == Init => PairInv
<1> SUFFICES ASSUME Init PROVE SavesOverlap
  BY DEF PairInv
<1>1. stamp = 1 /\ saved = {} /\ server.clock = 1
  BY DEF Init
<1>2. \A o \in Ops : op[o].pc = "new" /\ ~Pending(o) /\ ~Adding(o)
  BY DEF Init, NoOp, Pending, Adding
<1>3. \A d \in Devices : clock[d] = 0 /\ blob[d] = NoBlob /\ answer[d] = NoBlob
  BY DEF Init
<1> QED
  BY <1>1, <1>2, <1>3 DEF SavesOverlap, OneTab, Steady, NoneMade

\* Loading the page, and the first answer.
LEMMA LoadsAreCalm ==
    ASSUME IInv, SavesOverlap, NEW d \in Devices, Open(d) \/ Fetch(d) \/ FetchReply(d), Calm'
    PROVE  SavesOverlap'
<1>1. stamp \in Nat \ {0} /\ stamp' = stamp /\ readings' <= 1 /\ readings \in Nat /\ ~reloaded'
      /\ Gap \in Nat \ {0}
  BY MadeByThen, BoundsAssumption DEF Open, Fetch, FetchReply, history, Calm, Undisturbed, IInv, TypeOK
<1>2. CASE Open(d)
  <2>1. readings = 0
    BY <1>1, <1>2 DEF Open
  <2>2. stamp = 1 /\ server.clock = 1 /\ \A e \in Devices : clock[e] = 0
    BY <2>1 DEF SavesOverlap, OneTab
  <2>3. \A o \in Ops : ~Pending(o)
    <3>1. \A o \in Ops : Pending(o) => op[o].tab \in Devices
      BY DEF IInv, SoundSaves, SoundSave
    <3> QED
      BY <2>2, <3>1 DEF SavesOverlap, Steady
  <2>4. UNCHANGED <<server, saved, deleted>> /\ \A o \in Ops : op'[o] = op[o]
    BY <1>2, <2>3 DEF Open, PendingOf, history
  <2>5. /\ clock'[d] = Gap /\ \A e \in Devices : e # d => clock'[e] = 0
        /\ blob'[d] = NoBlob /\ answer'[d] = NoBlob
        /\ \A e \in Devices : e # d => blob'[e] = blob[e] /\ answer'[e] = answer[e]
    BY <1>2, <2>1, <2>2, <1>1 DEF Open, DateNow, IInv, TypeOK
  <2>6. readings' # 0
    BY <1>2, <2>1 DEF Open
  <2>7. OneTab'
    BY <2>2, <2>5, <2>6 DEF OneTab, SavesOverlap
  <2>8. Steady'
    BY <2>3, <2>4 DEF Steady, SavesOverlap, Made, Adding, Pending
  <2>9. NoneMade'
    BY <1>1, <2>2, <2>4, <2>5 DEF NoneMade
  <2> QED
    BY <1>1, <2>2, <2>7, <2>8, <2>9 DEF SavesOverlap
<1>3. CASE Fetch(d)
  <2>1. UNCHANGED <<server, blob, clock, op, readings, stamp, saved, deleted>>
    BY <1>3 DEF Fetch, history
  <2>2. clock[d] # 0 /\ \A e \in Devices : e # d => answer'[e] = answer[e]
    BY <1>3 DEF Fetch, IInv, TypeOK
  <2>3. OneTab'
    BY <2>1, <2>2 DEF OneTab, SavesOverlap
  <2> QED
    BY <2>1, <2>3 DEF SavesOverlap, Steady, NoneMade, OneMade, TwoMade, Made, Adding, Pending, Wanted
<1>4. CASE FetchReply(d)
  <2>1. UNCHANGED <<server, clock, op, readings, stamp, saved, deleted>>
    BY <1>4 DEF FetchReply
  <2>2. clock[d] # 0 /\ blob[d] = NoBlob
    <3>1. answer[d] # NoBlob /\ reloaded' = (reloaded \/ blob[d] # NoBlob)
      BY <1>4 DEF FetchReply
    <3>2. blob[d] = NoBlob
      BY <1>1, <3>1, Zenon
    <3> QED
      BY <3>1, <3>2 DEF OneTab, SavesOverlap
  <2>3. \A e \in Devices : e # d => answer'[e] = answer[e] /\ blob'[e] = blob[e]
    BY <1>4 DEF FetchReply, IInv, TypeOK
  <2>4. OneTab'
    BY <2>1, <2>2, <2>3 DEF OneTab, SavesOverlap
  <2>5. Steady' /\ (stamp = 1 => NoneMade')
    BY <2>1 DEF SavesOverlap, Steady, NoneMade, Made, Adding, Pending
  <2>6. stamp = 2 => Made' = {}
    BY <2>1, <2>2 DEF SavesOverlap, OneMade, Made
  <2>7. ASSUME stamp = 3 PROVE (\E o, p \in Ops : TwoMade(o, p))'
    BY <2>1, <2>7 DEF SavesOverlap, TwoMade, Made, Adding, Pending, Wanted
  <2> QED
    BY <2>1, <2>4, <2>5, <2>6, <2>7 DEF SavesOverlap
<1> QED
  BY <1>2, <1>3, <1>4

\* A save that begins: what it writes has all that its tab shows and nobody has deleted.
LEMMA SaveIsCalm ==
    ASSUME IInv, SavesOverlap, NEW o \in Ops, NEW d \in Devices, NEW kind, NEW STATE new,
           blob[d] # NoBlob, Save(o, d, kind, new), deleted \subseteq deleted', new \in Blobs,
           \A x \in Ops : x \notin deleted' /\ blob[d].rec[x] # 0 => new.rec[x] # 0,
           kind = "add" => new.rec[o] # 0, Calm'
    PROVE  SavesOverlap'
<1>1. /\ op[o].pc = "new" /\ stamp' = stamp + 1
      /\ UNCHANGED <<server, answer, readings, faults, saved, reloaded>>
      /\ \A p \in Ops \ {o} : op'[p] = op[p]
      /\ op'[o] = [pc |-> "sent", tab |-> d, kind |-> kind,
                   attempt |-> 0, clock |-> clock[d] + 1, mine |-> new, put |-> new,
                   before |-> IF kind \in BillKinds THEN NoBlob ELSE blob[d]]
      /\ clock'[d] = clock[d] + 1 /\ \A e \in Devices \ {d} : clock'[e] = clock[e]
      /\ \A e \in Devices \ {d} : blob'[e] = blob[e]
      /\ blob'[d] = IF kind \in BillKinds THEN blob[d] ELSE new
  BY DEF Save, IInv, TypeOK
<1>2. clock[d] # 0 /\ clock[d] \in Nat /\ server.clock \in Nat /\ \A e \in Devices \ {d} : clock[e] = 0
  BY DEF SavesOverlap, OneTab, IInv, TypeOK
<1>3. new # NoBlob
  BY NoBlobAssumption
<1>4. Made' = Made \cup {o} /\ o \notin Made
  BY <1>1 DEF Made
<1>5. \A e \in Devices : (clock'[e] # 0 <=> clock[e] # 0) /\ (clock'[e] # 0 => e = d)
  BY <1>1, <1>2
<1>6. stamp \in Nat \ {0} /\ stamp # 3 /\ stamp' <= 3
  BY <1>1, MadeByThen DEF Calm
<1>7. OneTab'
  <2>1. readings # 0
    BY <1>2 DEF SavesOverlap, OneTab
  <2> QED
    BY <1>1, <1>2, <1>5, <2>1 DEF SavesOverlap, OneTab
<1>8. Pending(o)' /\ (Adding(o)' <=> kind = "add") /\ ~Pending(o) /\ o \notin saved
  BY <1>1, <1>4 DEF Pending, Adding, SavesOverlap, Steady
<1>9. \A p \in Ops \ {o} : (Pending(p)' <=> Pending(p)) /\ (Adding(p)' <=> Adding(p))
  BY <1>1 DEF Pending, Adding
<1>10. \A p \in Ops \ {o} : Wanted(p)' => Wanted(p) /\ p \notin deleted'
  BY <1>1, <1>9 DEF Wanted
<1>11. Wanted(o)' => kind = "add" /\ new.rec[o] # 0
  BY <1>1, <1>8 DEF Wanted
<1>12. Steady'
  <2>1. ASSUME NEW p \in Ops
        PROVE  /\ op'[p].pc # "adrift" /\ (Pending(p)' => clock'[op'[p].tab] # 0)
               /\ Adding(p)' => op'[p].put.rec[p] # 0 /\ (op'[p].pc # "stored" => op'[p].mine.rec[p] # 0)
    <3>1. CASE p = o
      BY <1>1, <1>2, <1>8, <3>1
    <3>2. CASE p # o
      <4>1. Pending(p) => op[p].tab \in Devices
        BY DEF IInv, SoundSaves, SoundSave
      <4> QED
        BY <1>1, <1>5, <1>9, <3>2, <4>1 DEF SavesOverlap, Steady
    <3> QED
      BY <3>1, <3>2
  <2>2. saved' \subseteq Made' /\ \A p \in saved' : op'[p].pc = "done"
    BY <1>1, <1>4, <1>8 DEF SavesOverlap, Steady, Made
  <2> QED
    BY <2>1, <2>2 DEF Steady
<1>13. ASSUME stamp = 1 PROVE \A p \in Made' : OneMade(p)'
  <2>1. Made' = {o}
    BY <1>4, <1>13, MadeByThen
  <2>2. server.clock <= clock[d]
    BY <1>2, <1>13 DEF SavesOverlap, NoneMade
  <2>3. blob'[d] # NoBlob /\ (Wanted(o)' => blob'[d].rec[o] # 0)
    BY <1>1, <1>3, <1>11 DEF BillKinds
  <2>4. OneMade(o)'
    BY <1>1, <1>2, <1>5, <2>2, <2>3 DEF OneMade
  <2> QED
    BY <2>1, <2>4
<1>14. ASSUME stamp = 2 PROVE (\E p, q \in Ops : TwoMade(p, q))'
  <2>1. PICK p \in Ops : Made = {p}
    BY <1>14, MadeByThen
  <2>2. OneMade(p) /\ p # o
    BY <1>4, <1>14, <2>1 DEF SavesOverlap
  <2>3. op'[p] = op[p] /\ op[p].pc \notin {"new", "conflict"}
    BY <1>1, <2>1, <2>2 DEF Made, OneMade
  <2>4. server.clock <= clock[d] + 1 /\ (op[p].pc = "sent" => server.clock <= op[p].clock /\ op[p].clock < clock[d] + 1)
    BY <1>2, <2>2 DEF OneMade
  <2>5. Wanted(p)' => new.rec[p] # 0
    BY <1>2, <1>10, <2>2 DEF OneMade
  <2>6. op[p].pc # "sent" /\ Wanted(p)' => server.blob.rec[p] # 0
    BY <1>10, <2>2 DEF OneMade
  <2>7. TwoMade(p, o)'
    BY <1>1, <1>4, <2>1, <2>2, <2>3, <2>4, <2>5, <2>6 DEF TwoMade
  <2> QED
    BY <2>7
<1> QED
  BY <1>1, <1>6, <1>7, <1>12, <1>13, <1>14 DEF SavesOverlap

LEMMA MutationIsCalm ==
    ASSUME IInv, SavesOverlap, NEW o \in Ops, NEW d \in Devices, Calm',
           \/ AddExpense(o, d) \/ UpdateExpense(o, d) \/ DeleteExpense(o, d)
           \/ ProcessDueBills(o, d) \/ MarkAsPaid(o, d) \/ UndoMarkAsPaid(o, d)
    PROVE  SavesOverlap'
<1> DEFINE b == blob[d]
<1>1. b # NoBlob /\ op[o].pc = "new"
  BY DEF AddExpense, UpdateExpense, DeleteExpense, ProcessDueBills, MarkAsPaid, UndoMarkAsPaid, Save
<1>2. b \in Blobs /\ Sound(b, Waived) /\ stamp + 1 \in 1..MaxStamp
  BY <1>1, StampLeft DEF IInv, SoundTabs, Sound
<1>3. Ops \subseteq Records /\ \A x \in Records : b.rec[x] \in 0..MaxStamp
  BY <1>2 DEF Records, Blobs
<1>4. CASE AddExpense(o, d) \/ UpdateExpense(o, d)
  <2>1. PICK x \in Records, kind \in {"add", "edit"} :
          /\ Save(o, d, kind, [b EXCEPT !.rec[x] = stamp + 1])
          /\ kind = "add" => x = o
    BY <1>3, <1>4 DEF AddExpense, UpdateExpense
  <2>2. PICK new : new = [b EXCEPT !.rec[x] = stamp + 1]
    OBVIOUS
  <2>3. new \in Blobs /\ \A y \in Records : new.rec[y] = IF y = x THEN stamp + 1 ELSE b.rec[y]
    <3>1. Sound(new, Waived)
      BY <1>2, <2>2, TouchIsSound
    <3>2. new.rec = [b.rec EXCEPT ![x] = stamp + 1]
      BY <1>2, <2>2 DEF Blobs
    <3> QED
      BY <1>2, <3>1, <3>2 DEF Sound, Blobs
  <2>4. UNCHANGED deleted
    BY <1>4 DEF AddExpense, UpdateExpense
  <2>5. Save(o, d, kind, new)
    BY <2>1, <2>2
  <2>6. \A y \in Ops : b.rec[y] # 0 => new.rec[y] # 0
    BY <1>2, <1>3, <2>3
  <2>7. kind = "add" => new.rec[o] # 0
    BY <1>2, <1>3, <2>1, <2>3
  <2> QED
    BY <1>1, <2>3, <2>4, <2>5, <2>6, <2>7, SaveIsCalm
<1>5. CASE DeleteExpense(o, d)
  <2>1. PICK x \in Ops \cup Cycles :
          /\ Save(o, d, "delete", [b EXCEPT !.rec[x] = 0])
          /\ deleted' = deleted \cup {x}
    BY <1>5 DEF DeleteExpense
  <2>2. PICK new : new = [b EXCEPT !.rec[x] = 0]
    OBVIOUS
  <2>3. new \in Blobs /\ \A y \in Records : y # x => new.rec[y] = b.rec[y]
    <3>1. Sound(new, Waived \cup {x})
      BY <1>2, <2>2, OpsAssumption, DeletionIsSound DEF Cycles
    <3>2. new.rec = [b.rec EXCEPT ![x] = 0]
      BY <1>2, <2>2 DEF Blobs
    <3> QED
      BY <1>2, <3>1, <3>2 DEF Sound, Blobs
  <2>4. Save(o, d, "delete", new)
    BY <2>1, <2>2
  <2>5. \A y \in Ops : y \notin deleted' /\ b.rec[y] # 0 => new.rec[y] # 0
    BY <1>3, <2>1, <2>3
  <2> QED
    BY <1>1, <2>1, <2>3, <2>4, <2>5, SaveIsCalm
<1>6. CASE ProcessDueBills(o, d)
  <2>1. PICK new : new = [rec |-> WithCycles(b.rec, b.due..Today), due |-> Today + 1, before |-> b.due]
    OBVIOUS
  <2>2. b.due <= Today /\ UNCHANGED deleted /\ Save(o, d, "process", new)
    BY <1>6, <2>1 DEF ProcessDueBills
  <2>3. new \in Blobs
    BY <1>2, <2>1, <2>2, ProcessingIsSound DEF Sound
  <2>4. \A y \in Ops : b.rec[y] # 0 => new.rec[y] # 0
    BY <1>3, <2>1 DEF WithCycles
  <2> QED
    BY <1>1, <2>2, <2>3, <2>4, SaveIsCalm
<1>7. CASE MarkAsPaid(o, d)
  <2>1. PICK new : new = [rec |-> b.rec, due |-> b.due + 1, before |-> b.due]
    OBVIOUS
  <2>2. b.due <= Today /\ UNCHANGED deleted /\ Save(o, d, "paid", new)
    BY <1>7, <2>1 DEF MarkAsPaid
  <2>3. new \in Blobs
    BY <1>2, <2>1, <2>2, PaymentIsSound DEF Sound
  <2> QED
    BY <1>1, <2>1, <2>2, <2>3, SaveIsCalm
<1>8. CASE UndoMarkAsPaid(o, d)
  <2> DEFINE undone == IF b.before = 0 THEN {} ELSE b.before..Today
  <2>1. PICK new : new = [rec |-> [x \in Records |-> IF x \in undone THEN 0 ELSE b.rec[x]],
                          due |-> IF b.before = 0 THEN b.due ELSE b.before, before |-> 0]
    OBVIOUS
  <2>2. UNCHANGED deleted /\ Save(o, d, "undo", new)
    BY <1>8, <2>1 DEF UndoMarkAsPaid
  <2>3. new \in Blobs
    <3>1. PICK u : u = undone
      OBVIOUS
    <3>2. new = [rec |-> [x \in Records |-> IF x \in u THEN 0 ELSE b.rec[x]],
                 due |-> IF b.before = 0 THEN b.due ELSE b.before, before |-> 0]
      BY <2>1, <3>1
    <3>3. u = IF b.before = 0 THEN {} ELSE b.before..Today
      BY <3>1
    <3> HIDE DEF b, undone
    <3>4. Sound(new, Waived)
      BY <1>2, <3>2, <3>3, UndoIsSound
    <3> QED
      BY <3>4 DEF Sound
  <2>4. \A y \in Ops : y \notin undone
    <3>1. undone \subseteq 1..Today
      BY <1>2 DEF Blobs
    <3> QED
      BY <3>1, OpsAssumption
  <2>5. \A y \in Ops : b.rec[y] # 0 => new.rec[y] # 0
    BY <1>3, <2>1, <2>4
  <2> QED
    BY <1>1, <2>2, <2>3, <2>5, SaveIsCalm
<1> QED
  BY <1>4, <1>5, <1>6, <1>7, <1>8

\* A step of the save of o that has no part in what else is going on.
Advances(o) ==
    /\ op[o].pc \notin {"new", "done"} /\ op'[o].pc \notin {"new", "adrift"}
    /\ UNCHANGED <<answer, readings, stamp, deleted>>
    /\ \A p \in Ops \ {o} : op'[p] = op[p]
    /\ Pending(o)' => op'[o].tab = op[o].tab
    /\ \A d \in Devices : (clock[d] # 0 <=> clock'[d] # 0) /\ (d # op[o].tab => blob'[d] = blob[d])
    /\ saved' = saved \/ (saved' = saved \cup {o} /\ op'[o].pc = "done")
    /\ Adding(o)' => op'[o].put.rec[o] # 0 /\ (op'[o].pc # "stored" => op'[o].mine.rec[o] # 0)

LEMMA StepIsCalm ==
    ASSUME IInv, SavesOverlap, NEW o \in Ops, Advances(o)
    PROVE  /\ OneTab' /\ Steady' /\ Made' = Made /\ o \in Made /\ o \notin saved
           /\ Pending(o) /\ op[o].tab \in Devices /\ clock[op[o].tab] # 0
           /\ \A p \in Ops \ {o} : Wanted(p)' <=> Wanted(p)
<1> USE DEF Advances
<1>1. Pending(o)
  BY DEF Pending, SavesOverlap, Steady, IInv, TypeOK, Saves
<1>2. op[o].tab \in Devices /\ clock[op[o].tab] # 0
  BY <1>1 DEF SavesOverlap, Steady, IInv, SoundSaves, SoundSave
<1>3. o \in Made /\ Made' = Made /\ o \notin saved
  BY <1>1 DEF Made, Pending, SavesOverlap, Steady
<1>4. readings # 0
  BY <1>2 DEF SavesOverlap, OneTab
<1>5. OneTab'
  BY <1>2, <1>4 DEF SavesOverlap, OneTab
<1>6. \A p \in Ops \ {o} : (Pending(p)' <=> Pending(p)) /\ (Adding(p)' <=> Adding(p))
  BY DEF Pending, Adding
<1>7. Steady'
  <2>1. ASSUME NEW p \in Ops
        PROVE  /\ op'[p].pc # "adrift" /\ (Pending(p)' => clock'[op'[p].tab] # 0)
               /\ Adding(p)' => op'[p].put.rec[p] # 0 /\ (op'[p].pc # "stored" => op'[p].mine.rec[p] # 0)
    <3>1. CASE p = o
      BY <1>2, <3>1
    <3>2. CASE p # o
      <4>1. Pending(p) => op[p].tab \in Devices
        BY DEF IInv, SoundSaves, SoundSave
      <4> QED
        BY <1>6, <3>2, <4>1 DEF SavesOverlap, Steady
    <3> QED
      BY <3>1, <3>2
  <2>2. saved' \subseteq Made'
    BY <1>3 DEF SavesOverlap, Steady
  <2>3. \A p \in saved' : op'[p].pc = "done"
    <3>1. \A p \in saved : p # o /\ p \in Ops /\ op[p].pc = "done"
      BY <1>3 DEF SavesOverlap, Steady, Made
    <3> QED
      BY <3>1
  <2> QED
    BY <2>1, <2>2, <2>3 DEF Steady
<1>8. \A p \in Ops \ {o} : Wanted(p)' <=> Wanted(p)
  BY <1>6 DEF Wanted
<1> QED
  BY <1>1, <1>2, <1>3, <1>5, <1>7, <1>8

LEMMA PutIsCalm ==
    ASSUME IInv, SavesOverlap, Calm', NEW o \in Ops, PutServer(o)
    PROVE  SavesOverlap'
<1>1. /\ op[o].pc = "sent" /\ op[o].clock \in Nat /\ server.clock \in Nat /\ op[o] \in Saves
      /\ UNCHANGED <<answer, readings, stamp, deleted, saved, blob, clock>>
      /\ \A p \in Ops \ {o} : op'[p] = op[p]
  BY DEF PutServer, history, SavesOverlap, Steady, IInv, TypeOK, Saves
<1>2. \/ /\ op[o].clock < server.clock /\ op'[o] = [op[o] EXCEPT !.pc = "conflict"] /\ server' = server
      \/ /\ ~(op[o].clock < server.clock)
         /\ op'[o] = [op[o] EXCEPT !.pc = "stored", !.mine = NoBlob, !.clock = op[o].clock + 1]
         /\ server' = [blob |-> op[o].put, clock |-> op[o].clock + 1]
  BY <1>1 DEF PutServer, IInv, TypeOK
<1>3. /\ op'[o].pc = IF op[o].clock < server.clock THEN "conflict" ELSE "stored"
      /\ op'[o].tab = op[o].tab /\ op'[o].kind = op[o].kind /\ op'[o].put = op[o].put
      /\ op[o].clock < server.clock => op'[o].mine = op[o].mine
  BY <1>1, <1>2 DEF Saves
<1>4. Adding(o)' <=> Adding(o)
  BY <1>1, <1>3 DEF Adding, Pending
<1>5. Adding(o) => op[o].put.rec[o] # 0 /\ op[o].mine.rec[o] # 0
  BY <1>1 DEF SavesOverlap, Steady
<1>6. /\ OneTab' /\ Steady' /\ Made' = Made /\ o \in Made /\ o \notin saved
      /\ op[o].tab \in Devices /\ clock[op[o].tab] # 0
      /\ \A p \in Ops \ {o} : Wanted(p)' <=> Wanted(p)
  <2>1. /\ op[o].pc \notin {"new", "done"} /\ op'[o].pc \notin {"new", "adrift"}
        /\ \A d \in Devices : (clock[d] # 0 <=> clock'[d] # 0) /\ (d # op[o].tab => blob'[d] = blob[d])
        /\ saved' = saved /\ UNCHANGED <<answer, readings, stamp, deleted>>
        /\ Pending(o)' => op'[o].tab = op[o].tab
    BY <1>1, <1>3
  <2>2. Adding(o)' => op'[o].put.rec[o] # 0 /\ (op'[o].pc # "stored" => op'[o].mine.rec[o] # 0)
    BY <1>3, <1>4, <1>5
  <2>3. Advances(o)
    BY <1>1, <2>1, <2>2 DEF Advances
  <2> QED
    BY <2>3, StepIsCalm
<1>7. (Wanted(o)' <=> Wanted(o)) /\ (Wanted(o) => Adding(o))
  BY <1>1, <1>4, <1>6 DEF Wanted
<1>8. stamp \in Nat \ {0} /\ stamp' = stamp /\ stamp # 1 /\ stamp <= 3
  BY <1>1, <1>6, MadeByThen DEF Calm
<1>9. ASSUME stamp = 2 PROVE \A p \in Made' : OneMade(p)'
  <2>1. Made = {o} /\ OneMade(o)
    BY <1>6, <1>9, MadeByThen DEF SavesOverlap
  <2>2. op[o].clock = clock[op[o].tab] /\ server.clock <= op[o].clock
    BY <1>1, <1>6, <2>1 DEF OneMade
  <2>3. op'[o].pc = "stored" /\ server'.clock = op[o].clock + 1 /\ server'.blob = op[o].put
    BY <1>1, <1>2, <1>3, <2>2
  <2>4. \A d \in Devices : clock[d] # 0 => d = op[o].tab
    BY <1>6 DEF SavesOverlap, OneTab
  <2>5. OneMade(o)'
    BY <1>1, <1>5, <1>7, <2>1, <2>2, <2>3, <2>4 DEF OneMade
  <2> QED
    BY <1>6, <2>1, <2>5
<1>10. ASSUME stamp = 3 PROVE (\E p, q \in Ops : TwoMade(p, q))'
  <2>1. PICK p \in Ops, q \in Ops : TwoMade(p, q)
    BY <1>10 DEF SavesOverlap
  <2>2. o \in {p, q} /\ p # q /\ Made' \subseteq {p, q}
    BY <1>6, <2>1 DEF TwoMade
  <2>3. CASE o = q
    <3>1. server.clock <= op[q].clock /\ op[p].pc # "conflict" /\ (op[p].pc = "sent" => op[p].clock < op[q].clock)
      BY <1>1, <2>1, <2>3 DEF TwoMade
    <3>2. op'[q].pc = "stored" /\ server'.clock = op[q].clock + 1 /\ server'.blob = op[q].put
      BY <1>1, <1>2, <1>3, <2>3, <3>1
    <3>3. op'[p] = op[p] /\ (Wanted(p)' <=> Wanted(p)) /\ (Wanted(p) => op[q].put.rec[p] # 0)
      BY <1>1, <1>6, <2>1, <2>2, <2>3 DEF TwoMade
    <3>4. op[p].pc = "sent" => op[p].clock < server'.clock
      <4>1. op[p].clock \in Nat
        BY DEF IInv, TypeOK, Saves
      <4> QED
        BY <1>1, <2>3, <3>1, <3>2, <4>1
    <3>5. TwoMade(p, q)'
      BY <1>3, <1>5, <1>7, <2>2, <2>3, <3>2, <3>3, <3>4 DEF TwoMade
    <3> QED
      BY <3>5
  <2>4. CASE o = p /\ op[p].clock < server.clock
    <3>1. op[q].pc # "sent"
      BY <1>1, <2>1, <2>4 DEF TwoMade
    <3>2. op'[p].pc = "conflict" /\ server' = server
      BY <1>2, <1>3, <2>4
    <3>3. op'[q] = op[q] /\ (Wanted(q)' <=> Wanted(q))
      BY <1>1, <1>6, <2>2, <2>4
    <3>4. TwoMade(p, q)'
      BY <1>7, <2>1, <2>2, <2>4, <3>1, <3>2, <3>3 DEF TwoMade
    <3> QED
      BY <3>4
  <2>5. CASE o = p /\ ~(op[p].clock < server.clock)
    <3>1. op'[p].pc = "stored" /\ server'.clock = op[p].clock + 1 /\ server'.blob = op[p].put
      BY <1>2, <1>3, <2>5
    <3>2. op'[q] = op[q] /\ (Wanted(q)' <=> Wanted(q))
      BY <1>1, <1>6, <2>2, <2>5
    <3>3. op[q].pc # "sent" /\ Wanted(q) => op[p].put.rec[q] # 0
      BY <1>1, <2>1, <2>5 DEF TwoMade
    <3>4. op[q].pc = "sent" => server'.clock <= op[q].clock
      <4>1. op[q].clock \in Nat
        BY DEF IInv, TypeOK, Saves
      <4> QED
        BY <1>1, <2>1, <2>5, <3>1, <4>1 DEF TwoMade
    <3>5. TwoMade(p, q)'
      BY <1>5, <1>7, <2>1, <2>2, <2>5, <3>1, <3>2, <3>3, <3>4 DEF TwoMade
    <3> QED
      BY <3>5
  <2> QED
    BY <2>2, <2>3, <2>4, <2>5
<1> QED
  BY <1>6, <1>8, <1>9, <1>10 DEF SavesOverlap

LEMMA ResolveIsCalm ==
    ASSUME IInv, SavesOverlap, Calm', NEW o \in Ops, SaveResolves(o)
    PROVE  SavesOverlap'
<1> DEFINE d == op[o].tab
<1>1. /\ op[o].pc = "stored" /\ op'[o] = Done /\ d \in Devices
      /\ UNCHANGED <<server, answer, readings, stamp, deleted>>
      /\ \A p \in Ops \ {o} : op'[p] = op[p]
      /\ blob'[d] = op[o].put /\ \A e \in Devices \ {d} : blob'[e] = blob[e] /\ clock'[e] = clock[e]
      /\ clock'[d] = Later(clock[d], op[o].clock)
      /\ saved' = IF op[o].kind = "add" THEN saved \cup {o} ELSE saved
  BY DEF SaveResolves, IInv, SoundSaves, SoundSave, Pending, TypeOK
<1>2. Done.pc = "done" /\ Done.kind = "none"
  BY DEF Done, NoOp
<1>3. clock[d] # 0 /\ clock[d] \in Nat /\ op[o].clock \in Nat /\ op[o].put # NoBlob
  <2>1. Pending(o)
    BY <1>1 DEF Pending
  <2>2. op[o].put \in Blobs
    BY <1>1 DEF IInv, TypeOK
  <2> QED
    BY <1>1, <2>1, <2>2, NoBlobAssumption DEF SavesOverlap, Steady, IInv, TypeOK, Saves
<1>4. clock'[d] # 0 /\ clock[d] <= clock'[d]
  BY <1>1, <1>3 DEF Later
<1>5. ~Adding(o)' /\ ~Pending(o)' /\ (Adding(o) <=> op[o].kind = "add")
  BY <1>1, <1>2 DEF Adding, Pending
<1>6. Advances(o)
  BY <1>1, <1>2, <1>3, <1>4, <1>5 DEF Advances
<1>7. /\ OneTab' /\ Steady' /\ Made' = Made /\ o \in Made /\ o \notin saved
      /\ \A p \in Ops \ {o} : Wanted(p)' <=> Wanted(p)
  BY <1>6, StepIsCalm
<1>8. (Wanted(o)' <=> Wanted(o)) /\ (Wanted(o) => op[o].put.rec[o] # 0)
  BY <1>1, <1>5, <1>7 DEF Wanted, SavesOverlap, Steady
<1>9. stamp \in Nat \ {0} /\ stamp' = stamp /\ stamp # 1 /\ stamp <= 3
  BY <1>1, <1>7, MadeByThen DEF Calm
<1>10. ASSUME stamp = 2 PROVE \A p \in Made' : OneMade(p)'
  <2>1. Made = {o} /\ OneMade(o)
    BY <1>7, <1>10, MadeByThen DEF SavesOverlap
  <2>2. \A e \in Devices : clock'[e] # 0 => e = d
    BY <1>1, <1>3 DEF SavesOverlap, OneTab
  <2>3. server.clock <= clock'[d] + 1
    <3>1. server.clock \in Nat /\ clock'[d] \in Nat
      BY <1>1, <1>3 DEF IInv, TypeOK, Later
    <3> QED
      BY <1>1, <1>3, <1>4, <2>1, <3>1 DEF OneMade
  <2>4. Wanted(o)' => server'.blob.rec[o] # 0
    BY <1>1, <1>8, <2>1 DEF OneMade
  <2>5. OneMade(o)'
    BY <1>1, <1>2, <1>3, <1>8, <2>2, <2>3, <2>4 DEF OneMade
  <2> QED
    BY <1>7, <2>1, <2>5
<1>11. ASSUME stamp = 3 PROVE (\E p, q \in Ops : TwoMade(p, q))'
  <2>1. PICK p \in Ops, q \in Ops : TwoMade(p, q)
    BY <1>11 DEF SavesOverlap
  <2>2. o \in {p, q} /\ p # q /\ Made' \subseteq {p, q}
    BY <1>7, <2>1 DEF TwoMade
  <2>3. (Wanted(p)' <=> Wanted(p)) /\ (Wanted(q)' <=> Wanted(q))
    BY <1>7, <1>8, <2>2
  <2>4. CASE o = p
    <3>1. op'[q] = op[q] /\ op'[p].pc = "done" /\ op[p].pc = "stored"
      BY <1>1, <1>2, <2>2, <2>4
    <3>2. TwoMade(p, q)'
      BY <1>1, <2>1, <2>2, <2>3, <3>1 DEF TwoMade
    <3> QED
      BY <3>2
  <2>5. CASE o = q
    <3>1. op'[p] = op[p] /\ op'[q].pc = "done" /\ op[q].pc = "stored"
      BY <1>1, <1>2, <2>2, <2>5
    <3>2. TwoMade(p, q)'
      BY <1>1, <2>1, <2>2, <2>3, <3>1 DEF TwoMade
    <3> QED
      BY <3>2
  <2> QED
    BY <2>2, <2>4, <2>5
<1> QED
  BY <1>7, <1>9, <1>10, <1>11 DEF SavesOverlap

\* Only the first save finds a conflict, when the second is stored.
LEMMA ConflictIsCalm ==
    ASSUME IInv, SavesOverlap, Calm', NEW o \in Ops, op[o].pc = "conflict", stamp' = stamp
    PROVE  stamp = 3 /\ o \in Made /\ \E q \in Ops : TwoMade(o, q) /\ op[q].pc # "sent" /\ q # o
<1>1. o \in Made /\ stamp \in Nat \ {0} /\ stamp <= 3
  BY MadeByThen DEF Made, Calm
<1>2. stamp # 1
  BY <1>1, MadeByThen
<1>3. stamp # 2
  BY <1>1 DEF SavesOverlap, OneMade
<1>4. PICK p \in Ops, q \in Ops : TwoMade(p, q)
  BY <1>1, <1>2, <1>3 DEF SavesOverlap
<1>5. o = p /\ op[q].pc # "sent" /\ q # o
  BY <1>1, <1>4 DEF TwoMade
<1> QED
  BY <1>1, <1>2, <1>3, <1>4, <1>5

LEMMA MergeIsCalm ==
    ASSUME IInv, SavesOverlap, Calm', NEW o \in Ops, MergeAndRetry(o)
    PROVE  SavesOverlap'
<1>1. op[o].pc = "conflict" /\ op[o] \in Saves /\ stamp' = stamp
  BY DEF MergeAndRetry, IInv, TypeOK
<1>2. PICK q \in Ops : TwoMade(o, q) /\ op[q].pc # "sent" /\ q # o
  BY <1>1, ConflictIsCalm
<1>3. PICK merged : merged = Merge(server.blob, op[o].mine)
  OBVIOUS
<1>4. /\ UNCHANGED <<server, blob, clock, answer, readings, stamp, saved, deleted>>
      /\ \A p \in Ops \ {o} : op'[p] = op[p]
      /\ op'[o] = [op[o] EXCEPT !.pc = "sent", !.attempt = @ + 1, !.clock = server.clock + 1, !.put = merged]
  BY <1>3 DEF MergeAndRetry, history, IInv, TypeOK
<1>5. /\ op'[o].pc = "sent" /\ op'[o].put = merged /\ op'[o].mine = op[o].mine
      /\ op'[o].kind = op[o].kind /\ op'[o].tab = op[o].tab
  BY <1>1, <1>4 DEF Saves
<1>6. \A x \in Ops : server.blob.rec[x] # 0 \/ op[o].mine.rec[x] # 0 => merged.rec[x] # 0
  <2>1. server.blob \in Blobs /\ op[o].mine \in Blobs
    BY <1>1 DEF IInv, SoundSaves, SoundSave, Sound
  <2>2. \A x \in Ops : merged.rec[x] = Later(server.blob.rec[x], op[o].mine.rec[x])
    BY <1>3, <2>1 DEF Merge, Blobs, Records
  <2>3. \A x \in Ops : server.blob.rec[x] \in Nat /\ op[o].mine.rec[x] \in Nat
    <3>1. Ops \subseteq Records
      BY DEF Records
    <3> QED
      BY <2>1, <3>1, MaxStampNat DEF Blobs
  <2> QED
    BY <2>2, <2>3 DEF Later
<1>7. Adding(o)' <=> Adding(o)
  BY <1>1, <1>5 DEF Adding, Pending
<1>8. Adding(o) => op[o].mine.rec[o] # 0
  BY <1>1 DEF SavesOverlap, Steady
<1>9. Advances(o)
  BY <1>1, <1>4, <1>5, <1>6, <1>7, <1>8 DEF Advances
<1>10. /\ OneTab' /\ Steady' /\ Made' = Made
       /\ Wanted(q)' <=> Wanted(q)
  BY <1>2, <1>9, StepIsCalm
<1>11. TwoMade(o, q)'
  <2>1. op'[q] = op[q] /\ Made' \subseteq {o, q}
    BY <1>2, <1>4, <1>10 DEF TwoMade
  <2>2. op[q].pc \in {"sent", "stored"} /\ Wanted(o)' => op[q].put.rec[o] # 0
    BY <1>2, <1>4, <1>7 DEF TwoMade, Wanted
  <2>3. Wanted(q) => server.blob.rec[q] # 0 /\ merged.rec[q] # 0
    BY <1>2, <1>6 DEF TwoMade
  <2> QED
    BY <1>2, <1>4, <1>5, <1>10, <2>1, <2>2, <2>3 DEF TwoMade
<1>12. stamp = 3
  BY <1>1, ConflictIsCalm
<1> QED
  BY <1>1, <1>10, <1>11, <1>12 DEF SavesOverlap

LEMMA FailureIsCalm ==
    ASSUME IInv, SavesOverlap, Calm', NEW o \in Ops, SaveFails(o), faults' = faults
    PROVE  SavesOverlap'
<1>1. op[o].pc = "conflict" /\ stamp' = stamp
  BY BoundsAssumption DEF SaveFails, IInv, TypeOK
<1>2. PICK q \in Ops : TwoMade(o, q) /\ op[q].pc # "sent" /\ q # o
  BY <1>1, ConflictIsCalm
<1>3. /\ UNCHANGED <<server, clock, answer, readings, stamp, saved, deleted>>
      /\ \A p \in Ops \ {o} : op'[p] = op[p]
      /\ op'[o] = Done /\ \A e \in Devices : e # op[o].tab => blob'[e] = blob[e]
  BY <1>1 DEF SaveFails, history, IInv, TypeOK
<1>4. op'[o].pc = "done" /\ ~Pending(o)' /\ ~Adding(o)'
  BY <1>3 DEF Done, NoOp, Adding, Pending
<1>5. Advances(o)
  BY <1>1, <1>3, <1>4 DEF Advances
<1>6. /\ OneTab' /\ Steady' /\ Made' = Made /\ o \notin saved
      /\ Wanted(q)' <=> Wanted(q)
  BY <1>2, <1>5, StepIsCalm
<1>7. ~Wanted(o)'
  BY <1>3, <1>4, <1>6 DEF Wanted
<1>8. TwoMade(o, q)'
  <2>1. op'[q] = op[q] /\ Made' \subseteq {o, q}
    BY <1>2, <1>3, <1>6 DEF TwoMade
  <2> QED
    BY <1>2, <1>3, <1>4, <1>6, <1>7, <2>1 DEF TwoMade
<1>9. stamp = 3
  BY <1>1, ConflictIsCalm
<1> QED
  BY <1>1, <1>6, <1>8, <1>9 DEF SavesOverlap

LEMMA PairKept == IInv /\ PairInv /\ [Next]_vars => PairInv'
<1> SUFFICES ASSUME IInv, PairInv, [Next]_vars, Calm' PROVE SavesOverlap'
  BY DEF PairInv
<1>1. SavesOverlap /\ faults' = faults /\ faults \in Nat
  BY CalmBefore DEF PairInv, IInv, TypeOK
<1>2. CASE UNCHANGED vars
  BY <1>1, <1>2 DEF vars, history, SavesOverlap, OneTab, Steady, NoneMade, OneMade, TwoMade, Made, Adding,
                    Pending, Wanted
<1>3. ASSUME NEW d \in Devices, Open(d) \/ Fetch(d) \/ FetchReply(d) \/ FetchFails(d) PROVE SavesOverlap'
  <2>1. ~FetchFails(d)
    BY <1>1 DEF FetchFails
  <2> QED
    BY <1>1, <1>3, <2>1, LoadsAreCalm
<1>4. ASSUME NEW d \in Devices, NEW o \in Ops,
             \/ AddExpense(o, d) \/ UpdateExpense(o, d) \/ DeleteExpense(o, d)
             \/ ProcessDueBills(o, d) \/ MarkAsPaid(o, d) \/ UndoMarkAsPaid(o, d)
      PROVE  SavesOverlap'
  BY <1>1, <1>4, MutationIsCalm
<1>5. ASSUME NEW o \in Ops,
             PutServer(o) \/ SaveResolves(o) \/ MergeAndRetry(o) \/ RetryUnmerged(o) \/ SaveFails(o)
      PROVE  SavesOverlap'
  <2>1. ~RetryUnmerged(o)
    BY <1>1 DEF RetryUnmerged
  <2> QED
    BY <1>1, <1>5, <2>1, PutIsCalm, ResolveIsCalm, MergeIsCalm, FailureIsCalm
<1> QED
  BY <1>2, <1>3, <1>4, <1>5 DEF Next

\* Two saves that overlap in a tab are both kept, however they are stored, answered, merged
\* and given up, as long as no request fails and no page replaces the blob: for any
\* tabs, kinds of mutations, cycles and number of attempts.
THEOREM PairsAreKept == Spec => []OverlappingPairKept
<1>1. IInv /\ PairInv => OverlappingPairKept
  <2> SUFFICES ASSUME IInv, SavesOverlap, stamp <= 3, NEW o \in saved \ deleted
               PROVE  server.blob.rec[o] # 0
    BY DEF PairInv, Calm, OverlappingPairKept, KeepsSaved
  <2>1. o \in Made /\ op[o].pc = "done" /\ Wanted(o)
    BY DEF SavesOverlap, Steady, Wanted
  <2>2. stamp \in Nat \ {0} /\ stamp # 1
    BY <2>1, MadeByThen
  <2>3. CASE stamp = 2
    BY <2>1, <2>3 DEF SavesOverlap, OneMade
  <2>4. CASE stamp = 3
    <3>1. PICK p \in Ops, q \in Ops : TwoMade(p, q)
      BY <2>4 DEF SavesOverlap
    <3> QED
      BY <2>1, <3>1 DEF TwoMade
  <2> QED
    BY <2>2, <2>3, <2>4
<1> QED
  BY <1>1, AlwaysSound, CalmAtFirst, PairKept, PTL DEF Spec
=============================================================================

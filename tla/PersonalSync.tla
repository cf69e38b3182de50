---------------------------- MODULE PersonalSync ----------------------------
(***************************************************************************)
(* The private blob of a user: one row on the server (routes/personal.ts), *)
(* written as a whole by every tab that has it loaded                      *)
(* (stores/personalStore.ts, personalExpenseStore.ts, recurringStore.ts).  *)
(*                                                                         *)
(* Of the blob are kept the dated records, a map from the id of a record   *)
(* to the time of its last change, 0 when it is absent, and one recurring  *)
(* bill, a record without a date.  A cycle of the bill is also the id of   *)
(* the expense generated for it (autoExpenseId).  Every mutation is made   *)
(* once, so that it names the expense it adds.                             *)
(***************************************************************************)
EXTENDS Naturals, FiniteSets

CONSTANTS
    Devices,     \* tabs, on one device or several
    Ops,         \* mutations
    Seed,        \* a record that was there before
    NoBlob,
    Today,       \* the cycles of the bill up to this one are due
    Gap,         \* milliseconds between two readings of Date.now()
    MaxAttempts, \* PUTs of one save; 3 in the code
    MaxReadings, \* bound: readings of Date.now(), at a page load or a failure
    MaxFaults    \* bound: requests that fail

ASSUME OpsAssumption ==
    IsFiniteSet(Ops) /\ Ops \cap (1..Today) = {} /\ Seed \notin Ops \cup (1..Today)
ASSUME BoundsAssumption ==
    /\ Today \in Nat /\ Gap \in Nat \ {0}
    /\ MaxAttempts \in Nat \ {0} /\ MaxReadings \in Nat /\ MaxFaults \in Nat

VARIABLES
    server,    \* personal_data: the blob and its clock
    blob,      \* tab -> personalBlob of its store, NoBlob before it is loaded
    clock,     \* tab -> personalVectorClock, 0 before the page is loaded
    answer,    \* tab -> the blob on its way from the server, or NoBlob
    op,        \* mutation -> where its save is
    readings,  \* readings of Date.now() so far
    stamp,     \* the time of the last mutation
    faults,    \* faults so far
    saved,     \* history: expenses added by a save that resolved
    deleted,   \* history: expenses and cycles that a mutation deleted
    paid,      \* history: cycles that were paid by hand
    reloaded   \* history: a loaded blob was replaced by a page that fetched

history == <<saved, deleted, paid, reloaded>>
vars == <<server, blob, clock, answer, op, readings, stamp, faults, history>>

Cycles == 1..Today
Records == {Seed} \cup Ops \cup Cycles
MaxStamp == Cardinality(Ops) + 1

Blobs == [rec : [Records -> 0..MaxStamp], due : 1..(Today + 1), before : 0..Today]

ASSUME NoBlobAssumption == NoBlob \notin Blobs

EmptyBlob == [rec |-> [x \in Records |-> 0], due |-> 1, before |-> 0]

\* Mutations of the recurring store: not shown before they are saved.
BillKinds == {"process", "paid", "undo"}
Kinds == BillKinds \cup {"none", "add", "edit", "delete"}

Saves == [pc : {"new", "sent", "stored", "conflict", "adrift", "done"},
          tab : Devices \cup {NoBlob}, kind : Kinds,
          attempt : 0..(MaxAttempts - 1), clock : Nat, mine : Blobs \cup {NoBlob},
          put : Blobs \cup {NoBlob}, before : Blobs \cup {NoBlob}]

NoOp == [pc |-> "new", tab |-> NoBlob, kind |-> "none", attempt |-> 0,
         clock |-> 0, mine |-> NoBlob, put |-> NoBlob, before |-> NoBlob]
Done == [NoOp EXCEPT !.pc = "done"]

\* "adrift": sent by a page that is gone or has given up, and may still arrive.
Pending(o) == op[o].pc \in {"sent", "stored", "conflict"}
PendingOf(d) == {o \in Ops : Pending(o) /\ op[o].tab = d}
Adrift(o) == [Done EXCEPT !.pc = "adrift", !.clock = op[o].clock, !.put = op[o].put]

TypeOK ==
    /\ server \in [blob : Blobs, clock : Nat]
    /\ blob \in [Devices -> Blobs \cup {NoBlob}]
    /\ clock \in [Devices -> Nat]
    /\ answer \in [Devices -> Blobs \cup {NoBlob}]
    /\ op \in [Ops -> Saves]
    /\ \A o \in Ops : op[o].pc \notin {"new", "done"} => op[o].put \in Blobs
    /\ readings \in 0..MaxReadings /\ stamp \in 1..MaxStamp
    /\ faults \in 0..MaxFaults
    /\ saved \subseteq Ops /\ deleted \subseteq Records /\ paid \subseteq Cycles
    /\ reloaded \in BOOLEAN

Init ==
    /\ server = [blob |-> [EmptyBlob EXCEPT !.rec[Seed] = 1], clock |-> 1]
    /\ blob = [d \in Devices |-> NoBlob]
    /\ clock = [d \in Devices |-> 0]
    /\ answer = [d \in Devices |-> NoBlob]
    /\ op = [o \in Ops |-> NoOp]
    /\ readings = 0 /\ stamp = 1 /\ faults = 0
    /\ saved = {} /\ deleted = {} /\ paid = {} /\ reloaded = FALSE

\* Date.now(), at its next reading.
DateNow == (readings + 1) * Gap

Later(m, n) == IF m >= n THEN m ELSE n

\* mergeById: the union of the records, the later change of each; a record
\* without a date, such as a bill, is the server's.
Merge(theirs, mine) ==
    [theirs EXCEPT !.rec = [x \in Records |-> Later(theirs.rec[x], mine.rec[x])]]

-----------------------------------------------------------------------------
(* Loading *)

\* The page is loaded, or loaded again, which forgets what was under way.
Open(d) ==
    /\ readings < MaxReadings
    /\ readings' = readings + 1
    /\ clock' = [clock EXCEPT ![d] = DateNow]
    /\ blob' = [blob EXCEPT ![d] = NoBlob]
    /\ answer' = [answer EXCEPT ![d] = NoBlob]
    /\ op' = [o \in Ops |-> IF o \notin PendingOf(d) THEN op[o]
                            ELSE IF op[o].pc = "sent" THEN Adrift(o) ELSE Done]
    /\ UNCHANGED <<server, stamp, faults, history>>

\* fetchPersonalBlob, called by every page that shows private data: the
\* server reads the row.
Fetch(d) ==
    /\ clock[d] # 0 /\ answer[d] = NoBlob
    /\ answer' = [answer EXCEPT ![d] = server.blob]
    /\ UNCHANGED <<server, blob, clock, op, readings, stamp, faults, history>>

\* The answer replaces the blob of the tab, whatever happened since.
FetchReply(d) ==
    /\ answer[d] # NoBlob
    /\ blob' = [blob EXCEPT ![d] = answer[d]]
    /\ answer' = [answer EXCEPT ![d] = NoBlob]
    /\ reloaded' = (reloaded \/ blob[d] # NoBlob)
    /\ UNCHANGED <<server, clock, op, readings, stamp, faults, saved, deleted, paid>>

FetchFails(d) ==
    /\ answer[d] # NoBlob /\ faults < MaxFaults
    /\ faults' = faults + 1
    /\ answer' = [answer EXCEPT ![d] = NoBlob]
    /\ UNCHANGED <<server, blob, clock, op, readings, stamp, history>>

-----------------------------------------------------------------------------
(* Mutations: each builds a blob from the one that is loaded and saves it. *)

\* Fault: the change is not shown before it is saved.
SavesUnseen(o, d, kind, new) ==
    /\ op[o].pc = "new"
    /\ clock' = [clock EXCEPT ![d] = @ + 1]
    /\ op' = [op EXCEPT ![o] = [pc |-> "sent", tab |-> d, kind |-> kind,
                                attempt |-> 0, clock |-> clock[d] + 1,
                                mine |-> new, put |-> new, before |-> blob[d]]]
    /\ stamp' = stamp + 1
    /\ UNCHANGED <<server, blob, answer, readings, faults, saved, reloaded>>

\* savePersonalBlob, up to its first PUT.
Save(o, d, kind, new) ==
    /\ op[o].pc = "new"
    /\ clock' = [clock EXCEPT ![d] = @ + 1]
    /\ op' = [op EXCEPT ![o] = [pc |-> "sent", tab |-> d, kind |-> kind,
                                attempt |-> 0, clock |-> clock[d] + 1,
                                mine |-> new, put |-> new,
                                before |-> IF kind \in BillKinds THEN NoBlob ELSE blob[d]]]
    /\ blob' = IF kind \in BillKinds THEN blob ELSE [blob EXCEPT ![d] = new]
    /\ stamp' = stamp + 1
    /\ UNCHANGED <<server, answer, readings, faults, saved, reloaded>>

\* Fault: with nothing loaded, the expense is added to an empty blob.
AddsToNothing(o, d) ==
    LET current == IF blob[d] = NoBlob THEN EmptyBlob ELSE blob[d] IN
    /\ clock[d] # 0
    /\ Save(o, d, "add", [current EXCEPT !.rec[o] = stamp + 1])
    /\ UNCHANGED <<deleted, paid>>

AddExpense(o, d) ==
    /\ blob[d] # NoBlob
    /\ Save(o, d, "add", [blob[d] EXCEPT !.rec[o] = stamp + 1])
    /\ UNCHANGED <<deleted, paid>>

UpdateExpense(o, d) ==
    /\ blob[d] # NoBlob
    /\ \E x \in {y \in Records : blob[d].rec[y] # 0} :
        Save(o, d, "edit", [blob[d] EXCEPT !.rec[x] = stamp + 1])
    /\ UNCHANGED <<deleted, paid>>

\* Bound: the seed is not deleted.
DeleteExpense(o, d) ==
    /\ blob[d] # NoBlob
    /\ \E x \in {y \in Ops \cup Cycles : blob[d].rec[y] # 0} :
        /\ Save(o, d, "delete", [blob[d] EXCEPT !.rec[x] = 0])
        /\ deleted' = deleted \cup {x}
    /\ UNCHANGED paid

\* The expenses of the cycles, unless they are there.
WithCycles(rec, cycles) ==
    [x \in Records |-> IF x \in cycles /\ rec[x] = 0 THEN stamp + 1 ELSE rec[x]]

\* Fault: the loop ends before the cycle that is due today.
SkipsToday(o, d) ==
    /\ blob[d] # NoBlob /\ blob[d].due <= Today
    /\ \A p \in PendingOf(d) : op[p].kind # "process"
    /\ Save(o, d, "process",
            [rec |-> WithCycles(blob[d].rec, blob[d].due..(Today - 1)),
             due |-> Today + 1, before |-> blob[d].due])
    /\ UNCHANGED <<deleted, paid>>

\* Fault: the loop runs one cycle further.
RunsAhead(o, d) ==
    /\ blob[d] # NoBlob /\ blob[d].due <= Today + 1
    /\ \A p \in PendingOf(d) : op[p].kind # "process"
    /\ Save(o, d, "process",
            [rec |-> WithCycles(blob[d].rec, blob[d].due..Today),
             due |-> Today + 2, before |-> blob[d].due])
    /\ UNCHANGED <<deleted, paid>>

\* Every due cycle gets its expense; one run per tab at a time.
ProcessDueBills(o, d) ==
    /\ blob[d] # NoBlob /\ blob[d].due <= Today
    /\ \A p \in PendingOf(d) : op[p].kind # "process"
    /\ Save(o, d, "process",
            [rec |-> WithCycles(blob[d].rec, blob[d].due..Today),
             due |-> Today + 1, before |-> blob[d].due])
    /\ UNCHANGED <<deleted, paid>>

\* Bound: no cycle is paid before it is due.
MarkAsPaid(o, d) ==
    /\ blob[d] # NoBlob /\ blob[d].due <= Today
    /\ Save(o, d, "paid",
            [rec |-> blob[d].rec, due |-> blob[d].due + 1, before |-> blob[d].due])
    /\ paid' = paid \cup {blob[d].due}
    /\ UNCHANGED deleted

\* The due date before the last payment comes back, if it is known, and the
\* expenses generated since then go.
UndoMarkAsPaid(o, d) ==
    /\ blob[d] # NoBlob
    /\ LET b == blob[d]
           undone == IF b.before = 0 THEN {} ELSE b.before..Today
       IN Save(o, d, "undo",
               [rec |-> [x \in Records |-> IF x \in undone THEN 0 ELSE b.rec[x]],
                due |-> IF b.before = 0 THEN b.due ELSE b.before, before |-> 0])
    /\ UNCHANGED <<deleted, paid>>

-----------------------------------------------------------------------------
(* Saving *)

\* PUT /sync: the transaction holds the row.
PutServer(o) ==
    /\ op[o].pc \in {"sent", "adrift"}
    /\ IF op[o].clock < server.clock
       THEN /\ op' = [op EXCEPT ![o] =
                        IF op[o].pc = "adrift" THEN Done
                        ELSE [op[o] EXCEPT !.pc = "conflict"]]
            /\ UNCHANGED server
       ELSE /\ op' = [op EXCEPT ![o] =
                        IF op[o].pc = "adrift" THEN Done
                        ELSE [op[o] EXCEPT !.pc = "stored", !.mine = NoBlob,
                                           !.clock = op[o].clock + 1]]
            /\ server' = [blob |-> op[o].put, clock |-> op[o].clock + 1]
    /\ UNCHANGED <<blob, clock, answer, readings, stamp, faults, history>>

\* The save resolves: the blob it stored becomes the blob of the tab.
SaveResolves(o) ==
    LET d == op[o].tab IN
    /\ op[o].pc = "stored"
    /\ clock' = [clock EXCEPT ![d] = Later(@, op[o].clock)]
    /\ blob' = [blob EXCEPT ![d] = op[o].put]
    /\ op' = [op EXCEPT ![o] = Done]
    /\ saved' = IF op[o].kind = "add" THEN saved \cup {o} ELSE saved
    /\ UNCHANGED <<server, answer, readings, stamp, faults, deleted, paid, reloaded>>

\* After a 409 the tab reads the blob, merges its own into it and sends both.
MergeAndRetry(o) ==
    /\ op[o].pc = "conflict" /\ op[o].attempt < MaxAttempts - 1
    /\ op' = [op EXCEPT ![o].pc = "sent", ![o].attempt = @ + 1,
                        ![o].clock = server.clock + 1,
                        ![o].put = Merge(server.blob, op[o].mine)]
    /\ UNCHANGED <<server, blob, clock, answer, readings, stamp, faults, history>>

\* When that GET is answered with an error, the same blob is sent again with
\* the time of day for its clock.
RetryUnmerged(o) ==
    /\ op[o].pc = "conflict" /\ op[o].attempt < MaxAttempts - 1
    /\ faults < MaxFaults /\ readings < MaxReadings
    /\ faults' = faults + 1 /\ readings' = readings + 1
    /\ op' = [op EXCEPT ![o].pc = "sent", ![o].attempt = @ + 1, ![o].clock = DateNow]
    /\ UNCHANGED <<server, blob, clock, answer, stamp, history>>

\* The last 409, or a connection that breaks before or after the server has
\* done its part: the tab takes the blob from before the mutation back.
SaveFails(o) ==
    LET d == op[o].tab IN
    /\ \/ op[o].pc = "conflict" /\ op[o].attempt = MaxAttempts - 1 /\ UNCHANGED faults
       \/ Pending(o) /\ faults < MaxFaults /\ faults' = faults + 1
    /\ blob' = IF op[o].kind \in BillKinds THEN blob
               ELSE [blob EXCEPT ![d] = op[o].before]
    /\ op' = [op EXCEPT ![o] = IF @.pc = "sent" THEN Adrift(o) ELSE Done]
    /\ UNCHANGED <<server, clock, answer, readings, stamp, history>>

-----------------------------------------------------------------------------
Next ==
    \/ \E d \in Devices :
        \/ Open(d) \/ Fetch(d) \/ FetchReply(d) \/ FetchFails(d)
        \/ \E o \in Ops :
            \/ AddExpense(o, d) \/ UpdateExpense(o, d) \/ DeleteExpense(o, d)
            \/ ProcessDueBills(o, d) \/ MarkAsPaid(o, d) \/ UndoMarkAsPaid(o, d)
    \/ \E o \in Ops :
        \/ PutServer(o) \/ SaveResolves(o) \/ MergeAndRetry(o)
        \/ RetryUnmerged(o) \/ SaveFails(o)

Spec == Init /\ [][Next]_vars

-----------------------------------------------------------------------------
(* Properties *)

\* What was there before is never wiped, whatever tabs fail to load, overwrite
\* and merge: a tab saves nothing until it has loaded the blob ("Fail closed"
\* in addExpense and its siblings).
NeverWiped == server.blob.rec[Seed] # 0

\* Every cycle the bill has passed has its expense, unless it was paid by hand
\* or its expense deleted: overwriting and merging never move the due date
\* without the expenses that go with it (processDueBillsInner, undoMarkAsPaid,
\* mergeById).
CyclesHaveExpenses ==
    \A c \in Cycles \ (paid \cup deleted) :
        c < server.blob.due => server.blob.rec[c] # 0

\* No fault, one page load and no other page fetched: the tab is alone with
\* its own saves.
Undisturbed == readings <= 1 /\ faults = 0 /\ ~reloaded

KeepsSaved == \A o \in saved \ deleted : server.blob.rec[o] # 0

\* Two saves that overlap in a tab both reach the server, in whichever order
\* they are stored and answered: the second is built on the first
\* (addExpense), and the first merges when it comes late (savePersonalBlob).
OverlappingPairKept == Undisturbed /\ stamp <= 3 => KeepsSaved

\* However many saves overlap in a tab, none is lost: "otherwise last-write-wins
\* on the server silently drops one expense" (personalExpenseStore.ts:67).
OverlappingSavesKept == Undisturbed => KeepsSaved

=============================================================================

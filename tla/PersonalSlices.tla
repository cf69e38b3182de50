--------------------------- MODULE PersonalSlices ----------------------------
(***************************************************************************)
(* The lists of one tab that are slices of the private blob (web stores/   *)
(* personalStore.ts, personalIncomeStore.ts, personalBudgetStore.ts,       *)
(* recurringStore.ts).  Every mutation but those of bills publishes one    *)
(* slice at once, saves the whole blob, and puts back what it found if the *)
(* save fails; a save that succeeds sets all lists but that of the bills.  *)
(* Another device writes the blob as well.  The protocol of one slice,     *)
(* with its clocks, is in PersonalSync.                                    *)
(***************************************************************************)
EXTENDS Naturals, FiniteSets

CONSTANTS
    Mutations, \* of the tab: each names the row it adds, if it adds one
    Elsewhere, \* rows that the other device adds
    NotLoaded

ASSUME SlicesAssumption == Mutations \cap Elsewhere = {} /\ IsFiniteSet(Mutations)

VARIABLES
    personalBlob, \* the blob of the tab
    lists,        \* what its pages show of each slice
    serverBlob,   \* the blob of the server
    clocks,       \* the vector clocks of the tab and of the server
    saving,       \* the mutations
    forgotten,    \* history: rows that were missing in the blob that a later mutation of
                  \* the tab began from
    mixed,        \* history: a save that ran beside another one failed, or a category put
                  \* back lists from before the blob was loaded, since all lists were
                  \* set last
    deleted       \* history: rows that a mutation deleted

slicesVars == <<personalBlob, lists, serverBlob, clocks, saving, forgotten, mixed, deleted>>

Ids == Mutations \cup Elsewhere
Slices == {"incomeLogs", "savingsTargets", "budgets", "categories", "recurringBills"}
Dated == {"incomeLogs", "savingsTargets"}

\* No blob is the null that stands for none.
ASSUME NoBlobAssumption == NotLoaded \notin [Slices -> [Ids -> Nat]]

\* The time of the last change of each row, 0 where there is none.
NoRows == [s \in Slices |-> [i \in Ids |-> 0]]
NotBegun == [at |-> "new", kind |-> "none", slice |-> "budgets", id |-> CHOOSE i \in Ids : TRUE,
             before |-> NoRows, shown |-> NoRows, put |-> NoRows, asked |-> NoRows["budgets"],
             clock |-> 0, alone |-> TRUE]

SlicesInit ==
    /\ personalBlob = NotLoaded /\ lists = NoRows /\ serverBlob = NoRows
    /\ clocks = [tab |-> 1, server |-> 0]
    /\ saving = [o \in Mutations |-> NotBegun] /\ forgotten = {} /\ mixed = FALSE /\ deleted = {}

Greater(m, n) == IF m > n THEN m ELSE n
Outstanding == {o \in Mutations : saving[o].at \in {"sent", "stored"}}
Stamp == Cardinality({o \in Mutations : saving[o].at # "new"}) + 1

\* mergeById for every slice: rows without a time are the server's.
MergeSlices(fresh, mine) ==
    [s \in Slices |-> [i \in Ids |->
        IF fresh[s][i] = 0 \/ (s \in Dated /\ mine[s][i] > fresh[s][i]) THEN mine[s][i]
        ELSE fresh[s][i]]]

\* The bills have a store of their own, which sets its list itself.
Showing(blob) == [blob EXCEPT !["recurringBills"] = lists["recurringBills"]]

\* A load while saves run is in PersonalSync.
LoadBlob ==
    /\ Outstanding = {} /\ personalBlob' = serverBlob /\ lists' = Showing(serverBlob)
    /\ mixed' = FALSE /\ UNCHANGED <<serverBlob, clocks, saving, deleted, forgotten>>

\* The other device has the newest blob and adds a row; its clock was started before
\* or after that of the tab.
WrittenElsewhere ==
    /\ \E s \in Slices, i \in Elsewhere : serverBlob[s][i] = 0 /\ serverBlob' = [serverBlob EXCEPT ![s][i] = 1]
    /\ \E ahead \in {0, 3} : clocks' = [clocks EXCEPT !.server = IF ahead = 0 THEN @ + 1 ELSE Greater(@, clocks.tab) + ahead]
    /\ UNCHANGED <<personalBlob, lists, saving, forgotten, mixed, deleted>>

-----------------------------------------------------------------------------
\* Rows that were added, and whose save has not failed, but that a blob lacks.
Missing(blob) ==
    {o \in Mutations : /\ saving[o].kind = "add" /\ saving[o].at \in {"sent", "stored", "told"}
                       /\ blob[saving[o].slice][o] = 0}

\* A mutation saves the blob it found with its row.
SavesRow(o, kind, s, i, found, time) ==
    LET put == [found EXCEPT ![s][i] = time] IN
    /\ saving' = [p \in Mutations |->
           IF p = o THEN [at |-> "sent", kind |-> kind, slice |-> s, id |-> i, before |-> found,
                          shown |-> lists, put |-> put, asked |-> put[s], clock |-> clocks.tab + 1,
                          alone |-> Outstanding = {}]
           ELSE [saving[p] EXCEPT !.alone = @ /\ p \notin Outstanding]]
    /\ clocks' = [clocks EXCEPT !.tab = @ + 1]
    /\ forgotten' = forgotten \cup Missing(found)

\* All but the bills publish the slice at once, beside the lists that are shown.
Publishes(o, kind, s, i, found, shown, time) ==
    /\ SavesRow(o, kind, s, i, found, time)
    /\ personalBlob' = [found EXCEPT ![s][i] = time]
    /\ lists' = [shown EXCEPT ![s] = [found[s] EXCEPT ![i] = time]]

\* A blob that is not loaded is fetched first; a mutation that cannot is refused.
AddRow(o, s) ==
    /\ saving[o].at = "new"
    /\ IF personalBlob # NotLoaded THEN Publishes(o, "add", s, o, personalBlob, lists, Stamp)
       ELSE Publishes(o, "add", s, o, serverBlob, Showing(serverBlob), Stamp)
    /\ UNCHANGED <<serverBlob, mixed, deleted>>

ChangeRow(o, s, i) ==
    /\ saving[o].at = "new" /\ personalBlob # NotLoaded /\ personalBlob[s][i] > 0
    /\ Publishes(o, "update", s, i, personalBlob, lists, Stamp)
    /\ UNCHANGED <<serverBlob, mixed, deleted>>

RemoveRow(o, s, i) ==
    /\ saving[o].at = "new" /\ personalBlob # NotLoaded /\ personalBlob[s][i] > 0
    /\ Publishes(o, "delete", s, i, personalBlob, lists, 0) /\ deleted' = deleted \cup {i}
    /\ UNCHANGED <<serverBlob, mixed>>

Mutate(o, s) == AddRow(o, s) \/ \E i \in Ids : ChangeRow(o, s, i) \/ RemoveRow(o, s, i)

MutateIncome(o) == Mutate(o, "incomeLogs")
MutateSavings(o) == Mutate(o, "savingsTargets")
MutateBudget(o) == Mutate(o, "budgets")
MutateCategory(o) == AddRow(o, "categories") \/ \E i \in Ids : RemoveRow(o, "categories", i)

fetchRecurringBills ==
    /\ personalBlob # NotLoaded
    /\ lists' = [lists EXCEPT !["recurringBills"] = personalBlob["recurringBills"]]
    /\ UNCHANGED <<personalBlob, serverBlob, clocks, saving, forgotten, mixed, deleted>>

\* A blob that is not loaded is fetched first.
createRecurringBill(o) ==
    /\ saving[o].at = "new"
    /\ IF personalBlob # NotLoaded
       THEN SavesRow(o, "add", "recurringBills", o, personalBlob, Stamp) /\ UNCHANGED <<personalBlob, lists>>
       ELSE /\ SavesRow(o, "add", "recurringBills", o, serverBlob, Stamp)
            /\ personalBlob' = serverBlob /\ lists' = Showing(serverBlob)
    /\ UNCHANGED <<serverBlob, mixed, deleted>>

\* Also when it is switched on or off.
updateRecurringBill(o, i) ==
    /\ saving[o].at = "new" /\ personalBlob # NotLoaded /\ personalBlob["recurringBills"][i] > 0
    /\ SavesRow(o, "update", "recurringBills", i, personalBlob, Stamp)
    /\ UNCHANGED <<personalBlob, lists, serverBlob, mixed, deleted>>

MutateBill(o) == createRecurringBill(o) \/ \E i \in Ids : updateRecurringBill(o, i)

\* The PUT; after a conflict, a second one of the merge with what the server has.
SaveStored(o) ==
    /\ saving[o].at = "sent"
    /\ LET conflict == saving[o].clock < clocks.server
           put == IF conflict THEN MergeSlices(serverBlob, saving[o].put) ELSE saving[o].put
           clock == (IF conflict THEN clocks.server + 1 ELSE saving[o].clock) + 1
       IN  /\ serverBlob' = put /\ clocks' = [clocks EXCEPT !.server = clock]
           /\ saving' = [saving EXCEPT ![o].at = "stored", ![o].put = put, ![o].clock = clock]
    /\ UNCHANGED <<personalBlob, lists, forgotten, mixed, deleted>>

\* What a save leaves behind when it is over.
Over(o, at) ==
    saving' = [saving EXCEPT ![o] = [NotBegun EXCEPT !.at = at, !.kind = saving[o].kind,
                                                     !.slice = saving[o].slice, !.id = saving[o].id]]

\* The list of bills is what was to be saved, before it was merged.
BillsShown(o, shown) ==
    IF saving[o].slice = "recurringBills" THEN [shown EXCEPT !["recurringBills"] = saving[o].asked] ELSE shown

SaveTold(o) ==
    /\ saving[o].at = "stored" /\ Over(o, "told")
    /\ personalBlob' = saving[o].put /\ mixed' = FALSE
    /\ lists' = BillsShown(o, Showing(saving[o].put))
    /\ clocks' = [clocks EXCEPT !.tab = Greater(@, saving[o].clock)]
    /\ UNCHANGED <<serverBlob, forgotten, deleted>>

\* The slice is put back; a category puts back lists of the time before the blob was
\* loaded as well.
ListsPutBack(o) ==
    LET op == saving[o] IN
    [s \in Slices |-> IF s = op.slice THEN op.before[s]
                      ELSE IF op.slice = "categories" /\ op.kind = "add" /\ s \in Dated THEN op.shown[s]
                      ELSE lists[s]]

\* Whether or not the blob was stored.
SaveFailed(o) ==
    /\ o \in Outstanding /\ saving[o].slice # "recurringBills" /\ Over(o, "failed")
    /\ personalBlob' = saving[o].before /\ lists' = ListsPutBack(o)
    /\ mixed' = (mixed \/ ~saving[o].alone \/ ListsPutBack(o) # [lists EXCEPT ![saving[o].slice] =
                                                                saving[o].before[saving[o].slice]])
    /\ UNCHANGED <<serverBlob, clocks, forgotten, deleted>>

\* A bill was not published, and nothing is put back.
BillFailed(o) ==
    /\ o \in Outstanding /\ saving[o].slice = "recurringBills" /\ Over(o, "failed")
    /\ UNCHANGED <<personalBlob, lists, serverBlob, clocks, forgotten, mixed, deleted>>

SlicesNext ==
    \/ LoadBlob \/ WrittenElsewhere \/ fetchRecurringBills
    \/ \E o \in Mutations :
        \/ MutateIncome(o) \/ MutateSavings(o) \/ MutateBudget(o) \/ MutateCategory(o)
        \/ MutateBill(o) \/ SaveStored(o) \/ SaveTold(o) \/ SaveFailed(o) \/ BillFailed(o)

SlicesSpec == SlicesInit /\ [][SlicesNext]_slicesVars

-----------------------------------------------------------------------------
\* Every list shows its slice of the blob, while saves run and after they fail, unless
\* saves of the tab overlapped, and one of them failed.  A category whose save failed
\* after it had loaded the blob empties the lists of incomes and savings.
\* The list of the bills is set by their own store only.
ListsShowBlob == personalBlob # NotLoaded /\ ~mixed => lists = Showing(personalBlob)

\* What a mutation was told is saved stays on the server until it is deleted, whatever
\* fails, overlaps or is written by the other device, unless a later mutation of the
\* tab began from a blob that lacked it.  (The answer to a mutation sets the blob of
\* the tab to one without the rows of those that began after it and still run, a save
\* that fails puts back an older blob, and a bill is not in the blob of the tab before
\* it is saved: what begins then saves that blob over the rows.)
ToldIsStored ==
    \A o \in Mutations \ (deleted \cup forgotten) :
        saving[o].at = "told" /\ saving[o].kind = "add" => serverBlob[saving[o].slice][o] > 0
=============================================================================

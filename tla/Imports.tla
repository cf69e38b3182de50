------------------------------- MODULE Imports -------------------------------
(***************************************************************************)
(* The import of expenses from a CSV file (web pages/import/               *)
(* ImportPage.tsx) and the encrypted backup (web lib/dataExport.ts).  Both *)
(* store expense after expense with addExpense, which gives each a new id. *)
(* A save may fail, or be stored while its answer is lost: the tab then    *)
(* goes back to the blob it had, and its next save replaces what it does   *)
(* not know of.  Saves of the tab follow one another here; those that      *)
(* overlap are in PersonalSync.tla.                                        *)
(***************************************************************************)
EXTENDS Integers, Sequences, FiniteSets

CONSTANTS
    Texts,    \* amounts as they stand in a file
    NewIds,   \* of expenses
    MaxRows,  \* bound: rows of a file
    MaxLoads, \* bound: files and backups that are read in
    MaxBuys   \* bound: expenses entered, and changes of the rest of the blob

\* The digits of a text, its last mark with so many digits after it, whether the
\* other mark stands further ahead, and whether the last one does.
ASSUME ImportsAssumption ==
    /\ Texts \subseteq [digits : Int, mark : {"none", "dot", "comma"}, places : Nat,
                        grouped : BOOLEAN, again : BOOLEAN]
    /\ MaxRows \in Nat /\ MaxLoads \in Nat /\ MaxBuys \in Nat

VARIABLES
    ledger,  \* the stored blob: its expenses, each with its row in a file or backup,
             \* and the version of all the rest, with the backup it came from
    held,    \* personalBlob of the tab
    screen,  \* the step of the import page
    parsedData, \* the rows of its file
    run,     \* handleConfirmImport: its file, its row, what it counts; as history, the
             \* rows whose answer was lost
    saved,   \* the backup
    restore, \* importEncryptedBackup: how it stands, its file and what is left of it
    loads

importsVars == <<ledger, held, screen, parsedData, run, saved, restore, loads>>
importPageVars == <<screen, parsedData, run>>

NaN == [n |-> 0, places |-> -1]
NewBlob == [expenses |-> {}, rest |-> [of |-> 0, version |-> 0]]
NoFile == [rows |-> <<>>, load |-> 0]

RunOver(file, on) ==
    [on |-> on, file |-> file.rows, load |-> file.load, at |-> 1, imported |-> 0, errors |-> <<>>, lost |-> {}]

ImportsInit ==
    /\ ledger = NewBlob /\ held = NewBlob /\ saved = NewBlob /\ loads = 0
    /\ screen = "upload" /\ parsedData = NoFile /\ run = RunOver(NoFile, FALSE)
    /\ restore = [how |-> "none", load |-> 0, left |-> {}, file |-> NewBlob]

-----------------------------------------------------------------------------
\* A number of so many digits behind the point.
Number(n, places) == [n |-> n, places |-> places]

\* With both marks the last one separates the decimals, but a comma stays a comma,
\* which is no number; one comma separates them if two digits follow it; all other
\* marks are dropped.
parseAmount(t) ==
    IF t.mark = "none" THEN Number(t.digits, 0)
    ELSE IF t.grouped THEN IF t.mark = "dot" /\ ~t.again THEN Number(t.digits, t.places) ELSE NaN
    ELSE IF t.mark = "comma" /\ t.places = 2 THEN IF t.again THEN NaN ELSE Number(t.digits, 2)
    ELSE Number(t.digits, 0)

Bought(id, load, row, value) == [id |-> id, of |-> load, row |-> row, amount |-> value]

Answers == {"stored", "failed", "lost"}

\* With one save of the tab at a time the server takes each: its clock is at most
\* the one that comes next.
savePersonalBlob(blob, answer) ==
    /\ ledger' = IF answer = "failed" THEN ledger ELSE blob
    /\ held' = IF answer = "stored" THEN blob ELSE held

StoreExpense(load, row, value, answer) ==
    \E id \in NewIds :
        /\ \A e \in held.expenses : e.id # id
        /\ savePersonalBlob([held EXCEPT !.expenses = @ \cup {Bought(id, load, row, value)}], answer)

\* An expense is entered by hand.  Edits of an older one are left out.
AddByHand ==
    /\ Cardinality({e \in held.expenses : e.of = 0}) < MaxBuys
    /\ \E answer \in Answers : StoreExpense(0, 0, Number(1, 0), answer)
    /\ UNCHANGED <<importPageVars, saved, restore, loads>>

\* Budgets, categories, incomes, savings targets or bills change.
RestChanges ==
    /\ held.rest.version < MaxBuys
    /\ \E answer \in Answers :
        savePersonalBlob([held EXCEPT !.rest = [of |-> 0, version |-> held.rest.version + 1]], answer)
    /\ UNCHANGED <<importPageVars, saved, restore, loads>>

Restoring == restore.how = "restoring"

\* The tab is loaded anew, or opened after it was closed; whatever ran in it is gone.
fetchPersonalBlob ==
    /\ held' = ledger /\ screen' = "upload" /\ parsedData' = NoFile
    /\ run' = [run EXCEPT !.on = FALSE]
    /\ restore' = IF Restoring THEN [restore EXCEPT !.how = "failed"] ELSE restore
    /\ UNCHANGED <<ledger, saved, loads>>

-----------------------------------------------------------------------------
Files == UNION {[1..n -> Texts] : n \in 1..MaxRows}

\* The user reads in one file, or one backup, at a time.
handleFileUpload(file) ==
    /\ screen = "upload" /\ ~Restoring /\ loads < MaxLoads /\ loads' = loads + 1
    /\ parsedData' = [rows |-> file, load |-> loads'] /\ screen' = "preview"
    /\ UNCHANGED <<ledger, held, run, saved, restore>>

handleConfirmImport ==
    /\ screen = "preview" /\ ~run.on /\ run' = RunOver(parsedData, TRUE)
    /\ UNCHANGED <<ledger, held, screen, parsedData, saved, restore, loads>>

\* The row that an error names, counted from what became of those before it.
RowNumber == run.imported + Len(run.errors) + 1

RowFails(lost) ==
    run' = [run EXCEPT !.at = @ + 1, !.errors = Append(@, RowNumber), !.lost = @ \cup lost]

RowArrives == run' = [run EXCEPT !.at = @ + 1, !.imported = @ + 1]

NotPositive(v) == v.n <= 0

ImportRow ==
    /\ run.on /\ run.at <= Len(run.file)
    /\ LET v == parseAmount(run.file[run.at])
           Stores(answer) == StoreExpense(run.load, run.at, v, answer)
       IN  \/ NotPositive(v) /\ RowFails({}) /\ UNCHANGED <<ledger, held>>
           \/ ~NotPositive(v) /\ Stores("stored") /\ RowArrives
           \/ ~NotPositive(v) /\ Stores("failed") /\ RowFails({})
           \/ ~NotPositive(v) /\ Stores("lost") /\ RowFails({run.at})
    /\ UNCHANGED <<screen, parsedData, saved, restore, loads>>

\* Whatever step the page is at, and whichever file it shows.
ImportEnds ==
    /\ run.on /\ run.at = Len(run.file) + 1 /\ run' = [run EXCEPT !.on = FALSE] /\ screen' = "done"
    /\ UNCHANGED <<ledger, held, parsedData, saved, restore, loads>>

\* Also while rows are imported: only the button that starts a run is disabled then.
reset ==
    /\ screen \in {"preview", "done"} /\ screen' = "upload" /\ parsedData' = NoFile
    /\ UNCHANGED <<ledger, held, run, saved, restore, loads>>

-----------------------------------------------------------------------------
exportEncryptedBackup == saved' = held /\ UNCHANGED <<ledger, held, importPageVars, restore, loads>>

\* A wrong password, or a file that is no backup, is found before anything is stored.
importEncryptedBackup ==
    /\ ~Restoring /\ screen = "upload" /\ loads < MaxLoads /\ loads' = loads + 1
    /\ \E how \in {"restoring", "refused"} :
        restore' = [how |-> how, load |-> loads', left |-> saved.expenses, file |-> saved]
    /\ UNCHANGED <<ledger, held, importPageVars, saved>>

\* The first expense that fails ends the import; those before it stay.
RestoreExpense ==
    /\ Restoring
    /\ \E e \in restore.left, answer \in Answers :
        /\ StoreExpense(restore.load, e.id, e.amount, answer)
        /\ restore' = [restore EXCEPT !.left = @ \ {e}, !.how = IF answer = "stored" THEN @ ELSE "failed"]
    /\ UNCHANGED <<importPageVars, saved, loads>>

\* Everything else is replaced by that of the backup, in one save.
RestoreRest ==
    /\ Restoring /\ restore.left = {}
    /\ \E answer \in Answers :
        /\ savePersonalBlob([held EXCEPT !.rest = [of |-> restore.load, version |-> restore.file.rest.version]], answer)
        /\ restore' = [restore EXCEPT !.how = IF answer = "stored" THEN "restored" ELSE "failed"]
    /\ UNCHANGED <<importPageVars, saved, loads>>

FileNext ==
    \/ AddByHand \/ fetchPersonalBlob
    \/ \E file \in Files : handleFileUpload(file)
    \/ handleConfirmImport \/ ImportRow \/ ImportEnds \/ reset

BackupNext ==
    \/ AddByHand \/ RestChanges \/ fetchPersonalBlob \/ exportEncryptedBackup
    \/ importEncryptedBackup \/ RestoreExpense \/ RestoreRest

ImportsSpec == ImportsInit /\ [][FileNext \/ BackupNext]_importsVars

-----------------------------------------------------------------------------
Copies(load, row) == {e \in ledger.expenses : e.of = load /\ e.row = row}

\* Every row that a run has been through is stored once, with a positive amount, or
\* is named by an error, whatever else is stored before, between and after them and
\* whichever tab holds less than the server.  Only a row whose answer was lost may be
\* both, until a save of the tab, which has gone back to the blob before it, takes it away.
RowsAccounted ==
    \A row \in 1..(run.at - 1) :
        LET failed == \E k \in DOMAIN run.errors : run.errors[k] = row
        IN  /\ \A e \in Copies(run.load, row) : e.amount = parseAmount(run.file[row]) /\ ~NotPositive(e.amount)
            /\ IF failed THEN Copies(run.load, row) = {} \/ (row \in run.lost /\ Cardinality(Copies(run.load, row)) = 1)
                         ELSE Cardinality(Copies(run.load, row)) = 1

\* An expense of a backup is restored once if it is, and as it was; all of them are,
\* before the rest of the blob is replaced, and stay so unless the import failed.
RestoredWhole ==
    LET file == restore.file
        Again(e) == Copies(restore.load, e.id)
        replaced == restore.load > 0 /\ ledger.rest.of = restore.load
    IN  /\ \A e \in file.expenses : Again(e) # {} =>
              Cardinality(Again(e)) = 1 /\ \A c \in Again(e) : c.amount = e.amount
        /\ restore.how = "restored" \/ replaced => \A e \in file.expenses : Again(e) # {}
        /\ replaced => ledger.rest.version = file.rest.version
=============================================================================

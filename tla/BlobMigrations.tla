--------------------------- MODULE BlobMigrations ----------------------------
(***************************************************************************)
(* The blobs that old clients left behind (shared engine/blobMigration.ts) *)
(* and what becomes of them: every client that reads such a blob fills in  *)
(* what its rows lack, ids of its own making among it, and a mutation      *)
(* stores the result.  The private blob is merged with what another device *)
(* stored in between, as it stands (web stores/personalStore.ts); the blob *)
(* of a group is read again (web lib/groupSync.ts).                        *)
(***************************************************************************)
EXTENDS Naturals, FiniteSets

CONSTANTS
    OldRows,  \* rows that old clients wrote
    Readers,  \* devices
    MaxTurns, \* bound: reads and saves of each device
    LastDate  \* bound: days that pass

\* 0 stands for no row and for no device.
ASSUME BlobMigrationsAssumption == /\ MaxTurns \in Nat /\ LastDate \in Nat
                                   /\ 0 \notin OldRows \cup Readers

VARIABLES
    scope,  \* whose blob it is: "personal" or "group"
    oldBlob,   \* the blob of the server: version, rows and clock
    copy,   \* the blob of each device, and the clock it saves with
    readOn   \* the day on which blobs are read

blobVars == <<scope, oldBlob, copy, readOn>>

PersonalKinds == {"expense", "category", "budget"}
GroupKinds == {"groupExpense", "settlement", "category"}

CURRENT_BLOB_VERSION == 1

\* An id names the row it was made for, the device that made it and when.
NoId == [row |-> 0, by |-> 0, nth |-> 0]
OwnId(r) == [row |-> r, by |-> 0, nth |-> 0]
NoCopy(clock) == [at |-> "none", version |-> 0, rows |-> {}, clock |-> clock, turns |-> 0]

\* Old rows may lack ids, dates and currencies.
OldRow(r, kind, hasId, rest) ==
    [of |-> r, kind |-> kind, id |-> IF hasId THEN OwnId(r) ELSE NoId,
     date |-> IF rest THEN LastDate + 1 ELSE 0, currency |-> IF rest THEN "own" ELSE "none"]

BlobMigrationsInit ==
    /\ scope \in {"personal", "group"} /\ readOn = 1
    /\ \E kinds \in [OldRows -> IF scope = "group" THEN GroupKinds ELSE PersonalKinds],
          named, whole \in SUBSET OldRows :
        oldBlob = [version |-> 0, clock |-> 2,
                rows |-> {OldRow(r, kinds[r], r \in named, r \in whole) : r \in OldRows}]
    /\ copy \in [Readers -> {NoCopy(1), NoCopy(4)}]

-----------------------------------------------------------------------------
(* The migration.  Fields that only get a constant are left out.           *)

generateId(d, row) == [row |-> row.of, by |-> d, nth |-> copy[d].turns]

Identified(d, row) == IF row.id = NoId THEN [row EXCEPT !.id = generateId(d, row)] ELSE row
WithDate(row) == IF row.date = 0 THEN [row EXCEPT !.date = readOn] ELSE row
InDollars(row) == IF row.currency = "none" THEN [row EXCEPT !.currency = "USD"] ELSE row

normalizeExpense(d, row) == InDollars(WithDate(Identified(d, row)))
normalizeCategory(d, row) == Identified(d, row)
normalizeBudget(d, row) == Identified(d, row)
normalizeGroupExpense(d, row) == WithDate(Identified(d, row))
normalizeSettlement(row) == InDollars(row)

PersonalMigration(d, row) ==
    CASE row.kind = "expense" -> normalizeExpense(d, row)
      [] row.kind = "category" -> normalizeCategory(d, row)
      [] row.kind = "budget" -> normalizeBudget(d, row)

GroupMigration(d, row) ==
    CASE row.kind = "groupExpense" -> normalizeGroupExpense(d, row)
      [] row.kind = "settlement" -> normalizeSettlement(row)
      [] row.kind = "category" -> normalizeCategory(d, row)

migrateBlob(d) ==
    IF oldBlob.version < CURRENT_BLOB_VERSION
    THEN {IF scope = "group" THEN GroupMigration(d, row) ELSE PersonalMigration(d, row) : row \in oldBlob.rows}
    ELSE oldBlob.rows

\* mergeById: rows without an id take the place of each other; a row that both have is
\* the server's.
Merges(fresh, mine) ==
    LET named == {x \in fresh : x.id # NoId}
        bare(kind) == {x \in fresh \ named : x.kind = kind}
        added == {x \in mine : ~\E y \in named : y.kind = x.kind /\ y.id = x.id}
        kept == {s \in SUBSET (fresh \ named) :
                    \A k \in PersonalKinds : Cardinality(s \cap bare(k)) = IF bare(k) = {} THEN 0 ELSE 1}
    IN  {named \cup s \cup added : s \in kept}

-----------------------------------------------------------------------------
\* A page shows the migrated blob; a mutation starts from it.
ReadOldBlob(d) ==
    /\ copy[d].turns < MaxTurns
    /\ copy' = [copy EXCEPT ![d] = [at |-> "shown", version |-> CURRENT_BLOB_VERSION,
                                    rows |-> migrateBlob(d), turns |-> copy[d].turns + 1,
                                    clock |-> IF scope = "group" THEN oldBlob.clock ELSE copy[d].clock]]
    /\ UNCHANGED <<scope, oldBlob, readOn>>

\* The private blob is refused if its clock is behind, the blob of a group if it was
\* written since it was read.
Conflicts(d) ==
    IF scope = "group" THEN copy[d].clock # oldBlob.clock ELSE copy[d].clock + 1 < oldBlob.clock

\* A group's clock goes up by one; a private one, which is sent one above that of the
\* last answer, is stored one above what was sent.
NextClock(d) == copy[d].clock + IF scope = "group" THEN 1 ELSE 2

StoreBlob(d) ==
    /\ copy[d].at = "shown" /\ copy[d].turns < MaxTurns /\ ~Conflicts(d)
    /\ oldBlob' = [version |-> copy[d].version, rows |-> copy[d].rows, clock |-> NextClock(d)]
    /\ copy' = [copy EXCEPT ![d].clock = NextClock(d), ![d].turns = @ + 1]
    /\ UNCHANGED <<scope, readOn>>

\* A refused private blob is merged with the other one, which is not migrated before
\* and has no version of its own.  The blob of a group is read again.
MergeStored(d) ==
    /\ scope = "personal" /\ copy[d].at = "shown" /\ Conflicts(d)
    /\ \E rows \in Merges(oldBlob.rows, copy[d].rows) :
        copy' = [copy EXCEPT ![d].rows = rows, ![d].clock = oldBlob.clock]
    /\ UNCHANGED <<scope, oldBlob, readOn>>

DayGoesBy ==
    /\ readOn < LastDate /\ readOn' = readOn + 1 /\ UNCHANGED <<scope, oldBlob, copy>>

BlobMigrationsNext ==
    DayGoesBy \/ \E d \in Readers : ReadOldBlob(d) \/ StoreBlob(d) \/ MergeStored(d)

BlobMigrationsSpec == BlobMigrationsInit /\ [][BlobMigrationsNext]_blobVars

-----------------------------------------------------------------------------
CopiesOf(r) == {x \in oldBlob.rows : x.of = r}

\* No row of an old blob is lost, whoever migrates it.  The rows of a group are
\* migrated once: each is there once, and has an id and a date from the first save on.
\* A private row is doubled only if it had no id: every device makes one of its own,
\* and the merge takes them for different rows, and for others than those without.
RowsMigrate ==
    /\ \A r \in OldRows :
        /\ CopiesOf(r) # {}
        /\ scope = "group" \/ (\A x \in CopiesOf(r) : x.id = OwnId(r)) => Cardinality(CopiesOf(r)) = 1
    /\ scope = "group" /\ oldBlob.version = CURRENT_BLOB_VERSION =>
        \A x \in oldBlob.rows : x.kind = "groupExpense" => x.id # NoId /\ x.date > 0
=============================================================================

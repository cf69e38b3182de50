------------------------------ MODULE Budgets -------------------------------
(***************************************************************************)
(* One budget of one user in one tab: what is spent of it (shared          *)
(* engine/budgetTracker.ts), how it rolls into its next period when the    *)
(* blob is loaded or saved (web lib/personalSync.ts), and the alerts that  *)
(* a saved expense fires (lib/budgetAlerts.ts, stores/                     *)
(* personalExpenseStore.ts).  Saves overlap; module PersonalSync is about  *)
(* what becomes of the blob when they conflict.                            *)
(***************************************************************************)
EXTENDS Integers, FiniteSetsExt, Functions

CONSTANTS
    Purchases,   \* expenses the user may enter
    Cost,        \* what each of them costs
    Base,        \* the amount of the budget
    Spans,       \* days from the first to the last day of the range, tried
    LastDay,     \* bound on the days that pass
    Saves,       \* saves in flight at once
    MaxSaves,    \* bound on the saves of a behaviour
    MaxCarry,    \* bound on what is carried over
    MaxGuard     \* periods that a rollover skips at most

ASSUME BudgetsAssumption ==
    /\ Base \in Nat \ {0} /\ Spans \subseteq Nat /\ LastDay \in Nat \ {0}
    /\ Cost \in [Purchases -> Nat \ {0}] /\ MaxGuard \in Nat /\ MaxSaves \in Nat

VARIABLES
    kind,        \* "monthly" or "custom", and the length of the range
    today,
    blob,        \* the tab's blob: the day of each expense, the budget's row
    stored,      \* the server's
    level,       \* the budget's status as the tab shows it
    save,        \* what each save carries
    sent,        \* saves so far
    told,        \* history: the level the user was alerted to and still sees
    overlapped,  \* history: a save or load overlapped another save
    unseen,      \* history: the status fell during a save, or a deletion raised it
    repeated     \* history: an alert told the user what they knew

budgetsVars == <<kind, today, blob, stored, level, save, sent, told, overlapped, unseen, repeated>>

Today == 1..LastDay
Unspent == 0   \* the day of an expense that does not exist
Blob(days, start, carry) == [days |-> days, start |-> start, carry |-> carry]

(***************************************************************************)
(* computeBudgetStatus: what was spent from the first to the last day, both *)
(* included; 80 percent is the default threshold of an alert.               *)
(***************************************************************************)
Spent(days, first, last) ==
    SumFunction([p \in {q \in Purchases : days[q] # Unspent} |->
                    IF days[p] \in first..last THEN Cost[p] ELSE 0])

determineStatus(spent, limit) ==
    IF spent >= limit THEN 2 ELSE IF 100 * spent >= 80 * limit THEN 1 ELSE 0

Level(b) == determineStatus(Spent(b.days, b.start, b.start + kind.span), Base + b.carry)

(***************************************************************************)
(* computeBudgetStatuses.  The month of a monthly budget is as long as its *)
(* range; a custom range moves on by the distance of its ends, so that its *)
(* last day is the first of the next one, and a range of one day stays.    *)
(***************************************************************************)
advancePeriod == IF kind.type = "monthly" THEN kind.span + 1 ELSE kind.span

Steps(b) ==
    CHOOSE k \in 1..(MaxGuard + 1) :
        /\ k = MaxGuard + 1 \/ b.start + k * advancePeriod + kind.span >= today
        /\ \A j \in 1..(k - 1) : b.start + j * advancePeriod + kind.span < today

\* Fault: what is left is carried over before the range moves on.
CarriesOnly(b, left) == Blob(b.days, b.start, left)

Advanced(b, left) == Blob(b.days, b.start + Steps(b) * advancePeriod, left)

RolledOver(b) ==
    LET last == b.start + kind.span
    IN  IF last >= today THEN b
        ELSE Advanced(b, Max({0, Base + b.carry - Spent(b.days, b.start, last)}))

BudgetsTypeOK ==
    /\ today \in Today /\ level \in 0..2 /\ told \in 0..2
    /\ kind \in [type : {"monthly", "custom"}, span : Spans]
    /\ \A b \in {blob, stored} : b.days \in [Purchases -> 0..LastDay] /\ b.carry \in Nat
    /\ \A s \in Saves : save[s].op \in {"none", "add", "delete"}
    /\ sent \in 0..MaxSaves

NoSave == [op |-> "none", blob |-> Blob([p \in Purchases |-> Unspent], 1, 0),
           before |-> Blob([p \in Purchases |-> Unspent], 1, 0), prev |-> 0,
           after |-> {}, late |-> FALSE]

BudgetsInit ==
    /\ kind \in [type : {"monthly", "custom"}, span : Spans] /\ today = 1
    /\ blob = NoSave.blob /\ stored = blob /\ level = 0
    /\ save = [s \in Saves |-> NoSave] /\ told = 0 /\ sent = 0 /\ overlapped = FALSE
    /\ unseen = FALSE /\ repeated = FALSE

InFlight == {s \in Saves : save[s].op # "none"}

NextDay ==
    /\ today < LastDay /\ today' = today + 1
    /\ UNCHANGED <<kind, blob, stored, level, save, sent, told, overlapped, unseen, repeated>>

\* The tab now shows this blob.
Show(b) == blob' = b /\ level' = Level(b)
Falls(others) == level' < level /\ others # {}

\* fetchPersonalBlob: no alert, so that the user is taken to know what it shows.
FetchPersonalBlob ==
    LET b == RolledOver(stored) IN
    /\ b.carry <= MaxCarry /\ Show(b) /\ told' = level'
    /\ unseen' = (unseen \/ Falls(InFlight))
    /\ overlapped' = (overlapped \/ InFlight # {})
    /\ UNCHANGED <<kind, today, stored, save, sent, repeated>>

\* The optimistic half of an operation; a save carries a higher clock than
\* those that are in flight, and was built on what they carry.
Publish(s, op, days) ==
    LET b == Blob(days, blob.start, blob.carry)
    IN  /\ save[s].op = "none" /\ sent < MaxSaves /\ sent' = sent + 1 /\ blob' = b
        /\ save' = [save EXCEPT ![s] = [op |-> op, blob |-> b, before |-> blob, prev |-> level,
                                       after |-> InFlight, late |-> FALSE]]
        /\ overlapped' = (overlapped \/ InFlight # {})
        /\ UNCHANGED <<kind, today, stored, level, told, unseen, repeated>>

\* The identifier of a new expense is nowhere yet.
Fresh(p) ==
    /\ blob.days[p] = Unspent /\ stored.days[p] = Unspent
    /\ \A s \in InFlight : save[s].blob.days[p] = Unspent /\ save[s].before.days[p] = Unspent

addExpense(s, p) ==
    Fresh(p) /\ Publish(s, "add", [blob.days EXCEPT ![p] = today])

deleteExpense(s, p) ==
    blob.days[p] # Unspent /\ Publish(s, "delete", [blob.days EXCEPT ![p] = Unspent])

\* mergeById: everything either side has; of a budget, which bears no time of
\* its last change, the server's row.
Merged(fresh, local) ==
    Blob([p \in Purchases |-> IF fresh.days[p] # Unspent THEN fresh.days[p] ELSE local.days[p]],
         fresh.start, fresh.carry)

\* Fault: every status that is high enough alerts.
CrossedAgain(s, next) == save[s].op = "add" /\ next > 0

\* fireBudgetAlerts, called by addExpense and updateExpense only: the status
\* rose from what it was when the save began.
Crossed(s, next) == save[s].op = "add" /\ next > save[s].prev

\* What the server keeps of a save: one that a later one overtook finds a
\* conflict, and merges.
Landed(s) == IF save[s].late THEN Merged(stored, save[s].blob) ELSE save[s].blob

Ended(s, landed) ==
    save' = [t \in Saves |->
        IF t = s THEN NoSave
        ELSE [save[t] EXCEPT !.after = @ \ {s}, !.late = @ \/ (landed /\ t \in save[s].after)]]

\* savePersonalBlob.
SaveSucceeds(s) ==
    LET b == RolledOver(Landed(s)) IN
    /\ save[s].op # "none" /\ b.carry <= MaxCarry
    /\ stored' = Landed(s) /\ Ended(s, TRUE) /\ Show(b)
    /\ unseen' = (unseen \/ Falls(InFlight \ {s}) \/ (save[s].op = "delete" /\ level' > level))
    /\ told' = IF Crossed(s, level') \/ level' < told THEN level' ELSE told
    /\ repeated' = (repeated \/ (Crossed(s, level') /\ level' <= told))
    /\ UNCHANGED <<kind, today, sent, overlapped>>

\* It fails: the tab goes back to the blob before.  (Module PersonalSync has the
\* failure of which only the answer is lost.)
SaveFails(s) ==
    /\ save[s].op # "none" /\ blob' = save[s].before /\ Ended(s, FALSE)
    /\ UNCHANGED <<kind, today, stored, level, sent, told, overlapped, unseen, repeated>>

BudgetsNext ==
    \/ NextDay \/ FetchPersonalBlob
    \/ \E s \in Saves :
        \/ \E p \in Purchases : addExpense(s, p) \/ deleteExpense(s, p)
        \/ SaveSucceeds(s) \/ SaveFails(s)

BudgetsSpec == BudgetsInit /\ [][BudgetsNext]_budgetsVars

\* Nothing is carried over twice, however often the blob is loaded, saved and
\* merged on the way: what is carried was left by the periods that are past.
\* Not so when the range is a single day, or more than 60 periods were slept
\* through: it does not move, and is rolled over again by every load.
CarryIsEarned ==
    kind.type = "monthly" \/ kind.span > 0 =>
        \A b \in {blob, stored} : b.carry * advancePeriod <= Base * (b.start - 1)

\* The user knows of the status that the tab shows, unless it fell while an
\* expense was being saved or rose when a deletion merged; and nothing is told
\* twice, unless saves or loads overlapped.
AlertsFollowStatus ==
    /\ unseen \/ told >= level
    /\ overlapped \/ ~repeated
=============================================================================

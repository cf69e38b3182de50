----------------------------- MODULE MCServices ------------------------------
(***************************************************************************)
(* Instances, for TLC, of the parts of the system that share no state: in  *)
(* each behaviour one of them runs, and the others stay where they are.    *)
(***************************************************************************)
EXTENDS Restrictions, RateLimits, Rooms, Inbox, Splits, Diagnostics,
        AdminConsole, LogChain, Budgets, Reports, Invoices, GroupPages, Imports,
        Migrations, Preferences, PersonalSlices, BlobMigrations, GroupCache

CONSTANTS m1, m2, m3, m4, c1, c2, w1, w2, i1, i2, q1, q2, f1, f2, a1, a2,
          p1, p2, p3, s1, s2, e1, e2, g1, g2, u1, u2, o1, o2, o3, o4, k1

VARIABLES
    part,  \* the one that runs
    net    \* what each of four people is owed

Parts == {"restrictions", "limits", "rooms", "inbox", "splits", "diagnostics",
          "config", "alerts", "seats", "log", "budgets", "reports", "transfers",
          "invoices", "grouplist", "grouppage", "import", "backup", "migrations",
          "settings", "push", "slices", "oldblobs", "groupcache"}

MCLimit == [m \in Methods |-> IF m = "read" THEN 2 ELSE 1]
MCCost == [p \in Purchases |-> IF p = e1 THEN 8 ELSE 4]

\* 0, 12,50, 12.50, 1.234,50 and 1,234.50 in a file of amounts.
AmountText(digits, mark, places, grouped) ==
    [digits |-> digits, mark |-> mark, places |-> places, grouped |-> grouped, again |-> FALSE]
MCTexts == {AmountText(0, "none", 0, FALSE), AmountText(1250, "comma", 2, FALSE),
            AmountText(1250, "dot", 2, FALSE), AmountText(123450, "comma", 2, TRUE),
            AmountText(123450, "dot", 2, TRUE)}

vars == <<part, restrictionVars, limitVars, roomVars, inboxVars, split,
          diagnosticsVars, adminVars, chainVars, budgetsVars, bought, net, invoice,
          groupPagesVars, importsVars, migrationsVars, preferencesVars, slicesVars, blobVars,
          cacheVars>>

\* A part that does not run stays in one of its initial states.
Init ==
    /\ part \in Parts
    /\ RestrictionsInit /\ RateLimitsInit /\ InboxInit /\ SplitsInit /\ DiagnosticsInit
    /\ AdminInit /\ ReportsInit /\ InvoicesInit /\ ImportsInit /\ MigrationsInit /\ SlicesInit
    /\ GroupCacheInit /\ RoomsInit
    /\ net = [m \in {m1, m2, m3, m4} |-> 0]
    /\ ChainInit /\ (part = "log" \/ ~inherited)
    /\ BudgetsInit /\ (part = "budgets" \/ kind = [type |-> "monthly", span |-> Max(Spans)])
    /\ GroupPagesInit
    /\ inGroup = [u \in Users |-> IF u = u1 \/ part = "grouplist" THEN Groups ELSE {}]
    /\ PreferencesInit /\ prefs[o2] = Defaults
    /\ IF part = "push" THEN ~prefs[o1].quiet /\ (prefs[o1].off = {} \/ prefs[o1].push)
                       ELSE prefs[o1] = Defaults
    /\ BlobMigrationsInit
    /\ IF part = "oldblobs"
       THEN \A old \in oldBlob.rows :
                old.of = m1 => old.kind = IF scope = "group" THEN "settlement" ELSE "expense"
       ELSE /\ scope = "personal" /\ copy = [d \in Readers |-> NoCopy(1)]
            /\ oldBlob.rows = {OldRow(r, "expense", TRUE, TRUE) : r \in OldRows}

Rests(what, v) == IF part \in what THEN TRUE ELSE UNCHANGED v

Runs(what) ==
    /\ part = what /\ UNCHANGED part
    /\ Rests({"restrictions"}, restrictionVars) /\ Rests({"limits"}, limitVars)
    /\ Rests({"rooms"}, roomVars) /\ Rests({"inbox"}, inboxVars)
    /\ Rests({"splits"}, split) /\ Rests({"diagnostics"}, diagnosticsVars)
    /\ Rests({"config", "alerts", "seats"}, adminVars) /\ Rests({"log"}, chainVars)
    /\ Rests({"budgets"}, budgetsVars) /\ Rests({"reports"}, bought)
    /\ Rests({"transfers"}, net) /\ Rests({"invoices"}, invoice)
    /\ Rests({"grouplist", "grouppage"}, groupPagesVars)
    /\ Rests({"import", "backup"}, importsVars) /\ Rests({"migrations"}, migrationsVars)
    /\ Rests({"settings", "push"}, preferencesVars) /\ Rests({"slices"}, slicesVars)
    /\ Rests({"oldblobs"}, blobVars) /\ Rests({"groupcache"}, cacheVars)

\* Anybody owes or is owed up to three, and all of it together is nothing.
Owed ==
    /\ \A m \in DOMAIN net : net[m] = 0
    /\ net' \in {owed \in [{m1, m2, m3, m4} -> -3..3] : SumFunction(owed) = 0}

\* Beside any request for notifications, the other one fetches them or deletes one.
FewAsks == ask'[q2].kind \in {"none", "fetched", "delete"}

\* One group changes.  The page is of the first user only; for
\* the list, the second user stays in both groups.
FewGroups == news'[g2] = 0
OneUser == signedIn' # u2
StaysInGroups == inGroup'[u2] = Groups

\* Both browsers have one account.  In its settings the second page changes whether
\* there are pushes, the first one also a category, or the quiet hours of its pushes.
FewAccounts ==
    /\ \A b \in Machines : machine'[b].account # o2
    /\ PageOf(i2)'.shown.off = {} /\ ~PageOf(i2)'.shown.quiet
    /\ PageOf(i1)'.shown.quiet => PageOf(i1)'.shown.push /\ PageOf(i1)'.shown.off = {}
    /\ machine'[i2].account = Nobody_ => PageOf(i1)'.page = "closed"
FewEndpoints == machine'[i2].account # o2 /\ machine'[i2].issued < 2

\* The second file has one row.  Expenses take their ids in order.
ShortFile == loads' < 2 \/ Len(parsedData'.rows) < 2
IdsInOrder == \A e \in ledger'.expenses : e.id <= Cardinality(ledger'.expenses)

\* Of the two whom the first expense may be for, it is for one.
FirstForOne == invoice'.expenses[1].splits[m3] = 0

\* The first mutation adds no category, the second no income and no target, the
\* third a budget, beside two others that add.  The other device adds an income or a
\* bill where the third does not run.
FewSlices ==
    /\ saving'[o1].slice # "categories" /\ saving'[o2].slice \notin {"incomeLogs", "savingsTargets"}
    /\ saving'[o4].slice = "budgets" /\ saving'[o4].kind \in {"none", "add"}
    /\ saving'[o4].at # "new" => /\ \A p \in {o1, o2} : saving'[p].kind = "add"
                                 /\ \A slice \in Slices : serverBlob'[slice][o3] = 0
    /\ \A slice \in {"savingsTargets", "categories", "budgets"} : serverBlob'[slice][o3] = 0
    /\ serverBlob'["incomeLogs"][o3] = 0 \/ serverBlob'["recurringBills"][o3] = 0

\* One job edits the expenses of the first group; beside it the other one edits the
\* rest of that group, opens the page of the second group or loads both groups.
FewJobs ==
    /\ \A j \in Jobs : job'[j].id = g2 <=> job'[j].kind = "open"
    /\ job'[f1].kind \in {"none", "edit"} /\ job'[f2].kind # "edit"
    /\ sheets'[g2] = 0

Next ==
    \/ Runs("restrictions") /\ RestrictionsNext
    \/ Runs("limits") /\ RateLimitsNext
    \/ Runs("rooms") /\ RoomsNext
    \/ Runs("inbox") /\ InboxNext /\ FewAsks
    \/ Runs("splits") /\ SplitsNext
    \/ Runs("diagnostics") /\ DiagnosticsNext
    \/ Runs("config") /\ ConfigNext
    \/ Runs("alerts") /\ AlertNext
    \/ Runs("seats") /\ SeatNext
    \/ Runs("log") /\ ChainNext
    \/ Runs("budgets") /\ BudgetsNext
    \/ Runs("reports") /\ ReportsNext
    \/ Runs("transfers") /\ Owed
    \/ Runs("invoices") /\ InvoicesNext /\ FirstForOne
    \/ Runs("grouplist") /\ GroupListNext /\ FewGroups /\ StaysInGroups
    \/ Runs("grouppage") /\ GroupPageNext /\ FewGroups /\ OneUser
    \/ Runs("import") /\ FileNext /\ ShortFile /\ IdsInOrder
    \/ Runs("backup") /\ BackupNext /\ IdsInOrder
    \/ Runs("migrations") /\ MigrationsNext
    \/ Runs("settings") /\ SettingsNext /\ FewAccounts
    \/ Runs("push") /\ PushNext /\ FewEndpoints
    \/ Runs("slices") /\ SlicesNext /\ FewSlices
    \/ Runs("oldblobs") /\ BlobMigrationsNext
    \/ Runs("groupcache") /\ GroupCacheNext /\ FewJobs

Spec == Init /\ [][Next]_vars

-----------------------------------------------------------------------------
\* The variables of every part keep their types.
TypeOK ==
    /\ part = "restrictions" => RestrictionsTypeOK
    /\ part = "limits" => RateLimitsTypeOK
    /\ part = "rooms" => RoomsTypeOK
    /\ part = "inbox" => InboxTypeOK
    /\ part = "diagnostics" => DiagnosticsTypeOK
    /\ part \in {"config", "alerts", "seats"} => AdminTypeOK
    /\ part = "log" => LogTypeOK
    /\ part = "budgets" => BudgetsTypeOK
    /\ part = "reports" => ReportsTypeOK
    /\ part \in {"grouplist", "grouppage"} => GroupPagesTypeOK
    /\ part \in {"settings", "push"} => PreferencesTypeOK
    /\ part = "groupcache" => GroupCacheTypeOK

\* The limits of one client: no window lets through more than the limit of a
\* kind, a counting key is dated, an admin who is told that an address is blocked
\* can rely on it, and a restriction bites in every request that is checked a TTL
\* after it was made (rateLimiter.ts, adminSecurityService.ts, userRestrictions.ts).
LimitsHold ==
    /\ part = "limits" => LimitHolds /\ KeyIsDated /\ ToldBlocked
    /\ part = "restrictions" => RestrictionBites

\* Money that is divided is divided to the cent: by the split engine, by the form
\* for expenses, by the transfers that are to clear all debts, and by those that the
\* invoices tab proposes, which warns of a settlement that would turn a debt around.
SharesAddUp ==
    /\ part = "splits" => EngineSharesAddUp /\ FormSharesAddUp
    /\ part = "transfers" => TransfersSettle(net)
    /\ part = "invoices" => SettleAllSettles /\ WarnedBeforeReversal

\* The hash chain of a log holds through conflicts and lost answers, and the two
\* verifiers agree (logStore.ts, logManager.ts).
LogVerifies == part = "log" => ChainVerifies /\ VerifiersAgree

\* The carry of a budget is earned and its alerts tell its status once.
BudgetsKept == part = "budgets" => CarryIsEarned /\ AlertsFollowStatus

\* Recaps, analytics and the detector of unusual spending count every expense
\* of their days once, and their parts add up.
ReportsAddUp == part = "reports" => PeriodsCountOnce /\ PartsMakeTheTotal /\ AlertsAreOutgrowth

\* What a page shows is what is stored, for whom it is shown: the badge and the list
\* of notifications, the groups and their balances, the page of a group, the cache of its expenses, the
\* settings and the browsers they are pushed to, and the lists of the private blob.
PagesShow ==
    /\ part = "inbox" => BadgeFollowsList
    /\ part = "grouplist" => ListIsOwn
    /\ part = "grouppage" => PageFollowsGroup
    /\ part = "groupcache" => CacheKeepsEdits
    /\ part = "settings" => SavedIsShown
    /\ part = "push" => PushesWanted
    /\ part = "slices" => ListsShowBlob /\ ToldIsStored

\* What is kept about the system agrees with it: the logs and the error counts with
\* what happened, the change log with the configuration, the alerts with their
\* cooldown, the counter with the sockets; and what is carried over arrives once:
\* the rows of a file or a backup, the files that migrate the database, and the
\* rows of a blob that an old client left.
RecordsKept ==
    /\ part = "diagnostics" => EntriesKept /\ ErrorsCounted
    /\ part = "config" => LogNamesTheValue
    /\ part = "alerts" => AlertsPerCooldown
    /\ part = "seats" => SeatsCounted
    /\ part = "import" => RowsAccounted
    /\ part = "backup" => RestoredWhole
    /\ part = "migrations" => MigratedInOrder
    /\ part = "oldblobs" => RowsMigrate
=============================================================================

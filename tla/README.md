# ColdFi: a TLA+ verification project

ColdFi is an encrypted tracker of personal and group finances: a Fastify,
PostgreSQL and Redis backend that stores encrypted blobs, and a React client
that holds the keys and does the accounting.  This directory models the parts
of it whose correctness depends on the order of events or on arithmetic at its
boundaries, checks them with TLC on small instances, and proves the most
important properties with TLAPS for every instance.

## 1. Inventory

Paths are relative to `src/packages/`.

| Component | State | Operations | Hard behaviour | What makes it correct |
|---|---|---|---|---|
| **Group blob synchronisation** (`backend/src/services/groupService.ts`, `web/src/lib/groupSync.ts`, `web/src/stores/groupStore.ts`, `groupExpenseStore.ts`, `logStore.ts`) | server: `groups.encryption_key`, `group_sync` (blob, vector clock); tab: `groupKeyCache`, `keyFetchState`; call: attempt, key, clock | fetch / decrypt / mutate / encrypt / upload with three attempts; key rotation with every departure | uploads racing uploads and rotations, lost answers, shared and cached key requests | no lost update, the blob readable with the current key, no upload of an ex-member, retries bounded and truthful |
| **Group membership** (`groupService.ts`, `routes/group.ts`, `requireGroupAccess.ts`, `requireGroupAdmin.ts`, `db/pool.ts`) | `group_members`, `groups`, `invite_codes`, row locks | create, join, leave, remove, change of role, delete, invite, revoke | READ COMMITTED transactions that lock rows in different orders, checks before the transaction | an admin as long as there are members, distinct indexes, rotation with every departure, authority at commit |
| **Settlements and balances** (`web/src/stores/groupSettlementStore.ts`, `shared/src/engine/settlementEngine.ts`, `balanceCalculator.ts`, `minimalTransferAlgorithm.ts`) | proposals in the blob with a status | propose, mark paid (also partly), approve, reject, cancel; net balances, pair debts, transfers | stale reads before the blob is modified, partial payment, superseded proposals, rounding | debt is not overpaid, approved amounts count once, balances sum to zero, transfers settle them |
| **Group pages** (`groupStore.ts`, `groupExpenseStore.ts`, `web/src/pages/groups/GroupDetailPage.tsx`, `GroupInvoicesTab.tsx`, `web/src/hooks/useWebSocket.ts`) | the shown group, the list, `balanceCache`, `groupExpensesCache` | load, react to events, edit, propose all transfers, change of account | answers in any order, caches refreshed beside edits | what is shown is what is stored, and of the account that looks |
| **Split calculator** (`shared/src/engine/splitCalculator.ts`, `GroupExpenseForm.tsx`, `ItemizedList.tsx`) | none | ratio, fixed, itemized | remainders of cents | shares add up to the amount |
| **Activity log** (`logStore.ts`, `shared/src/engine/logManager.ts`) | hash-linked entries in the blob, of two formats | append, verify | appends racing appends, a chain begun by the other writer | the chain verifies after every history |
| **Accounts** (`backend/src/services/authService.ts`, `passwordService.ts`, `twoFactorService.ts`, `redis.ts`, `routes/auth.ts`, `web/src/stores/authStore.ts`) | the row of `users`, failed logins, challenges in Redis | register, login by password, Google and second factor, change of password, recovery, deletion | checks outside the transaction that writes, challenges taken twice, guesses counted at once | keys and passwords agree, no path around the second factor, bounded guessing |
| **Sessions** (`tokenService.ts`, `routes/auth.ts`, `authStore.ts`, `web/src/lib/apiClient.ts`, `tabSync.ts`) | refresh tokens; browser: cookie, stored profile; tab: access token, `refreshPromise` | login, rotate, reuse detection, logout, revocation | rotation racing rotation and logout, two tabs, lost answers, a failed insert after a commit | one accepted token per session, a revoked session stays ended |
| **Restrictions** (`userRestrictions.ts`, `adminUserService.ts`) | rows, a cache with a TTL | restrict, restore, check | a read before the ban cached after it | a ban bites after a TTL |
| **Rate limits and blocks** (`rateLimiter.ts`, `ipBlocker.ts`, `adminRateLimit.ts`, `adminSecurityService.ts`) | Redis counters and sets | count, block, clear | INCR then EXPIRE in two commands, Redis failing | limits hold, a window ends |
| **Personal sync** (`routes/personal.ts`, `web/src/stores/personalStore.ts`, `web/src/lib/personalSync.ts` and the sub-stores) | scalar clock and blob; tab: clock, data, lists | load, save, conflict, merge by id, mutations of six slices | two devices, deletions against merges, rollback of optimistic updates | no silent overwrite, lists show the blob |
| **Recurring bills** (`recurringStore.ts`) | bills with a due date, expenses with deterministic ids | create, edit, pause, process, pay, undo | two tabs at once | a due date never passes without its expenses |
| **Reminders** (`reminderService.ts`, `jobs/reminderWorker.ts`) | `notification_reminders.status` | claim, send, mark, revert, cancel | claims of two workers, crash between claim and result, a column that refuses the mark of a claim | a due reminder is sent or marked as failed in the end |
| **WebSocket rooms** (`backend/src/plugins/websocket.ts`, `useWebSocket.ts`) | rooms on the server, the connection of a tab | connect, join, leave, evict, reconnect | eviction, a leave or another join during the membership query | only members in a room, a wanted room is joined |
| **Notifications and web push** (`notificationService.ts`, `routes/notifications.ts`, `webPush.ts`, `notificationStore.ts`, `NotificationPreferencesSettings.tsx`) | rows, list and badge, preferences, subscriptions | create, read, delete, change settings, subscribe, push | events overtaking answers, edits while a save is awaited, browsers that change accounts | the badge counts the list, a push reaches who wants it |
| **Budgets, recaps, analytics** (`budgetTracker.ts`, `personalSync.ts`, `budgetAlerts.ts`, `analyticsCalculator.ts`, `spendingDetector.ts`, `AnalyticsPage.tsx`, `analyticsStore.ts`) | carry and period of a budget | roll over, alert, cut into periods | gaps of several periods, overlapping saves, boundaries of days | carry is earned, alerts come once, periods count each day once |
| **Migrations** (`blobMigration.ts`, `backend/src/db/migrate.ts`) | version of a blob, `_migrations` | fill in old rows, run files | two readers rewriting at once, two instances starting, falls | rows arrive once, files run in order |
| **Import, export, backup** (`ImportPage.tsx`, `dataExport.ts`) | rows and their errors | import, back up, restore, export a table | a row that fails, a lost answer, a second file beside a run | what is reported is what was stored |
| **Administration** (`services/admin*.ts`, `alertService.ts`, `plugins/admin-websocket.ts`, `pages/admin`) | configuration and its log, alert rules, seats | change, toggle, evaluate, connect | two admins at once | the log names the value, one alert per cooldown |
| **Logging and error capture** (`logger.ts`, `errorCapture.ts`, `requestMetrics.ts`, `index.ts`) | a buffer, counters | log, flush, capture, stop | a flush that fails beside another, shutdown | entries are written or counted as dropped |
| **Batch synchronisation** (`routes/sync.ts`) | none | forwards | - | - |
| **Cryptography** (`web/src/lib/crypto.ts`) | none | AES-GCM, key derivation | - | a blob opens with the key it was encrypted with and no other |
| **User interface** (other pages and components) | React state | rendering | - | presentation |

The components meet in few places.  The client calls the routes of the backend
through `apiClient`, which carries the session; the settlement, expense and log
stores edit the one blob of a group through the loop of `modifySyncBlob` or a
copy of it; a membership change rotates the key that guards that blob; the
personal stores share one private blob; routes emit events that the rooms carry
to the pages.

## 2. The modules

| Modules | Composition |
|---|---|
| `SharedLedger`, `GroupSync`, `GroupSyncProofs` | `GroupSync` implements the abstract ledger `SharedLedger` |
| `MembershipKeys`, `GroupMembership`, `GroupMembershipProofs` | `GroupMembership` implements `MembershipKeys`, the membership changes that `GroupSync` takes as single steps |
| `Balances` (pure), `Settlements`, `SettlementsProofs` | `Settlements` extends `Balances`; one step per operation, which theorem `UpdatesAreKept` of `GroupSync` justifies |
| `FoldLemmas` | lemmas about folds and sums, which `SettlementsProofs` and `PartsProofs` extend |
| `Sessions`, `Accounts`; `SessionsProofs` | `Accounts` ends where a session begins; what is proved of both is in one module, and `MCSignIn` has both for TLC, one of them in each behaviour |
| `PersonalSync`, `PersonalSyncProofs`; `PersonalSlices` | the protocol of one slice with its clocks, and the six slices over a simpler row |
| `LogChain`, `Invoices`, `GroupPages`, `GroupCache` | over the blob of a group, which the pages read; `LogChain` takes the order of edits of `SharedLedger` |
| `Rooms` | the sockets that hear of a group |
| `Reminders` | checked by itself |
| `Restrictions`, `RateLimits` | the checks in front of every request |
| `Transfers` (pure) | which `Invoices` extends |
| `Splits`, `Reports`, `Budgets`, `BlobMigrations`, `Imports` | the engine and what is built on it |
| `Inbox`, `Preferences`, `AdminConsole`, `Diagnostics`, `Migrations` | the rest of the server and its pages |
| `MCServices` | the parts that share no state, for TLC: in each behaviour one runs and the others stay where they are |
| `PartsProofs` | the invariants of those parts, each by itself, and what `Splits` and `Transfers` compute |
| `ServicesProofs` | the invariants of the invoices and of what the pages show, and then all parts together in `MCServices` |

The other `MC` modules only give values to constants.  No module that is proved
about uses a `RECURSIVE` operator.

## 3. How the modules correspond to the code

A step is what runs between two points where others can run: a transaction or a
single statement of the server, a command to Redis, or the continuation of an
`await` in the client.  Variables commented `history` are no state of the code;
properties compare against them.

**`GroupSync`** has the two server rows (`key`, `blobKey`, `ledger`, `clock`,
`members`), the module-level caches of each tab (`keyCache` is `groupKeyCache`;
`fetch` and `fetchedKey` are `keyFetchState`, the shared request and the answer
kept for 60 seconds) and, per call that edits the blob, the local variables of
the loop of `modifySyncBlob`.  The plaintext is the sequence of the edits that
made it; a call appends itself to what it fetched.  `createGroupExpense` and
`addLogEntry` have copies of the loop; `addLogEntry` differs by not refreshing
the key (`LogAppends`).

**`GroupMembership`** has the committed rows and, per request, the rows it has
locked and its place in the code.  READ COMMITTED is modelled by its three
rules that matter here: a locking read waits for the row and sees it as
committed when the lock is obtained, a plain read sees what is committed, and
writes appear together at the end.  Any transaction may fail at any point and
rolls back.  PostgreSQL itself (waiting, deadlock detection) is external.

**`Balances`** is the balance engine as operators: the conversion from the blob,
`computeNetBalances` with its buckets per currency, and netting, in whole cents;
**`Transfers`** is `generateMinimalTransfers`, for anybody's balances.  **`Settlements`** has the expenses
and settlements of the blob and the currency each tab believes in.  One operation
of `groupSettlementStore` is one step: its checks are made inside the mutation, on
the blob that the upload then replaces.  What was read before, on the page, is an
arbitrary input.  **`Invoices`** is what the invoices tab computes from one state
of the blob: the balances of a window of days, its warning, `Settle All`.  It takes
the debts from an instance of `Balances` and what clears them from `Transfers`.

**`Sessions`** has the rows of `refresh_tokens` as a status per token, the
session each token descends from, the cookie and the stored profile of each
browser, and per tab its store, its refresh, its logout and its login under way.
The transaction of `refreshAccessToken` is one step; the `INSERT` of the new token
follows the commit and is another, and so is the arrival of the answer, which sets
the cookie whatever the tab has done since.  `revoked` has every session that a
revocation was aimed at, and `missed` those of them whose newest token it did not
find: its `INSERT` was under way, or a logout presented the token before it.

**`Accounts`** has the row of one address, its failed logins, the challenges in
Redis and, per request, the handler it runs.  Random draws are the next number.
A key is the number of the account it belongs to; a row opens with the password
and the salt it was wrapped with, and with no others.

**`Restrictions`** has the row, the cache entry with its date, and the reads
under way on a clock of fractions of the TTL.  **`RateLimits`** has one key of
Redis with its counter and whether it is dated; a command may fail before or
after Redis has carried it out.

**`PersonalSync`** has the row of `personal_data`, and per tab `personalBlob`,
`personalVectorClock` and the answer of a load under way; per mutation it has the
local variables of `savePersonalBlob` and the blob its caller restores on
failure.  A blob is a map from record to the time of its last change, with one
recurring bill.  A request of a page that is gone may still arrive (`adrift`).
**`PersonalSlices`** has all six slices, the lists that the pages show of them,
and what each mutation publishes, saves and puts back; its clocks are those of
conflicts only.  `forgotten` has the mutations whose row a later one began without.

**`LogChain`** has the blob's version and entries; a hash is what it is computed
from.  **`GroupPages`** counts the news of each group and has the list, the shown
group, the flags and timers of the page, events and answers on their way.
**`GroupCache`** counts the edits of each group's expenses and has what the page
and the cache hold of them.

**`Reminders`** has the status and age of each row and the batch of each worker, on
the column that migration 004 makes: its `CHECK` admits `pending`, `sent` and
`failed`, so that the `UPDATE` of a claim fails.  What follows a claim is modelled and
never reached.  **`Rooms`** has the sockets of one user's tabs and the room of one
group: per socket the join handlers under way, which wait for the limit and the
membership query (`asked`) or have found the row (`found`); a leave is handled at
once and may overtake them; a query may fail and a limit refuse.  Evictions, drops,
replaced sockets, logins, logouts and the timers of the hook interleave with them.  **`Inbox`** has rows,
emitted events, the store's list and badge, and the answers of overlapping
requests.  **`Preferences`** has the rows and endpoints of two accounts that share
two browsers, the requests that their pages sent, which may arrive in any order and
after the page was closed, and the last push with whom it reached; a page is edited
while it waits as well.

**`Splits`** and **`Reports`** are pure: one variable holds the input and, for
splits, the result.  **`Budgets`** has a budget over days that pass, loads and
overlapping saves.  **`Imports`** has the expenses of the stored blob (`ledger`), each
with the row it came from, those that the tab holds (`held`), which differ after a
lost answer until the next save overwrites them, and the page with its file, its run
and its backup; **`BlobMigrations`** an old blob and the copies of two devices;
**`Migrations`** the table of files that ran, where each instance of the server is
among them, and which files cannot run again (`OnceOnly`).  **`AdminConsole`** has a
configuration value with its log and the pages of two admins, an alert rule with its
cooldown, and the seats of the admin socket; **`Diagnostics`** the buffer of the logger with its flushes,
and the count of captured errors.

## 4. What the runs check

| Run | Instance | Shows |
|---|---|---|
| `group_sync_rotation` | two members, a tab and an edit each (one a log append), one rotation | no update lost, blob readable, only members write, no conflict without a cause, the calls implement `SharedLedger`, every call returns |
| `membership_races` | three users, three requests, two connections | types and distinct indexes, authority and invitation at the moment of effect, refinement of `MembershipKeys`, every request answered, deadlocks included |
| `membership_orphan` | the same with four requests | *violated:* see 6 |
| `settlement_books` | two members, two currencies, one expense, three settlements, one edit | types, one open proposal, partial payments add up, balances of the blob are the plain sums, the life cycle |
| `settlement_overpaid` | two members, two settlements | *violated:* see 6 |
| `settlement_partly` | two members, a settlement paid in part and its remainder | *violated:* see 6 |
| `sign_in_races` | one browser with two tabs, three tokens, one login, one fault; or two requests of any kind, two passwords, three draws, two failures to a lock | types, one token per session, revocations are final, the cookie follows the rotation; keys agree, the second factor, challenges, guesses |
| `sessions_benign_race` | two tabs, two tokens, three attempts, no fault | *violated:* see 6 |
| `personal_devices` | two tabs or devices, two mutations of any kind, three page loads, one fault, one due cycle | types, nothing is wiped, due dates move with their expenses, two overlapping saves are kept |
| `personal_overlap` | one tab, three mutations, no fault | *violated:* see 6 |
| `services` | one of 24 parts per behaviour (`Parts` of `MCServices`) | types, and one property per concern: limits, shares, the log, budgets, reports, pages, records; evicted tabs hear nothing, and a tab is in the room it shows |
| `reminders_pending` | two reminders, one worker | *violated:* see 6 |

`MCServices` states one property per concern rather than per module: each is a
conjunction of the properties that the modules state, each guarded by the part
that runs.  A behaviour of one part is a behaviour of that part's own
specification, so nothing is hidden by it.  The run takes about two and a half
minutes with two workers, for a million states.

**Bounds.**  `MaxKey` bounds rotations; two keys make a key stale, and a call
has three attempts only.  Every property about two racing calls needs two of
them; that more of them lose nothing either is theorem `UpdatesAreKept`.  Three
requests of which two connect at a time are enough for two transactions to block
each other while the third changes the rows; the fourth of `membership_orphan`
prepares a second admin.  Three settlements allow a chain of two partial payments, or
one beside another settlement; two currencies make buckets differ.  Transfers are
checked on four members, the fewest for which a greedy pairing can leave two
debtors and two creditors, with `Owed` choosing once, of all that comes to nothing together, who is owed what.
Three tokens are a login and two rotations; `MaxAttempts` is 3 in the code and 2
in `sign_in_races` and `personal_devices`, where the last attempt is reached sooner.
Two mutations on two devices meet in every order of load, save, conflict, merge and
reload; the third one that the lost update of section 6 needs is in
`personal_overlap`.  `Gap`, the time between two readings of a clock, is 1: the clocks
of two devices then differ by less than a save adds to the clock of the row, so that
both orders of clocks occur.  `Tolerance` is the 2 cents of `proposeSettlement`.
In `sign_in_races` two failures lock the address, so that the second request
counts while the first is about to fail; `FewFaults` does without restrictions after
a fault, and `FewGuesses` without a third draw while a failed login is counted.  Tabs, requests and
passwords are interchangeable, so the run declares them symmetric.  Two handlers
under way for one socket (`MaxJoins`) let a join overtake another and a leave overtake
both, and two removals (`MaxRemovals`) let a join cross an eviction and follow a return;
a second tab is there to be missed by an eviction.  Two files or backups of two rows
(`MaxLoads`, `MaxRows`) let a second file be read while the first is imported, and a lost row
be followed by one that overwrites it.  Of four migrations two commit by
themselves (`Closing`) and one of these cannot run again (`OnceOnly`).  Two requests
(`MaxPuts`) are stored in either order.  With three
mutations of the six slices, the answer of the first takes the second away from what
the third begins with.  `MaxFaults`, `MaxErrors`, `MaxStops` and
`MaxFalls` bound what breaks; `MaxEdits`, `MaxNews`, `MaxSheets`, `MaxFetches`,
`MaxSaves`, `MaxBuys`, `MaxTurns` and the like bound what users do.

Some parts of `services` are narrowed further, so that the run ends in minutes;
each narrowing is a named operator of `MCServices`.  `FewAsks` lets the second request
only fetch or delete; `FewGroups`, `OneUser` and `StaysInGroups` keep the second group,
the second account and its membership still where the property is not about them;
`FewAccounts` opens the settings of one account in both browsers and has the second
page change only whether there are pushes; `FewEndpoints` bounds the second browser;
`ShortFile` makes the second file one row long, and `IdsInOrder` hands out ids in
order; `FirstForOne` fixes whom the first expense is for; `FewSlices` divides the
slices between the mutations and the other device; `FewJobs` does the same for
the jobs of the expense cache.  The theorems of section 5 have none of them.

`CHECK_DEADLOCK FALSE` is set everywhere: every call or request is used once and
every counter is bounded, so a system may be done.

**Fairness.**  Three runs use it.  In `group_sync_rotation` a call that was started
is driven by the event loop, a request by the server, the key request by both: weak
fairness of `CallStep`, `ServerStep` and `KeyStep`.  In `membership_races` the weak
fairness of `Proceed` contains the deadlock detector of PostgreSQL
(`deadlock_timeout`); without it the opposite lock orders of removal and change of
role would wait for each other forever.  In `reminders_pending` the worker is an interval
that comes back after every stop, and a claim grows old (`RemindersFair`); its
counterexample keeps all of that.
Nobody is obliged to start a call, to join or to leave, and no failure is obliged
to happen.  `Rooms` has no fairness and no liveness property: the hook gives up after
its attempts and nothing reconnects an idle tab afterwards (section 6), so that
what is claimed of a tab is claimed of one that is connected.

## 5. What is proved

All theorems hold for every value of the constants under the named assumptions
of the modules, which only type them.  The proofs are in modules of their own.

**`GroupSyncProofs`** (`TypeCorrect`, `UpdatesAreKept`, `BlobStaysReadable`,
`OnlyMembers`, `Implementation`).  None of the invariants is inductive.  `IInv` adds
what makes them so: a call's clock never exceeds the server's, and *equal clocks come
with equal ledgers* (`ClockTracksLedger`); a call's stage and its request agree
(`StageWire`); nobody holds a key that does not exist yet (`KeysKnown`); and an
upload that passed the access check and carries the current key is a member's
(`CurrentKeyIsMembers`), because a departure after the check would have rotated
the key.  An upload that the conflict check admits has a clock that is neither
behind nor ahead, so equal, so it carries the current ledger plus one edit: that
is `UpdatesAreKept`.  `BlobStaysReadable` and `OnlyMembers` follow from the key
check.  `RefusalsHaveACause` says that a conflict is answered only where another
edit came between: a clock dates one ledger (`LedgerTracksClock`), so a call whose
ledger is still the server's has the server's clock too.  `Implementation` is the refinement of `SharedLedger`, step by step.

**`GroupMembershipProofs`** (`MembershipTypes`, `ChangesAreAuthorized`,
`KeysRotate`).  `IInv` says that a row is locked by one request at most
(`Exclusive`) and, for each place in the code, what a request has found under a
lock it still holds: the departing row is a member (`KeepsTarget`), the caller an
admin (`KeepsActor`), the code live and the group active (`KeepsInvite`), the new
index above all others (`KeepsIndex`).  A commit changes rows its request holds;
nobody else holds those (`Undisturbed`), so what others know stays true.  Who
creates an invitation after the caller's demotion is not among the promises, and
`KeepsAnAdmin` fails because two reads of `leaveGroup` take no lock.
`KeysRotate` maps a committed departure to `Depart`, both ways of joining to
`Join`, and every other step to a stutter.

**`SettlementsProofs`** (`SettlementTypes`, `NoDuplicateProposals`, `PartsAddUp`,
`LifeCycleHolds`, `BalancesAgree`).  Every step is classified by its effect on the settlements
(`Change`: none, a proposal, a move, a partial payment), so that the invariants are
proved against four effects instead of eleven actions.  `NoDuplicateProposals` is
inductive with the types; `PartsAddUp` needs `RefersBack`, that a remainder refers to
an earlier settlement; `LifeCycleHolds` is an action property.

`BalancesAgree` is about data: whatever finitely many expenses and however many
settlements a blob has, also in part paid ones, what `computeNetBalances` makes of the
blob are the plain sums, and the entries of a member's statement end on the balance of
the group until a settlement of theirs is approved.  (The balances that
`toEngineSettlements` comes before leave the parts out: section 6.)  What a member is owed is
summed over buckets and members (`Owed`); a settlement changes one bucket between two
members, by as much as it was (`SettleBucket`, `SettleEffect`), an expense adds its
shares (`ExpenseEffect`), netting keeps differences (`NettedIs`).

**`FoldLemmas`** is what lies underneath, about `SumFunction` and the folds of the
community modules: that the recursive function in their definition exists and is
unique (`FoldExists`, `SumsAgree`), that the order of a sum does not matter
(`SumRemove`), that sums add (`SumAdd`), that a sum is the sum over its parts
(`SumOfParts`) and no less than any of them (`SumGrows`).

**`SessionsProofs`** (`TypesHold`, `OneToken`, `RevocationIsFinal`,
`CookieKeepsUp`).  `RevocationIsFinal` says which sessions survive a revocation: at
most those in `missed`.  `OneToken` and `RevocationIsFinal` are proved together,
from an invariant that allocates tokens in order (`Allocated`), keeps sessions within
those begun (`SessionsBegun`, `RevokedBegun`) and types the server's part of the
state: a session gets a new token only by giving up the only one it has.  For
`CookieKeepsUp` the invariant `SInv` follows a token from the `INSERT` through the
answer into the cookie, and needs that the sessions of two browsers are disjoint.

**`PersonalSyncProofs`** (`PersonalTypes`, `SeedSurvives`, `CyclesAreBilled`,
`PairsAreKept`).  The
client overwrites the whole blob in five places (store, load, resolve, merge, roll
back), so that an invariant about the server's blob alone is not inductive.  `IInv`
says that *every* blob, stored, loaded, on the wire or kept for a rollback, is
`Sound`: it has the old data and every cycle before its due date is billed, paid or
deleted.  One lemma per mutation shows that a sound blob is made from a sound one, one
that a merge of sound ones is sound; after that no interleaving matters.

`PairsAreKept` is about interleavings only: while no request fails and no page replaces
the blob (`Calm`), neither of two saves of a tab loses what the other one added,
whichever is stored or answered first.  `PairInv` splits the calm behaviours by how many
mutations were made (`NoneMade`, `OneMade`, `TwoMade`), and says for each how the clocks
of the tab, of the saves and of the server compare, and whose blob has which of the two
expenses.  A third mutation breaks it (section 6).  Two assumptions only tell values
apart: the id of an expense that the user enters is a UUID and never that of a bill's
cycle (`OpsAssumption`), and no blob is the mark for none (`NoBlobAssumption`).

The second half of **`SessionsProofs`** is about `Accounts` (`AccountTypes`, `KeysStayTogether`, `SecondFactorIsAsked`,
`ChallengesAreTakenOnce`, `GuessesStayBounded`).  Beside the types, `AccountsInv` says of
the row that it opens with its own password to its own key (`RowOpens`); of each
handler that the key it is to store is that of its account, and that one which has
seen the second factor on will ask for it or has asked (`Fits`); of each challenge
that waits, that it was never taken (`Waits`); of the clients that they hold the key
of their account; and that the failures, with the passwords being compared, exceed
the limit by less than the number of requests (`Guesses`).

**`PartsProofs`** proves one part after the other, and **`ServicesProofs`** adds the
invoices and the pages, and puts the results together for `MCServices`, where a step is a step of one part
(`PartRuns`) and leaves the others where they are.

* `EvictionIsHeard` and `WantedRoomsAreJoined`, for any number of tabs, attempts and
  removals of one user and one group.  `RoomsInv` adds to the two properties and the
  types that a hook has attempts left while it connects or its timer runs (`Tries`) and that no
  socket has more handlers under way than it may (`Bounded`).  The join that read its row
  before the removal is excused from the first one (`crossed`), and a tab that was refused or
  evicted since it last asked from the second one (`away`).
* `RestrictionsBite`.  An answer that misses the restriction was read before it was
  committed, so it is never dated later, in the cache or on its way to it, and a TTL
  after the commit it has expired.
* `LimitsAreKept`.  Each admitted request has used up a number of its own that an
  `INCR` of the present window returned (`SpentNumbers`), so that no more than the limit
  are admitted.
* `RecordsAreKept` has nine parts.  *Administration*: the admin whose transaction
  holds the row has written it and is alone with it (`LockHolderWrote`); the alerts of
  a cooldown and the evaluations that have found the rule cool are together no more
  than the admins.  *Logging*: the entries of the buffer and of the flushes under way
  are distinct and disjoint, and every entry is in one of them, written, or counted as
  dropped (`Sound`).  *Blobs*: every old row is in every copy, an id names the row it
  was made for and no two rows share one (`RowsKept`), and what a client made of an
  old blob is complete (`Migrated`).  *Migrations*: what an instance does not have
  before it is recorded (`InOrder`), and a file that commits by itself has run before
  it is recorded (`RanFirst`), once if it cannot run again.  *Imports*: of a run, every row
  before the present one is stored once, as it was read, or has an error, and then it is
  stored only if its answer was lost (`RunSound`); of a restoration, what is no longer
  to be added is stored once, as it was (`RestoreSound`); both hold of the stored blob and
  of the one the tab holds (`BlobFits`), so that it does not matter that the next save
  puts the one in the place of the other.
* `ImportsArriveOnce` states the part about imports for `Imports` alone.
* `LogsAreVerified`.  A log that was begun in the legacy format, the stored one and
  each that an append has read, is unbroken: every entry is hashed in that format over
  the hash of the one before it (`LogInv`), so `verifyIntegrity` finds nothing.  For the
  chain that the engine would write, the hashes grow, so that they tell the entries
  apart (`HashesGrow`): the last entry is the only head, the walk from it reaches all
  (`WalkIsWhole`), in whatever order the entries are given (`OrderedHolds`); without one of the
  others there are two heads, or a first entry whose predecessor is missing
  (`RemovedBreaks`).
* `BudgetsAreKept`.  What a budget carries was left by the periods before its start in
  *every* blob: shown, stored, on the wire and kept for a failure (`EarnedEverywhere`);
  each of the rollovers of a load adds at most one base and goes on by one period.
  While nothing fell unseen, the user was told the level shown, and no save began at a
  higher one (`LevelIsTold`); while no two saves overlapped, the user was told no
  more than that, nor than the level the save began with (`OneAtATime`), so that nothing
  is told twice.
* `PagesAreTrue`, with one invariant per page.  *Notifications*: no answer on its way
  lists a notification twice, and the count is that of the unread entries until an event
  doubled one; that a deletion counts down by as much as it removes needs that what is
  picked of a list is a bijection of its places (`InboxInv`, `PickedEntries`, `Losing`).
  *Groups*: while no event and no timer is pending, the page shows what is there, or the
  last request on its way will read and show it (`PageKept`), for which requests are
  numbered and only those for the open group count (`FetchesOrdered`); the list is that of
  its user as it stands.  *The cache*: an edit that is not excused is alone with its
  group and leaves nothing behind that is older than itself (`EditSound`), and a load of
  all groups has read none as it was before an edit (`LoadSound`).  *Settings*: what an account has
  is what the last request stored for it asked for (`LastHolds`), and a page that waits or
  has its answer has sent one of the requests (`BrowserFits`); so a page that shows what
  it sent shows what holds (`PreferencesInv`).  *The private blob*: `SlicesInv`, of any
  number of mutations.  The lists are the slices of the blob, and of the blob each save
  found, as long as no failed save overlapped another one (`ListsInv`; `ListsFollowBlob`
  states this alone).  What a mutation told the user is stored until it is deleted or
  `forgotten`: every save under way has its row, or will be found to conflict
  (`StoredInv`).  `NoBlobAssumption` again tells the mark for no blob from the blobs.
* `ReportsAreTotals`.  The invariant says only that the expenses are finitely many.  The
  rest is about data: each day is in one month and in one period of the detector
  (`MonthOfDay`, `MonthIsOne`, by the bounds of a quotient, `Quotient`), so the
  months, periods and categories cut the expenses in parts (`PartsOf`), and a sum is the
  sum over its parts (`TotalOfParts`).  An average is no less than the least of what it
  is made from (`SumAtLeast`), so what exceeds it exceeds one of them.
* `SharesAreExact`.  *The engine*: a share is off by half a cent at most
  (`RoundBounds`), so what the last member is left with falls short only when its weight
  is too small for the cents of the others, by less than the others can give up
  (`AllocatedShares`, `CorrectedShares`).  *The form*: the cents that rounding leaves
  over are handed out, one in each turn, by the places of the participants (`PlacesCount`,
  `HandedOut`), so an item that is charged by weights is charged to the cent, and one in
  exact amounts to a cent at most (`ItemCharges`).  Two items are off by more than the
  check before the blob tolerates only when both are in exact amounts; then all
  shares are positive, and scaling them to the total hands out the rest (`SubmittedAddUp`).
  *Transfers*: what each list still has is a function on people, the sums of both keep
  their difference, and each transfer empties a place (`TransferClears`); so the fold ends
  within its bound with one list empty (`MatchingEnds`), the other one too if the
  balances came to nothing (`TransfersAreRight`, for any balances), and before the last
  place is left.  *Invoices*: a table of debts is followed through the settlements one at a
  time; paying no more than one owes leaves the sign of no debt (`StillOwes`), so what
  `Settle All` proposes, and what passes without a warning, turns none around
  (`NoReversal`, for every `Book` of expenses and settlements in the own currency).
* `TypesAreKept`.  Most types come with the invariants above; the rest is inductive
  beside them (`ServicesTypes`).  Four bounds take an argument: no request is admitted
  without a number that was counted (`LimitsTypes`), no reading is of a later edit than
  there is (`CacheTypes`), an endpoint is one that its browser was given
  (`PreferencesRestStays`), and a list of notifications is no longer than there are
  notifications while no two of its entries are of one (`DistinctFits`).  The count of
  the badge has no such bound once an event doubled an entry, so its type is that of
  the naturals.  The constants need a kind of request and a day.

The prover cannot apply the library's induction theorems, whose parameter is an
operator.  Where an argument needs induction, it takes the least counterexample
instead (`LeastOf`, from the well-foundedness of the naturals), or a lemma whose
parameter is a set (`SubsetInduction` and `RemovalInduction` in `FoldLemmas`).

**Only model-checked:** liveness (`CallsReturn`, `RequestsEnd`), and
everything that would need `ENABLED`, which the prover has no backend for.  Every
invariant and every action property that a passing run checks is stated by a theorem.

## 6. Where the code does not do what it says

Six runs show a violation:

* **A group without an admin** (`membership_orphan`).  `leaveGroup` counts the
  remaining admins and picks the next member without locking them.  Two admins
  who leave at once each count on the other; an only admin who leaves while
  somebody joins finds nobody to promote.
* **A debt is settled twice** (`settlement_overpaid`).  A settlement that is paid and
  not yet approved is seen by neither check of a new proposal.
* **A part that was paid does not count** (`settlement_partly`).  `computeNetBalances`
  settles what was paid of a superseded settlement, and the overview, the former members
  and the statement give it `paidAmount`.  `toEngineSettlements` (`groupSync.ts:328`) drops it: the
  list of groups, the balances of a group (`groupStore.ts:153`, `:290`) and the check
  of a new proposal (`groupSettlementStore.ts:68`) stay as they were before the payment.
* **A benign race logs a tab out** (`sessions_benign_race`).  The tab that loses
  the rotation is told `ERR_TOKEN_REUSED` in all three attempts while the answer of
  the winner is on its way; the fallback to the stored profile compares the
  restored access token with itself and clears the profile.
* **The third quick expense deletes the second** (`personal_overlap`).  The answer
  of a save replaces the blob of the tab by what that save stored, without the
  optimistic change of a later one; what is built on it overwrites the later one.
* **No reminder is sent** (`reminders_pending`).  The `CHECK` of
  `004_notification_reminders.sql:15` refuses the status `processing` that a claim
  writes (`reminderService.ts:65`), and no later migration widens it: each job ends with that
  error, and a due reminder stays pending.  Nothing calls `createReminder` either.

Others follow from the definitions and have no run.  The properties that pass are
stated beside them: an `excused`, `overlapped`, `tangled` or similar history variable
names the case in which the code does not deliver.

*Groups.*
* A client refreshes the group key in its first attempt only (`groupSync.ts:220`), so
  that a call refused because of a rotation, which `groupService.ts:413` wants to
  "force the client to refetch the blob and the current key", fails in its second
  attempt.  `addLogEntry` never refreshes it: an entry is dropped without a trace
  after a rotation (`logStore.ts:322`).
* The statement of a member counts a settlement with the other sign than the balances
  (`personalLogBuilder.ts:107`), so that its last entry does not end on the net position
  once one is approved, as `personalLogBuilder.test.ts:176` has it for `finalBalance`,
  which is taken from `computeNetBalances` and not from the entries.
* A change of the group's currency gives another currency to expenses without one,
  not to their settlements; a migrated blob makes old settlements dollars and old
  expenses the group's currency.
* An append to a log rewrites entries of the engine's format so that
  `verifyIntegrity` marks them broken, which the comment at `logStore.ts:156`
  excludes.  The answer of `fetchLogs` for another group overwrites the list.
  `MEMBER_LEFT` is never logged.
* The invoices tab takes the balances of a window (30 days by default): a settlement
  in it of an expense before it shows as a debt the other way round.  It counts all
  expenses in the group's currency and never warns about a settlement in a former
  one.  *Settle All* proposes the minimal transfers, which may join two members
  without a debt between them; `proposeSettlement` refuses those, and the others stay.
* Overtaken answers of one group show an older state of it; answers after a logout are
  shown to, and cached for, the next account; while another group loads, or after
  it failed to, the page shows the group before it; balances are 30 seconds old
  after an edit; a change of settings emits no event.
* `fetchAllGroupExpenses` replaces newer entries of the cache when an edit overtakes
  it.  `createGroupExpense` takes the members from whatever group is shown, and the
  server refuses the notice as a whole if one recipient is no member.
* The form may store a share of minus one cent; the engine splits 25 cents in the
  ratio 50/50/0 into 26 with the tolerance of a cent.

*Sessions and accounts.*
* Reuse of an old refresh token is meant to revoke all tokens of the user, but the
  throw in the transaction rolls that back (`tokenService.ts:88`).  The answer of a
  refresh that arrives after a logout signs the tab in again (`authStore.ts:572`).
* A revocation finds only tokens that are stored: a session whose refresh has committed
  and whose `INSERT` is under way (`tokenService.ts:137`) outlives it, and so does one whose
  logout presents the token before the last (`missed`).
* `changePassword` of the web client fails always: it exports a key that was made
  non-extractable (`authStore.ts:700`, `crypto.ts:240`).
* The old password is compared outside the transaction that stores the new one; the
  set-up of the second factor checks and updates in two statements; a recovery begun with
  an old code works after the code was rotated.  The deletion of an owner counts the
  owners `FOR UPDATE` (`adminUserService.ts:77`), which PostgreSQL refuses with an
  aggregate; no deletion of a user rotates the keys of the user's groups.  `cleanupBannedUsers` has no caller.
* A lost `EXPIRE` leaves a key that never ends; read and write limits of
  admins share one key; clearing the cache wipes the block list; nothing
  unblocks an address.

*Private data.*
* A user without a row in `personal_data` gets a null blob, which the stores take for
  a failed load and refuse every mutation (`routes/personal.ts:16`); only the import of
  a backup writes a first row.  `personalVectorClock` is the time of the page load and
  not the clock of the loaded blob, so that the page opened last overwrites the others
  without a conflict.
* A merge is a union: what one device deleted comes back (`personalStore.ts:28`).  A
  failed save puts back the blob from before its mutation, and the mutations since with
  it.  `addCategory` that loads the blob and then fails empties the lists of incomes
  and savings.  Bills are not published before they are saved, and have no date of
  change: an overlapping save loses one of two edits, a merge may lose the newer.
  A mutation that begins without the row of another one saves over it (`forgotten`).
* Rows without an id get another one at each read until somebody saves; two devices
  that read the same old blob double its rows, or collapse them, depending on the
  slice.
* A custom budget of one day never advances and its carry grows with every load; the
  same after a gap of more than 61 periods; the last day of a custom range counts in
  both periods; an alert is repeated by overlapping saves and lost when the status
  falls during one.
* The bars of the analytics page miss the first day; recaps that were cached stay as
  they are; a budget over several months counts in full in each.
* An import reads "12.50" as 1250, so that an exported file is read back a hundred
  times larger, and "1.234,50" as no number, which the comment at `ImportPage.tsx:50`
  wants read.  The properties say of a row that it is stored with the amount that was read, and
  not that it was read rightly.  A row whose answer was lost is reported as failed and
  stored until the next save of the tab overwrites it.  The Back buttons work
  during a run (`ImportPage.tsx:266`, `:314`): its end shows its result over the preview of a
  second file.  A second import or a second restoration doubles rows; a restoration
  that fails leaves a part; groups of a backup are never restored.

*Server.*
* Migrations 003, 004, 005, 009 and 020 commit by themselves and are run again after a
  fall or beside another instance; 009 drops `reminders` again.  003 and 004 cannot run
  again, as their `CREATE TRIGGER` fails (`003_notifications.sql:57`,
  `004_notification_reminders.sql:35`): a server that falls between such a `COMMIT` and the row in
  `_migrations` exits at every later start.
* Rooms: a join whose membership was read before a removal enters the room after the
  eviction (`websocket.ts:174`, `crossed`).  A leave that overtakes the query of a join
  leaves the tab in the room.  The socket of an idle tab that drops is not replaced
  (`useWebSocket.ts:60`, `reconnection: false`; the token changes with a 401, a page load
  or a login only), where `audit-checklist.md:554` has "Reconnect on disconnect".
* Preferences: categories cannot be switched on again, `quiet_hours` null is coerced
  to "" and refused, a page that has loaded a row can never save it, a page that failed
  to load saves the defaults over the row, one that was edited while its save was awaited says
  "Preferences saved" over what it never sent, a logout leaves the push subscription.
  `web/public/sw.js` contains type annotations, so that its registration fails.
* The seeded rule "Low Disk Space" compares the used percentage with a threshold for
  the free one; a rule that has fired cannot be deleted; the old value in the change
  log is read outside the transaction; the maintenance toggle is not logged;
  `listUsers` reads a column it has not selected.
* Log entries may be written in another order or lost at a shutdown; the error rate of
  an endpoint counts 5xx only, that of the overview 4xx as well.

## 7. What is not modelled

`PROJECT.json` lists every component with what its modules leave out.  In short: the
content of expenses beyond payer, currency and shares; float arithmetic, which the
models replace by whole cents; log texts, icons and layout; renaming and avatars;
the use count and expiry of invitations and refresh tokens; `createGroup` in
the client; the first row of the private blob; charts and currency conversion;
the export of a table as CSV; receipts; the notices that a new expense asks for;
reports of the admin console that are single `SELECT` statements; the push service; the
seed of the database.  Cryptography is out of a model checker's reach and stands in
the models for what it guarantees.  The batch route
`routes/sync.ts` forwards to modelled functions and no client calls it.  Pages and
components that only render are left out; those with a rule of their own
(`ImportPage`, `GroupInvoicesTab`, `GroupExpenseForm`, `AnalyticsPage`,
`NotificationPreferencesSettings`, `GroupDetailPage`) are modelled with their component.

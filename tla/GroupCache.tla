----------------------------- MODULE GroupCache ------------------------------
(***************************************************************************)
(* What a tab keeps of the expenses of its groups: the group that its page *)
(* shows and the cache behind the analytics, after edits of its own and of *)
(* others (web stores/groupExpenseStore.ts, groupStore.ts).  The notice    *)
(* that follows a new expense is left out.                                 *)
(* The user of the tab is a member of every group and stays signed in; how *)
(* the page itself is kept up to date is GroupPages.                       *)
(***************************************************************************)
EXTENDS Naturals, FiniteSets

CONSTANTS
    GroupIds, NoGroupId,
    Jobs,      \* what the tab does at once
    MaxSheets  \* bound: edits of a group

ASSUME GroupCacheAssumption == NoGroupId \notin GroupIds /\ MaxSheets \in Nat

VARIABLES
    sheets,    \* how often the expenses of each group were edited
    shownGroup, \* currentGroup: of which group, which edit
    askedGroup, \* activeFetchGroupId
    groupExpensesCache,
    job,
    mineAt,    \* history: the last edit of each group by this tab
    excused    \* history: groups with an edit that ran beside another one or beside a
               \* load of all groups, or whose own reading was not shown

cacheVars == <<sheets, shownGroup, askedGroup, groupExpensesCache, job, mineAt, excused>>

NothingShown == [id |-> NoGroupId, at |-> 0]
NoJob == [kind |-> "none", id |-> NoGroupId, step |-> "none", at |-> 0,
          left |-> {}, got |-> <<>>]

GroupCacheTypeOK ==
    /\ sheets \in [GroupIds -> 0..MaxSheets] /\ mineAt \in [GroupIds -> 0..MaxSheets]
    /\ {shownGroup.id, askedGroup} \subseteq GroupIds \cup {NoGroupId}
    /\ DOMAIN groupExpensesCache \subseteq GroupIds /\ excused \subseteq GroupIds

GroupCacheInit ==
    /\ sheets = [g \in GroupIds |-> 0] /\ mineAt = sheets
    /\ shownGroup = NothingShown /\ askedGroup = NoGroupId /\ groupExpensesCache = <<>>
    /\ job = [j \in Jobs |-> NoJob] /\ excused = {}

-----------------------------------------------------------------------------
(* The other members.                                                      *)

MateEdits(g) ==
    /\ sheets[g] < MaxSheets /\ sheets' = [sheets EXCEPT ![g] = @ + 1]
    /\ UNCHANGED <<shownGroup, askedGroup, groupExpensesCache, job, mineAt, excused>>

-----------------------------------------------------------------------------
(* The jobs of the tab.                                                    *)

Begins(j, kind, g, step) ==
    /\ job[j] = NoJob
    /\ job' = [job EXCEPT ![j] = [NoJob EXCEPT !.kind = kind, !.id = g, !.step = step]]
At(j, step) == job[j].step = step
StepsTo(j, step) == job' = [job EXCEPT ![j].step = step]
JobEnds(j) == job' = [job EXCEPT ![j] = NoJob]

\* fetchGroupById, of the page.
OpensGroup(j, g) ==
    /\ Begins(j, "open", g, "reading") /\ askedGroup' = g
    /\ UNCHANGED <<sheets, shownGroup, groupExpensesCache, mineAt, excused>>

\* createGroupExpense, deleteGroupExpense and updateGroupExpense.
EditsExpenses(j, g) ==
    /\ Begins(j, "edit", g, "upload")
    /\ excused' = excused \cup {h \in {g} : \E k \in Jobs : job[k].kind = "all" \/
                                                (job[k].kind = "edit" /\ job[k].id = g)}
    /\ UNCHANGED <<sheets, shownGroup, askedGroup, groupExpensesCache, mineAt>>

\* addGroupCategory, removeGroupCategory and updateMemberRole, which leave the expenses
\* alone, and fetch the group as well when they succeed.
EditsTheRest(j, g) ==
    /\ Begins(j, "rest", g, "stored")
    /\ UNCHANGED <<sheets, shownGroup, askedGroup, groupExpensesCache, mineAt, excused>>

\* modifySyncBlob
StoresExpenses(j) ==
    LET g == job[j].id IN
    /\ At(j, "upload") /\ sheets[g] < MaxSheets
    /\ sheets' = [sheets EXCEPT ![g] = @ + 1] /\ mineAt' = [mineAt EXCEPT ![g] = sheets[g] + 1]
    /\ StepsTo(j, "stored")
    /\ UNCHANGED <<shownGroup, askedGroup, groupExpensesCache, excused>>

\* The edit was refused, or its answer lost, whereupon nothing is fetched.
EditFails(j) ==
    LET g == job[j].id IN
    /\ At(j, "upload") /\ JobEnds(j)
    /\ \/ sheets' = sheets
       \/ sheets[g] < MaxSheets /\ sheets' = [sheets EXCEPT ![g] = @ + 1]
    /\ UNCHANGED <<shownGroup, askedGroup, groupExpensesCache, mineAt, excused>>

\* fetchGroupById, of the edit, whichever page is open by now.
FetchesAgain(j) ==
    /\ At(j, "stored") /\ StepsTo(j, "reading") /\ askedGroup' = job[j].id
    /\ UNCHANGED <<sheets, shownGroup, groupExpensesCache, mineAt, excused>>

ReadsGroup(j) ==
    LET g == job[j].id IN
    /\ At(j, "reading") /\ job[j].kind # "all"
    /\ \/ job' = [job EXCEPT ![j].step = "read", ![j].at = sheets[g]]
       \/ StepsTo(j, "unread")
    /\ UNCHANGED <<sheets, shownGroup, askedGroup, groupExpensesCache, mineAt, excused>>

IsShown(j) == At(j, "read") /\ askedGroup = job[j].id

ShowsRead(j) ==
    shownGroup' = IF IsShown(j)
                  THEN [id |-> job[j].id, at |-> job[j].at]
                  ELSE shownGroup

\* Only of the group that is shown.
syncCacheFromGroup(g) ==
    groupExpensesCache' =
        IF shownGroup'.id # g THEN groupExpensesCache
        ELSE [h \in DOMAIN groupExpensesCache \cup {g} |->
                IF h = g THEN [of |-> shownGroup'.id, at |-> shownGroup'.at]
                ELSE groupExpensesCache[h]]

\* The answer, or what stands for it: an edit goes on with whatever group is shown.
ShowsGroup(j) ==
    /\ job[j].step \in {"read", "unread"} /\ ShowsRead(j) /\ JobEnds(j)
    /\ IF job[j].kind # "edit" THEN UNCHANGED <<groupExpensesCache, excused>>
       ELSE /\ syncCacheFromGroup(job[j].id)
            /\ excused' = IF IsShown(j) THEN excused ELSE excused \cup {job[j].id}
    /\ UNCHANGED <<sheets, askedGroup, mineAt>>

-----------------------------------------------------------------------------
(* fetchAllGroupExpenses, of the analytics.                                *)

fetchAllGroupExpenses(j) ==
    /\ job[j] = NoJob
    /\ job' = [job EXCEPT ![j] = [NoJob EXCEPT !.kind = "all", !.step = "reading", !.left = GroupIds]]
    /\ excused' = excused \cup {job[k].id : k \in {k \in Jobs : job[k].kind = "edit"}}
    /\ UNCHANGED <<sheets, shownGroup, askedGroup, groupExpensesCache, mineAt>>

\* One group after the other; one that cannot be read is left out.
ReadsNext(j) ==
    /\ job[j].kind = "all"
    /\ \E g \in job[j].left, got \in BOOLEAN :
        job' = [job EXCEPT
            ![j].left = @ \ {g},
            ![j].got = IF got THEN [h \in DOMAIN @ \cup {g} |->
                                        IF h = g THEN [of |-> g, at |-> sheets[g]] ELSE @[h]]
                       ELSE @]
    /\ UNCHANGED <<sheets, shownGroup, askedGroup, groupExpensesCache, mineAt, excused>>

\* The cache is replaced, unless the list of the groups could not be read.
ReplacesCache(j) ==
    /\ job[j].kind = "all" /\ JobEnds(j)
    /\ \/ job[j].left = {} /\ groupExpensesCache' = job[j].got
       \/ job[j].left = GroupIds /\ UNCHANGED groupExpensesCache
    /\ UNCHANGED <<sheets, shownGroup, askedGroup, mineAt, excused>>

GroupCacheNext ==
    \/ \E g \in GroupIds : MateEdits(g)
    \/ \E j \in Jobs :
        \/ \E g \in GroupIds : OpensGroup(j, g) \/ EditsExpenses(j, g) \/ EditsTheRest(j, g)
        \/ StoresExpenses(j) \/ EditFails(j) \/ FetchesAgain(j) \/ ReadsGroup(j) \/ ShowsGroup(j)
        \/ fetchAllGroupExpenses(j) \/ ReadsNext(j) \/ ReplacesCache(j)

GroupCacheSpec == GroupCacheInit /\ [][GroupCacheNext]_cacheVars

-----------------------------------------------------------------------------
\* Every entry of the cache holds expenses of its own group, whichever group was opened
\* while they were fetched, and none that are older than the last edit that the tab
\* itself has finished, unless that edit ran beside another one or beside a load of all
\* groups, or its reading was lost or dropped (groupExpenseStore.ts).
CacheKeepsEdits ==
    \A g \in DOMAIN groupExpensesCache :
        /\ groupExpensesCache[g].of = g
        /\ (\A j \in Jobs : job[j].id = g => job[j].kind # "edit") /\ g \notin excused
              => groupExpensesCache[g].at >= mineAt[g]
=============================================================================

----------------------------- MODULE GroupPages ------------------------------
(***************************************************************************)
(* What one tab shows of groups: the list with a balance each, and the     *)
(* page of one group (web stores/groupStore.ts, pages/groups/              *)
(* GroupDetailPage.tsx, hooks/useWebSocket.ts).  Requests overlap, answers *)
(* come in any order, events may be missed, and the account that is signed *)
(* in may change while answers are on their way.                           *)
(***************************************************************************)
EXTENDS Naturals, FiniteSets

CONSTANTS
    Groups, Users, NoUser, NoGroup,
    Fetches,    \* requests of the tab at once
    MaxNews,    \* bound: changes of a group by its members
    MaxFetches  \* bound: requests of a behaviour

ASSUME GroupPagesAssumption ==
    NoUser \notin Users /\ NoGroup \notin Groups /\ MaxNews \in Nat /\ MaxFetches \in Nat

VARIABLES
    news,      \* how often the blob or the members of each group changed
    inGroup,   \* the groups of each user
    signedIn,  \* the account of the tab
    groups,    \* the list: whose balance is shown for each group in it
    balanceCache, \* whose balance is kept for each group
    page,      \* the group whose page is open
    currentGroup, \* what the page shows: a group, as of which news
    activeFetch,  \* activeFetchGroupId
    due,       \* the page waits 600 ms before it fetches again
    event,     \* events on their way to the tab: what happened to which group
    fetch,     \* requests, and the answers they bring
    started, landed, \* history: requests counted, the last whose answer came
    blind,     \* history: the page missed an event, failed to load, or was overtaken
    outlived   \* history: an answer came after its account had signed out

groupPagesVars == <<news, inGroup, signedIn, groups, balanceCache, page, currentGroup,
                    activeFetch, due, event, fetch, started, landed, blind, outlived>>
serverVars == <<news, inGroup>>
listVars == <<groups, balanceCache>>
pageVars == <<page, currentGroup, activeFetch, due>>

NoFetch == [kind |-> "none", of |-> NoUser, id |-> NoGroup, n |-> 0, rows |-> {}, at |-> 0]
Nothing == [id |-> NoGroup, at |-> 0]

GroupPagesTypeOK ==
    /\ news \in [Groups -> 0..MaxNews] /\ inGroup \in [Users -> SUBSET Groups]
    /\ signedIn \in Users \cup {NoUser}
    /\ DOMAIN groups \subseteq Groups /\ \A g \in DOMAIN groups : groups[g] \in Users \cup {NoUser}
    /\ balanceCache \in [Groups -> Users \cup {NoUser}]
    /\ {page, activeFetch, currentGroup.id} \subseteq Groups \cup {NoGroup}
    /\ event \subseteq {"changed", "deleted"} \X Groups

GroupPagesInit ==
    /\ news = [g \in Groups |-> 0] /\ inGroup \in [Users -> {{}, Groups}]
    /\ signedIn = NoUser /\ groups = <<>> /\ balanceCache = [g \in Groups |-> NoUser]
    /\ page = NoGroup /\ currentGroup = Nothing /\ activeFetch = NoGroup
    /\ due = FALSE /\ event = {} /\ fetch = [f \in Fetches |-> NoFetch]
    /\ started = 0 /\ landed = 0 /\ blind = FALSE /\ outlived = FALSE

-----------------------------------------------------------------------------
(* The server.                                                             *)

\* Members edit the blob or come and go: the room of the group is told, and the
\* tab hears it if its page, and with it the socket, is in the room.
Told(what, g) ==
    IF page = g
    THEN \/ event' = event \cup {<<what, g>>} /\ blind' = blind
         \/ event' = event /\ blind' = TRUE
    ELSE UNCHANGED <<event, blind>>

GroupChanges(g) ==
    /\ news[g] < MaxNews /\ news' = [news EXCEPT ![g] = @ + 1] /\ Told("changed", g)
    /\ UNCHANGED <<inGroup, signedIn, listVars, pageVars, fetch, started, landed, outlived>>

MemberRemoved(u, g) ==
    /\ news[g] < MaxNews /\ news' = [news EXCEPT ![g] = @ + 1] /\ Told("changed", g)
    /\ g \in inGroup[u] /\ inGroup' = [inGroup EXCEPT ![u] = @ \ {g}]
    /\ UNCHANGED <<signedIn, listVars, pageVars, fetch, started, landed, outlived>>

\* An admin deletes the group, on another device or in this tab.
Deleted(g) == inGroup' = [u \in Users |-> inGroup[u] \ {g}]

GroupDeleted(g) ==
    /\ \E u \in Users : g \in inGroup[u]
    /\ Deleted(g) /\ Told("deleted", g)
    /\ UNCHANGED <<news, signedIn, listVars, pageVars, fetch, started, landed, outlived>>

-----------------------------------------------------------------------------
(* Accounts.                                                               *)

SignIn(u) ==
    /\ signedIn = NoUser /\ signedIn' = u
    /\ UNCHANGED <<serverVars, listVars, pageVars, event, fetch, started, landed, blind, outlived>>

\* onLogout of the store; the page is left and the socket closed.
SignOut ==
    /\ signedIn # NoUser /\ signedIn' = NoUser
    /\ groups' = <<>> /\ balanceCache' = [g \in Groups |-> NoUser]
    /\ currentGroup' = Nothing /\ page' = NoGroup /\ due' = FALSE /\ event' = {}
    /\ UNCHANGED <<serverVars, activeFetch, fetch, started, landed, blind, outlived>>

-----------------------------------------------------------------------------
(* The list.                                                               *)

Start(f, kind, g) ==
    /\ signedIn # NoUser /\ fetch[f].kind = "none" /\ started < MaxFetches
    /\ started' = started + 1
    /\ fetch' = [fetch EXCEPT ![f] = [kind |-> kind, of |-> signedIn, id |-> g,
                                      n |-> started', rows |-> {}, at |-> 0]]

Becomes(f, kind) == fetch' = [fetch EXCEPT ![f].kind = kind]
FetchEnds(f) == fetch' = [fetch EXCEPT ![f] = NoFetch]
Outlives(f) == outlived' = (outlived \/ fetch[f].of # signedIn)

fetchGroups(f) ==
    /\ Start(f, "groups", NoGroup)
    /\ UNCHANGED <<serverVars, signedIn, listVars, pageVars, event, landed, blind, outlived>>

\* GET /group.
ListGroups(f) ==
    /\ fetch[f].kind = "groups"
    /\ fetch' = [fetch EXCEPT ![f].kind = "listed", ![f].rows = inGroup[fetch[f].of]]
    /\ UNCHANGED <<serverVars, signedIn, listVars, pageVars, event, started, landed, blind, outlived>>

\* The list is shown, without balances, whoever is signed in by now.
ShowGroups(f) ==
    /\ fetch[f].kind = "listed" /\ Becomes(f, "balances") /\ Outlives(f)
    /\ groups' = [g \in fetch[f].rows |-> NoUser]
    /\ UNCHANGED <<serverVars, signedIn, balanceCache, pageVars, event, started, landed, blind>>

\* computeGroupBalance for every group: from the cache, or else read, computed and
\* kept for 30 seconds.  Those that fail are not shown.
ShowBalances(f) ==
    /\ fetch[f].kind = "balances" /\ FetchEnds(f) /\ Outlives(f)
    /\ \E failed \in SUBSET {g \in fetch[f].rows : balanceCache[g] = NoUser} :
        LET known == fetch[f].rows \ failed
            value == [g \in known |-> IF balanceCache[g] = NoUser THEN fetch[f].of ELSE balanceCache[g]]
        IN  /\ balanceCache' = [g \in Groups |-> IF g \in known THEN value[g] ELSE balanceCache[g]]
            /\ groups' = [g \in DOMAIN groups |-> IF g \in known THEN value[g] ELSE groups[g]]
    /\ UNCHANGED <<serverVars, signedIn, pageVars, event, started, landed, blind>>

\* Thirty seconds pass, or the group's settings are changed here.
BalanceExpires(g) ==
    /\ balanceCache[g] # NoUser /\ balanceCache' = [balanceCache EXCEPT ![g] = NoUser]
    /\ UNCHANGED <<serverVars, signedIn, groups, pageVars, event, fetch, started, landed, blind, outlived>>

-----------------------------------------------------------------------------
(* The page of a group.                                                    *)

fetchGroupById(f, g) == Start(f, "page", g) /\ activeFetch' = g

OpenPage(f, g) ==
    /\ page # g /\ fetchGroupById(f, g)
    /\ page' = g /\ due' = FALSE /\ event' = {} /\ blind' = FALSE /\ landed' = 0
    /\ UNCHANGED <<serverVars, signedIn, listVars, currentGroup, outlived>>

ClosePage ==
    /\ page # NoGroup /\ page' = NoGroup /\ due' = FALSE /\ event' = {}
    /\ UNCHANGED <<serverVars, signedIn, listVars, currentGroup, activeFetch, fetch, started,
                   landed, blind, outlived>>

\* The page of the group starts its timer again.
incrementGroupDataVersion(g) == due' = (due \/ page = g)

removeGroupLocally(g) ==
    /\ groups' = [h \in DOMAIN groups \ {g} |-> groups[h]]
    /\ balanceCache' = [balanceCache EXCEPT ![g] = NoUser]
    /\ currentGroup' = IF currentGroup.id = g THEN Nothing ELSE currentGroup

\* Every event counts groupDataVersions up.
EventComes(what, g) ==
    /\ <<what, g>> \in event /\ event' = event \ {<<what, g>>} /\ incrementGroupDataVersion(g)
    /\ IF what = "deleted" THEN removeGroupLocally(g) ELSE UNCHANGED <<listVars, currentGroup>>
    /\ UNCHANGED <<serverVars, signedIn, page, activeFetch, fetch, started, landed, blind, outlived>>

TimerFires(f) ==
    /\ due /\ due' = FALSE /\ fetchGroupById(f, page)
    /\ UNCHANGED <<serverVars, signedIn, listVars, page, currentGroup, event, landed, blind, outlived>>

\* GET members and GET sync, which are refused to those who are not members.
ReadGroup(f) ==
    /\ fetch[f].kind = "page"
    /\ fetch' = [fetch EXCEPT ![f].kind = IF fetch[f].id \in inGroup[fetch[f].of]
                                          THEN "read" ELSE "denied",
                              ![f].at = news[fetch[f].id]]
    /\ UNCHANGED <<serverVars, signedIn, listVars, pageVars, event, started, landed, blind, outlived>>

Lands(f) ==
    /\ FetchEnds(f)
    /\ landed' = IF activeFetch = fetch[f].id /\ fetch[f].n > landed THEN fetch[f].n ELSE landed

\* Fault: an answer is shown whatever group was asked for last.
ShowAnyGroup(f) ==
    /\ fetch[f].kind = "read" /\ Lands(f)
    /\ currentGroup' = [id |-> fetch[f].id, at |-> fetch[f].at]
    /\ blind' = (blind \/ (activeFetch = fetch[f].id /\ fetch[f].n < landed)) /\ Outlives(f)
    /\ UNCHANGED <<serverVars, signedIn, listVars, page, activeFetch, due, event, started>>

\* An answer for another group than the one asked for last is dropped; one that
\* another answer for the same group overtook is not.
ShowGroup(f) ==
    /\ fetch[f].kind = "read" /\ Lands(f)
    /\ IF activeFetch = fetch[f].id
       THEN /\ currentGroup' = [id |-> fetch[f].id, at |-> fetch[f].at]
            /\ blind' = (blind \/ fetch[f].n < landed) /\ Outlives(f)
       ELSE UNCHANGED <<currentGroup, blind, outlived>>
    /\ UNCHANGED <<serverVars, signedIn, listVars, page, activeFetch, due, event, started>>

\* A group that is gone is dropped from the list, the cache and the page.
DropGroup(f) ==
    /\ fetch[f].kind = "denied" /\ Lands(f)
    /\ IF activeFetch = fetch[f].id
       THEN /\ removeGroupLocally(fetch[f].id)
            /\ blind' = (blind \/ fetch[f].n < landed)
       ELSE UNCHANGED <<listVars, currentGroup, blind>>
    /\ UNCHANGED <<serverVars, signedIn, page, activeFetch, due, event, started, outlived>>

FetchFails(f) ==
    /\ fetch[f].kind # "none" /\ FetchEnds(f)
    /\ blind' = (blind \/ fetch[f].kind \notin {"groups", "listed", "balances"})
    /\ UNCHANGED <<serverVars, signedIn, listVars, pageVars, event, started, landed, outlived>>

\* The page is closed; fetchGroups follows.
LeavesPage(g) ==
    /\ page = g /\ g \in inGroup[signedIn]
    /\ currentGroup' = Nothing /\ page' = NoGroup /\ due' = FALSE /\ event' = {}
    /\ UNCHANGED <<news, signedIn, listVars, activeFetch, fetch, started, landed, blind, outlived>>

leaveGroup(g) == LeavesPage(g) /\ inGroup' = [inGroup EXCEPT ![signedIn] = @ \ {g}]

deleteGroup(g) == LeavesPage(g) /\ Deleted(g)

Accounts == SignOut \/ \E u \in Users : SignIn(u)

GroupListNext ==
    \/ Accounts
    \/ \E g \in Groups : BalanceExpires(g) \/ \E u \in Users : MemberRemoved(u, g)
    \/ \E f \in Fetches :
        fetchGroups(f) \/ ListGroups(f) \/ ShowGroups(f) \/ ShowBalances(f) \/ FetchFails(f)

GroupPageNext ==
    \/ Accounts \/ ClosePage
    \/ \E g \in Groups : \/ GroupChanges(g) \/ GroupDeleted(g) \/ leaveGroup(g) \/ deleteGroup(g)
                         \/ \E what \in {"changed", "deleted"} : EventComes(what, g)
                         \/ \E u \in Users : MemberRemoved(u, g)
                         \/ \E f \in Fetches : OpenPage(f, g)
    \/ \E f \in Fetches :
        TimerFires(f) \/ ReadGroup(f) \/ ShowGroup(f) \/ DropGroup(f) \/ FetchFails(f)

GroupPagesSpec == GroupPagesInit /\ [][GroupListNext \/ GroupPageNext]_groupPagesVars

-----------------------------------------------------------------------------
\* Once everything has arrived, the page shows the newest state of its group, and
\* nothing of a group the user is no longer in: events that arrive while the page
\* is loading count.  The page missed no event and none of its loads failed or was
\* overtaken: activeFetchGroupId tells groups apart, not answers.
PageFollowsGroup ==
    LET quiet == event = {} /\ ~due
                 /\ \A f \in Fetches : fetch[f].kind \notin {"page", "read", "denied"}
    IN  page # NoGroup /\ quiet /\ ~blind =>
            IF page \in inGroup[signedIn] THEN currentGroup = [id |-> page, at |-> news[page]]
            ELSE currentGroup.id # page

\* The list and its balances are those of the account that is signed in: logging
\* out clears both.  An answer that is on its way then is shown to the next account,
\* and kept for it, all the same.
ListIsOwn ==
    outlived \/ ( /\ signedIn = NoUser => groups = <<>> /\ currentGroup = Nothing
                  /\ \A g \in DOMAIN groups : groups[g] \in {signedIn, NoUser}
                  /\ \A g \in Groups : balanceCache[g] \in {signedIn, NoUser} )
=============================================================================

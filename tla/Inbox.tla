------------------------------- MODULE Inbox --------------------------------
(***************************************************************************)
(* The notifications of one user: the rows of the server                   *)
(* (services/notificationService.ts, routes/notifications.ts) and the list *)
(* and the badge of one tab (web stores/notificationStore.ts).  Requests   *)
(* of the tab overlap, and an answer or an event may overtake another.     *)
(***************************************************************************)
EXTENDS Naturals, Sequences, FiniteSets

CONSTANTS
    Latest,     \* notifications are numbered as they are created, up to Latest
    Asks,       \* requests of the tab at once
    MaxList     \* bound: entries in the list of the tab

ASSUME InboxAssumption == Latest \in Nat \ {0} /\ MaxList \in Nat

VARIABLES
    row,      \* the row of each notification
    events,   \* ids emitted to the tab's socket and not received yet
    ask,      \* what each request does, and the answer it brings
    list,     \* notifications of the store
    unreadCount,
    doubled   \* history: an event came for a notification the list had already

inboxVars == <<row, events, ask, list, unreadCount, doubled>>

Notices == 1..Latest
Entry(n, isRead) == [id |-> n, isRead |-> isRead]
Entries == [id : Notices, isRead : BOOLEAN]
Unread(l) == Cardinality({i \in DOMAIN l : ~l[i].isRead})

\* What a list has at some places, in its order.
Ordinal(places, i) == Cardinality({j \in places : j <= i})
Picked(l, places) ==
    [k \in 1..Cardinality(places) |-> l[CHOOSE i \in places : Ordinal(places, i) = k]]

NoAsk == [kind |-> "none", id |-> 1, rows |-> <<>>]

InboxTypeOK ==
    /\ row \in [Notices -> {"none", "unread", "read", "gone"}]
    /\ events \subseteq Notices /\ doubled \in BOOLEAN
    /\ unreadCount \in Nat /\ list \in Seq(Entries)
    /\ Len(list) <= Latest \/ Len(list) <= MaxList
    /\ \A q \in Asks : ask[q].kind \in {"none", "fetched", "read", "all", "delete"}

InboxInit ==
    /\ row = [n \in Notices |-> "none"] /\ events = {} /\ doubled = FALSE
    /\ ask = [q \in Asks |-> NoAsk] /\ list = <<>> /\ unreadCount = 0

\* createNotification and createNotificationForMultipleUsers: the row, then the
\* event to every socket of the user; a tab that is offline misses it.
CreateNotification(n) ==
    /\ row[n] = "none" /\ (n > 1 => row[n - 1] # "none")
    /\ row' = [row EXCEPT ![n] = "unread"]
    /\ events' \in {events, events \cup {n}}
    /\ UNCHANGED <<ask, list, unreadCount, doubled>>

\* addNotification: the event is put on top, whether or not the list has it.
AddNotification(n) ==
    /\ n \in events /\ events' = events \ {n}
    /\ Len(list) < MaxList
    /\ list' = <<Entry(n, FALSE)>> \o list /\ unreadCount' = unreadCount + 1
    /\ doubled' = (doubled \/ \E i \in DOMAIN list : list[i].id = n)
    /\ UNCHANGED <<row, ask>>

\* GET /notifications: the rows, newest first, and how many are unread.  At most
\* 100 are listed; an inbox of this size is never cut.
Rows ==
    LET newestFirst == [i \in 1..Latest |-> Latest + 1 - i]
        live == Picked(newestFirst, {i \in 1..Latest : row[newestFirst[i]] \in {"unread", "read"}})
    IN  [i \in DOMAIN live |-> Entry(live[i], row[live[i]] = "read")]

Ask(q, kind, n, rows) ==
    /\ ask[q].kind = "none"
    /\ ask' = [ask EXCEPT ![q] = [kind |-> kind, id |-> n, rows |-> rows]]
    /\ UNCHANGED <<events, list, unreadCount, doubled>>

\* The server's half of each request.  The tab does not look at the status of
\* the last three, so a request that the server refused is answered as well.
FetchRows(q) == Ask(q, "fetched", 1, Rows) /\ row' = row

ReadRow(q, n) ==
    /\ Ask(q, "read", n, <<>>)
    /\ row' \in {row, [row EXCEPT ![n] = IF @ = "unread" THEN "read" ELSE @]}

ReadAllRows(q) ==
    /\ Ask(q, "all", 1, <<>>)
    /\ row' \in {row, [n \in Notices |-> IF row[n] = "unread" THEN "read" ELSE row[n]]}

DeleteRow(q, n) ==
    /\ Ask(q, "delete", n, <<>>)
    /\ row' \in {row, [row EXCEPT ![n] = IF @ = "none" THEN @ ELSE "gone"]}

\* The request fails on its way: the tab keeps what it has.
AskFails(q) ==
    /\ ask[q].kind # "none" /\ ask' = [ask EXCEPT ![q] = NoAsk]
    /\ UNCHANGED <<row, events, list, unreadCount, doubled>>

Answered(q, kind) ==
    /\ ask[q].kind = kind /\ ask' = [ask EXCEPT ![q] = NoAsk]
    /\ UNCHANGED <<row, events, doubled>>

\* fetchNotifications takes the list and the count from the answer.
ShowRows(q) ==
    /\ Answered(q, "fetched")
    /\ list' = ask[q].rows /\ unreadCount' = Unread(ask[q].rows)

\* markAsRead: the count goes down by one when the entry was unread, as the
\* last entry of that id was.
MarkAsRead(q) ==
    LET n == ask[q].id
        copies == {i \in DOMAIN list : list[i].id = n}
        wasUnread == copies # {} /\ ~list[CHOOSE i \in copies : \A j \in copies : j <= i].isRead
    IN  /\ Answered(q, "read")
        /\ list' = [i \in DOMAIN list |-> IF i \in copies THEN Entry(n, TRUE) ELSE list[i]]
        /\ unreadCount' = IF wasUnread /\ unreadCount > 0 THEN unreadCount - 1 ELSE unreadCount

MarkAllAsRead(q) ==
    /\ Answered(q, "all")
    /\ list' = [i \in DOMAIN list |-> Entry(list[i].id, TRUE)] /\ unreadCount' = 0

\* Fault: the count goes down for every entry that is deleted.
CountsDown(copies) == copies # {}

\* The first entry of the id decides.
WasUnread(copies) ==
    copies # {} /\ ~list[CHOOSE i \in copies : \A j \in copies : i <= j].isRead

\* deleteNotification.
DeleteNotification(q) ==
    LET copies == {i \in DOMAIN list : list[i].id = ask[q].id} IN
    /\ Answered(q, "delete")
    /\ list' = Picked(list, DOMAIN list \ copies)
    /\ unreadCount' = IF WasUnread(copies) THEN unreadCount - 1 ELSE unreadCount

\* Logging out empties the store.
ForgetNotifications ==
    /\ list' = <<>> /\ unreadCount' = 0
    /\ UNCHANGED <<row, events, ask, doubled>>

InboxNext ==
    \/ \E n \in Notices : CreateNotification(n) \/ AddNotification(n)
    \/ \E q \in Asks :
        \/ FetchRows(q) \/ ReadAllRows(q) \/ AskFails(q)
        \/ \E n \in Notices : ReadRow(q, n) \/ DeleteRow(q, n)
        \/ ShowRows(q) \/ MarkAsRead(q) \/ MarkAllAsRead(q) \/ DeleteNotification(q)
    \/ ForgetNotifications

InboxSpec == InboxInit /\ [][InboxNext]_inboxVars

\* The badge never shows less than the unread entries of the list, and shows
\* just them unless an event came for an entry that a fetch had brought already:
\* addNotification lists that one twice.  This holds through answers that arrive
\* in any order and requests the server refuses.
BadgeFollowsList ==
    /\ unreadCount >= Unread(list)
    /\ doubled \/ unreadCount = Unread(list)
=============================================================================

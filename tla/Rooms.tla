------------------------------- MODULE Rooms --------------------------------
(***************************************************************************)
(* One user's tabs in the room of one group: the sockets and rooms of the  *)
(* server (plugins/websocket.ts) and the socket that each tab keeps (web   *)
(* hooks/useWebSocket.ts), while the user is removed from the group and    *)
(* joins it again (routes/group.ts).                                       *)
(***************************************************************************)
EXTENDS Naturals, FiniteSets

CONSTANTS
    Tabs,        \* each tab has at most one socket
    MaxAttempts, \* MAX_RECONNECT_ATTEMPTS
    MaxJoins,    \* bound: join-group handlers under way for one socket
    MaxRemovals  \* bound: times the user is removed

ASSUME RoomsAssumption ==
    MaxAttempts \in Nat \ {0} /\ MaxJoins \in Nat \ {0} /\ MaxRemovals \in Nat

VARIABLES
    isMember,  \* a row of group_members without left_at
    evictions, \* removals that have committed and have yet to evict the user
    removals,
    tab,       \* the hook: connection, room asked for, attempts, armed timer
    joining,   \* join-group of the tab's socket at the server: handlers that wait
               \* for their query, and those whose query has found the row
    inRoom,    \* tabs whose socket is in the room group:<id>, and has the group
               \* in socketGroups: both are written in one turn
    crossed,   \* history: tabs that joined on a row read before the removal
    away       \* history: tabs refused or evicted since they last asked

roomVars == <<isMember, evictions, removals, tab, joining, inRoom, crossed, away>>

NoSocket == [state |-> "disconnected", wants |-> FALSE, attempts |-> 0, timer |-> FALSE]
NoJoins == [asked |-> 0, found |-> 0]

\* The handlers of a socket that have not ended.
Under(t) == joining[t].asked + joining[t].found

RoomsTypeOK ==
    /\ isMember \in BOOLEAN /\ removals \in 0..MaxRemovals /\ evictions \in 0..removals
    /\ tab \in [Tabs -> [state : {"disconnected", "connecting", "connected"},
                         wants : BOOLEAN, attempts : 0..MaxAttempts, timer : BOOLEAN]]
    /\ joining \in [Tabs -> [asked : 0..MaxJoins, found : 0..MaxJoins]]
    /\ inRoom \subseteq Tabs /\ crossed \subseteq Tabs /\ away \subseteq Tabs

RoomsInit ==
    /\ isMember = TRUE /\ evictions = 0 /\ removals = 0
    /\ tab = [t \in Tabs |-> NoSocket] /\ joining = [t \in Tabs |-> NoJoins]
    /\ inRoom = {} /\ crossed = {} /\ away = {}

memberVars == <<isMember, evictions, removals>>
roomServerVars == <<memberVars, joining, inRoom, crossed, away>>

\* The timer of scheduleReconnect runs out.
Reconnect(t) ==
    /\ tab[t].timer
    /\ tab' = [tab EXCEPT ![t].state = "connecting", ![t].timer = FALSE]
    /\ UNCHANGED roomServerVars

\* The socket is gone: the server forgets it.  A handler that is still under way
\* joins with a socket that nothing reaches.
Forget(t) ==
    /\ inRoom' = inRoom \ {t} /\ crossed' = crossed \ {t} /\ away' = away \ {t}
    /\ joining' = [joining EXCEPT ![t] = NoJoins]
    /\ UNCHANGED memberVars

\* There is an access token, or a new one: the effect closes the socket and opens
\* another (connect), whatever the attempts were.
ReplaceSocket(t) ==
    /\ tab' = [tab EXCEPT ![t] = [NoSocket EXCEPT !.state = "connecting", !.wants = tab[t].wants]]
    /\ Forget(t)

\* The user logs out: the effect closes the socket and forgets the rooms.
LoggedOut(t) ==
    /\ tab' = [tab EXCEPT ![t] = NoSocket]
    /\ Forget(t)

\* Fault: the new socket does not ask for the rooms again.
ForgetRooms(t) == NoJoins

\* The "connect" handler asks again for every room the tab has joined.
RejoinRooms(t) == IF tab[t].wants THEN [NoJoins EXCEPT !.asked = 1] ELSE NoJoins

\* The handshake is accepted: the server knows the socket.
SocketOpens(t) ==
    /\ tab[t].state = "connecting"
    /\ tab' = [tab EXCEPT ![t].state = "connected", ![t].attempts = 0]
    /\ joining' = [joining EXCEPT ![t] = RejoinRooms(t)]
    /\ UNCHANGED <<memberVars, inRoom, crossed, away>>

\* connect_error: another attempt is scheduled until there were too many.
Refused(t) ==
    /\ tab[t].state = "connecting"
    /\ tab' = [tab EXCEPT ![t].state = "disconnected", ![t].attempts = tab[t].attempts + 1,
                          ![t].timer = (tab[t].attempts + 1 < MaxAttempts)]
    /\ UNCHANGED roomServerVars

\* The connection drops: the server forgets the socket.  The tab only shows it;
\* the client's own reconnection is switched off and no timer is set.
Dropped(t) ==
    /\ tab[t].state = "connected"
    /\ tab' = [tab EXCEPT ![t].state = "disconnected"]
    /\ Forget(t)

\* joinGroupRoom, whatever the tab has asked for before.
AskForRoom(t) ==
    /\ Under(t) < MaxJoins
    /\ tab' = [tab EXCEPT ![t].wants = TRUE]
    /\ IF tab[t].state = "connected"
       THEN /\ joining' = [joining EXCEPT ![t].asked = @ + 1]
            /\ away' = away \ {t}
       ELSE UNCHANGED <<joining, away>>
    /\ UNCHANGED <<memberVars, inRoom, crossed>>

\* leaveGroupRoom.  The leave-group handler has no await in it: it takes the socket
\* out of the room, or refuses it because of too many requests, and overtakes a
\* join-group whose query is awaited.
LeaveRoom(t) ==
    /\ tab' = [tab EXCEPT ![t].wants = FALSE]
    /\ \/ inRoom' = inRoom \ {t} /\ crossed' = crossed \ {t} /\ away' = away \ {t}
       \/ UNCHANGED <<inRoom, crossed, away>>
    /\ UNCHANGED <<memberVars, joining>>

\* join-group asks the database first.
QueryMember(t) ==
    /\ joining[t].asked > 0 /\ isMember
    /\ joining' = [joining EXCEPT ![t].asked = @ - 1, ![t].found = @ + 1]
    /\ UNCHANGED <<memberVars, tab, inRoom, crossed, away>>

\* No row, too many requests, or a query that fails: the error goes to a tab that
\* ignores it.
JoinRefused(t) ==
    /\ joining[t].asked > 0
    /\ joining' = [joining EXCEPT ![t].asked = @ - 1]
    /\ away' = away \cup ({t} \ inRoom)
    /\ UNCHANGED <<memberVars, tab, inRoom, crossed>>

JoinGroup(t) ==
    /\ joining[t].found > 0 /\ joining' = [joining EXCEPT ![t].found = @ - 1]
    /\ inRoom' = inRoom \cup {t} /\ away' = away \ {t}
    /\ crossed' = IF isMember THEN crossed ELSE crossed \cup {t}
    /\ UNCHANGED <<memberVars, tab>>

\* The sockets of E leave the room.
Evict(E) ==
    /\ evictions > 0 /\ evictions' = evictions - 1
    /\ inRoom' = inRoom \ E /\ crossed' = crossed \ E /\ away' = away \cup E
    /\ UNCHANGED <<isMember, removals, tab, joining>>

\* Fault: only one socket of the user is told to leave.
EvictOne == Evict(IF inRoom = {} THEN {} ELSE {CHOOSE t \in inRoom : TRUE})

\* evictUserFromGroup: every socket of the user that has the group.
EvictUser == Evict(inRoom)

\* DELETE /groups/:id/members/:userId or /leave commits.
MembershipEnds ==
    /\ isMember /\ removals < MaxRemovals
    /\ isMember' = FALSE /\ evictions' = evictions + 1 /\ removals' = removals + 1
    /\ UNCHANGED <<tab, joining, inRoom, crossed, away>>

\* A new invitation is taken up.
MembershipReturns ==
    /\ ~isMember /\ isMember' = TRUE /\ crossed' = {}
    /\ UNCHANGED <<evictions, removals, tab, joining, inRoom, away>>

\* The server restarts, onClose: every socket is gone.
CloseServer ==
    /\ tab' = [t \in Tabs |-> IF tab[t].state = "connected"
                              THEN [tab[t] EXCEPT !.state = "disconnected"] ELSE tab[t]]
    /\ joining' = [t \in Tabs |-> NoJoins] /\ evictions' = 0
    /\ inRoom' = {} /\ crossed' = {} /\ away' = {}
    /\ UNCHANGED <<isMember, removals>>

RoomsNext ==
    \/ \E t \in Tabs :
        \/ Reconnect(t) \/ Refused(t) \/ ReplaceSocket(t) \/ LoggedOut(t) \/ Dropped(t)
        \/ AskForRoom(t) \/ LeaveRoom(t)
        \/ SocketOpens(t) \/ QueryMember(t) \/ JoinRefused(t) \/ JoinGroup(t)
    \/ EvictUser \/ MembershipEnds \/ MembershipReturns \/ CloseServer

RoomsSpec == RoomsInit /\ [][RoomsNext]_roomVars

\* After the evictions no socket of a user who is out of the group hears it,
\* however many tabs there are and whatever they were asking for, save one whose
\* membership was read before the removal: that one joins after the eviction
\* (evictUserFromGroup against the await of join-group).
EvictedHearNothing == ~isMember /\ evictions = 0 => inRoom \subseteq crossed

\* A connected tab that shows a group is in its room, or on its way into it, unless
\* the server refused it or took it out since it last asked: the room asked for
\* survives drops, replaced sockets, restarts and leaves that a join overtakes
\* (joinedRooms, the "connect" handler, join-group).
WantedRoomIsJoined ==
    \A t \in Tabs :
        tab[t].state = "connected" /\ tab[t].wants /\ Under(t) = 0 => t \in inRoom \cup away
=============================================================================

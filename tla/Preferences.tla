----------------------------- MODULE Preferences -----------------------------
(***************************************************************************)
(* The notification settings of the accounts that share some browsers: the *)
(* page (web pages/settings/NotificationPreferencesSettings.tsx), the      *)
(* preferences and push subscriptions behind it (backend routes/           *)
(* notifications.ts, services/webPush.ts, web lib/pushNotifications.ts),   *)
(* and the pushes they let through.                                        *)
(***************************************************************************)
EXTENDS Naturals, Sequences, FiniteSets

CONSTANTS
    Owners,    \* accounts
    Machines,  \* browsers, each with the page of one account at a time
    Kinds,     \* categories of notifications
    Nobody_,   \* no account
    MaxSettings, \* bound: times a page is opened, endpoints of a browser
    MaxPuts      \* bound: times preferences are sent

ASSUME PreferencesAssumption ==
    Nobody_ \notin Owners /\ MaxSettings \in Nat /\ MaxPuts \in Nat

VARIABLES
    prefs,      \* notification_preferences of each account
    endpoints,  \* push_subscriptions_web: account, browser, and which endpoint of it
    machine,    \* each browser: its account, its endpoint, 0 if it has none, the page
    opened, wanted, \* history: pages opened, browsers on which an account enabled push
    request,    \* the requests that pages sent, in the order in which they were sent
    last,       \* history: the request that changed each account last, 0 if none did
    pushed      \* history: the last push: whose it was, the browsers it reached

preferencesVars == <<prefs, endpoints, machine, request, opened, wanted, last, pushed>>

\* The two times of the quiet hours are both missing, as typed (HH:MM), or as the
\* database gives them back (HH:MM:SS).
Times == {"missing", "typed", "given"}

\* DEFAULT_PREFS, which are also the defaults of the columns; there is no row yet.
Defaults == [row |-> FALSE, push |-> TRUE, off |-> {}, quiet |-> FALSE, times |-> "missing"]
Settings == [row : BOOLEAN, push : BOOLEAN, off : SUBSET Kinds, quiet : BOOLEAN, times : Times]

\* A page that shows nothing; `sent` is the request that it sent last.
ClosedPage == [page |-> "closed", shown |-> Defaults, saving |-> FALSE, sent |-> 0]
Closed == [account |-> Nobody_, endpoint |-> 0, issued |-> 0, page |-> ClosedPage]
NoPush == [of |-> Nobody_, to |-> {}]

PreferencesTypeOK ==
    /\ prefs \in [Owners -> Settings] /\ endpoints \subseteq Owners \X Machines \X (1..MaxSettings)
    /\ request \in Seq([of : Owners, body : Settings, state : {"sent", "stored", "refused"}])
    /\ Len(request) <= MaxPuts /\ last \in [Owners -> 0..Len(request)]
    /\ \A b \in Machines : machine[b].page \in
            [page : {"closed", "open", "saved", "error"}, shown : Settings,
             saving : BOOLEAN, sent : 0..Len(request)]
    /\ opened \in 0..MaxSettings

PreferencesInit ==
    /\ prefs \in [Owners -> {Defaults} \cup
                [row : {TRUE}, push : BOOLEAN, off : {{}, Kinds}, quiet : BOOLEAN, times : {"given"}]]
    /\ endpoints = {}
    /\ machine = [b \in Machines |-> Closed]
    /\ request = <<>> /\ last = [u \in Owners |-> 0]
    /\ opened = 0 /\ wanted = {} /\ pushed = NoPush

PageOf(b) == machine[b].page
SetPage(b, page) == machine' = [machine EXCEPT ![b].page = page]

-----------------------------------------------------------------------------
(* The page.                                                               *)

EnterAccount(b, u) ==
    /\ machine[b].account = Nobody_ /\ machine' = [machine EXCEPT ![b].account = u]
    /\ UNCHANGED <<prefs, endpoints, request, opened, wanted, last, pushed>>

\* Logging out does not unsubscribe.
LeaveAccount(b) ==
    /\ machine[b].account # Nobody_
    /\ machine' = [machine EXCEPT ![b].account = Nobody_, ![b].page = ClosedPage]
    /\ UNCHANGED <<prefs, endpoints, request, opened, wanted, last, pushed>>

\* Accounts without a row get the defaults from the server; a page that cannot load the
\* preferences shows the same.
LoadedPreferences(u) == {prefs[u], Defaults}

OpenSettings(b) ==
    /\ machine[b].account # Nobody_ /\ PageOf(b).page = "closed"
    /\ opened < MaxSettings /\ opened' = opened + 1
    /\ \E shown \in LoadedPreferences(machine[b].account) :
        SetPage(b, [ClosedPage EXCEPT !.page = "open", !.shown = shown])
    /\ UNCHANGED <<prefs, endpoints, request, wanted, last, pushed>>

\* A request that the page has sent is on its way all the same.
CloseSettings(b) ==
    /\ PageOf(b).page # "closed" /\ SetPage(b, ClosedPage)
    /\ UNCHANGED <<prefs, endpoints, request, opened, wanted, last, pushed>>

\* What a click makes of the settings shown.
Edited(p) ==
    {[p EXCEPT !.push = ~p.push], [p EXCEPT !.quiet = ~p.quiet]}
      \cup {[p EXCEPT !.times = t] : t \in {"missing", "typed"}}
      \cup {[p EXCEPT !.off = off] : off \in {p.off \ {k} : k \in Kinds} \cup {p.off \cup {k} : k \in Kinds}}

\* toggle, setTime: also while the answer of a save is awaited; what the page says of
\* the last save stays on it.
Edit(b) ==
    /\ PageOf(b).page # "closed"
    /\ \E shown \in Edited(PageOf(b).shown) : SetPage(b, [PageOf(b) EXCEPT !.shown = shown])
    /\ UNCHANGED <<prefs, endpoints, request, opened, wanted, last, pushed>>

\* handleSave sends everything but the categories that are as in the defaults.
handleSave(b) ==
    /\ PageOf(b).page # "closed" /\ ~PageOf(b).saving /\ Len(request) < MaxPuts
    /\ request' = Append(request, [of |-> machine[b].account, body |-> PageOf(b).shown,
                                   state |-> "sent"])
    /\ SetPage(b, [page |-> "open", shown |-> PageOf(b).shown, saving |-> TRUE,
                   sent |-> Len(request) + 1])
    /\ UNCHANGED <<prefs, endpoints, opened, wanted, last, pushed>>

\* Times that are null become empty strings on their way, which the columns refuse.
\* The route refuses seconds, and the other columns of a row, which a page that loaded
\* one sends along.
Accepted(body) == body.times = "typed" /\ ~body.row

\* updatePreferences: columns that the body does not name keep their values.
Updated(row, body) ==
    [row |-> TRUE, push |-> body.push, quiet |-> body.quiet, times |-> "given",
     off |-> row.off \cup body.off]

\* PUT /preferences, which may also fail on its own account.
PutPreferences(n) ==
    /\ request[n].state = "sent"
    /\ LET u == request[n].of
           body == request[n].body
       IN  \/ /\ Accepted(body) /\ prefs' = [prefs EXCEPT ![u] = Updated(@, body)]
              /\ last' = [last EXCEPT ![u] = n]
              /\ request' = [request EXCEPT ![n].state = "stored"]
           \/ request' = [request EXCEPT ![n].state = "refused"] /\ UNCHANGED <<prefs, last>>
    /\ UNCHANGED <<endpoints, machine, opened, wanted, pushed>>

\* The page that waits for it has the answer, or an error: the request, or its answer,
\* may be lost, and the request may also arrive after all.
SaveAnswered(b) ==
    /\ PageOf(b).saving
    /\ \E says \in {"error"} \cup
                   IF request[PageOf(b).sent].state = "stored" THEN {"saved"} ELSE {} :
        SetPage(b, [PageOf(b) EXCEPT !.page = says, !.saving = FALSE])
    /\ UNCHANGED <<prefs, endpoints, request, opened, wanted, last, pushed>>

-----------------------------------------------------------------------------
(* Subscriptions and pushes.                                               *)

\* The endpoint that the browser has, or a new one.
subscribeToPush(b) == IF machine[b].endpoint > 0 THEN machine[b].endpoint ELSE machine[b].issued + 1

subscribe(u, b, nth) == endpoints \cup {<<u, b, nth>>}

\* initializePushNotifications: the browser keeps its endpoint for whoever is signed in,
\* and the server may not hear of it.
EnablePush(b) ==
    LET u == machine[b].account
        nth == subscribeToPush(b)
    IN  /\ u # Nobody_ /\ nth <= MaxSettings /\ wanted' = wanted \cup {<<u, b>>}
        /\ machine' = [machine EXCEPT ![b].endpoint = nth, ![b].issued = nth]
        /\ endpoints' \in {endpoints, subscribe(u, b, nth)}
        /\ UNCHANGED <<prefs, request, opened, last, pushed>>

\* The browser drops its endpoint: the user clears it, or takes the permission back.
Expires(b) ==
    /\ machine[b].endpoint > 0 /\ machine' = [machine EXCEPT ![b].endpoint = 0]
    /\ UNCHANGED <<prefs, endpoints, request, opened, wanted, last, pushed>>

\* A row that does not name the category lets it through.
ShouldSend(row, kind) == row.push /\ kind \notin row.off

\* The quiet hours count when both times are set.
Quiet(row, night) == row.quiet /\ row.times # "missing" /\ night

getSubscriptions(u) == {e \in endpoints : e[1] = u}

removeSubscriptionsByEndpoint(gone) == endpoints \ gone

\* sendWebPush: a push of a budget alert or reminder of the account itself.  The
\* push service answers 410 for endpoints that are gone, whose rows are removed.
PushSent(u, kind, night) ==
    /\ ShouldSend(prefs[u], kind) /\ ~Quiet(prefs[u], night)
    /\ LET subscriptions == getSubscriptions(u)
           live == {e \in subscriptions : machine[e[2]].endpoint = e[3]}
       IN  /\ subscriptions # {}
           /\ \E to \in SUBSET {e[2] : e \in live} : pushed' = [of |-> u, to |-> to]
           /\ endpoints' = removeSubscriptionsByEndpoint(subscriptions \ live)
    /\ UNCHANGED <<prefs, machine, request, opened, wanted, last>>

Entering(b) == LeaveAccount(b) \/ \E u \in Owners : EnterAccount(b, u)

SettingsNext ==
    \/ \E b \in Machines : \/ Entering(b) \/ OpenSettings(b) \/ CloseSettings(b) \/ Edit(b)
                           \/ handleSave(b) \/ SaveAnswered(b)
    \/ \E n \in DOMAIN request : PutPreferences(n)

PushNext ==
    \/ \E b \in Machines : Entering(b) \/ EnablePush(b) \/ Expires(b)
    \/ \E u \in Owners, kind \in Kinds, night \in BOOLEAN : PushSent(u, kind, night)

PreferencesSpec == PreferencesInit /\ [][SettingsNext \/ PushNext]_preferencesVars

-----------------------------------------------------------------------------
\* A page that says it saved shows what holds for its account, as long as it shows
\* what it sent and no other request was stored after it, whatever requests of closed
\* pages and other browsers still arrive.  (Edited while its answer was awaited, or
\* since, it says that it saved over settings that it never sent.)  A category that it
\* shows as on may be off all the same: turning it on again is never sent.
SavedIsShown ==
    \A b \in Machines :
        LET p == PageOf(b)
            row == prefs[machine[b].account]
        IN  /\ p.page = "saved"
            /\ p.shown = request[p.sent].body
            /\ last[machine[b].account] = p.sent
            => row.row /\ p.shown.push = row.push /\ p.shown.quiet = row.quiet
               /\ p.shown.off \subseteq row.off

\* A push goes to browsers on which its account asked for pushes, and to no others,
\* also when they are shared; and each endpoint that is left is one of a browser on
\* which its account asked for them.
PushesWanted ==
    {<<pushed.of, b>> : b \in pushed.to} \cup {<<e[1], e[2]>> : e \in endpoints} \subseteq wanted
=============================================================================

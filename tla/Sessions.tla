------------------------------ MODULE Sessions ------------------------------
(***************************************************************************)
(* The sessions of one user: the refresh tokens of the server             *)
(* (services/tokenService.ts, routes/auth.ts) and the tabs that share one  *)
(* cookie jar and one local storage (stores/authStore.ts,                  *)
(* lib/apiClient.ts, lib/tabSync.ts).                                      *)
(*                                                                         *)
(* A token is a number, 0 is "none"; a login begins a session, and every   *)
(* rotation of a token stays in the session of the token it replaces.  An  *)
(* access JWT has the number of the refresh token issued with it.          *)
(* Left out: the 30 days after which a refresh token and an idle tab       *)
(* expire, two-factor logins, and the keys of the user's data.             *)
(***************************************************************************)
EXTENDS Naturals, FiniteSets

CONSTANTS
    Tabs,        \* tabs of the user
    Browsers,    \* cookie jars with their local storage
    BrowserOf,   \* the browser of each tab
    MaxAttempts, \* MAX_ATTEMPTS of refreshToken, 3 in the code
    MaxTokens,   \* bound: tokens issued in a behaviour
    MaxLogins,   \* bound: sessions begun in a behaviour
    MaxFaults    \* bound: lost answers and failed inserts in a behaviour

ASSUME TabsAssumption == BrowserOf \in [Tabs -> Browsers]
ASSUME BoundsAssumption ==
    /\ MaxAttempts \in Nat \ {0}
    /\ MaxTokens \in Nat /\ MaxLogins \in Nat /\ MaxFaults \in Nat

VARIABLES
    status,    \* refresh_tokens: what is known of each token
    session,   \* the login each token descends from
    issued,    \* tokens allocated so far
    logins,    \* sessions begun so far
    barred,    \* the account is locked, suspended or banned
    stale,     \* access JWTs up to this one have expired
    cookie,    \* browser -> the refresh token of its cookie
    store,     \* browser -> the access JWT of coldfi:auth
    tab,       \* tab -> its auth store
    ref,       \* tab -> its refresh under way
    out,       \* tab -> its logout under way
    signin,    \* tab -> the token in the answer of its login
    bye,       \* tabs with an undelivered 'logout' message
    faults,    \* faults so far
    revoked,   \* history: sessions that a revocation aimed at
    missed,    \* history: those of them that it left a token: its INSERT was
               \* under way, or the token of a logout had been exchanged
    orphaned   \* history: sessions whose newest token reached no browser

server == <<status, session, issued, logins, barred>>
history == <<faults, revoked, missed, orphaned>>
vars == <<server, stale, cookie, store, tab, ref, out, signin, bye, history>>

Tokens == 1..MaxTokens
Sessions == 1..MaxLogins
TokenOrNone == Tokens \cup {0}

IdleRefresh ==
    [step |-> "idle", by |-> "api", attempt |-> 0, presented |-> 0, child |-> 0]
IdleLogout == [step |-> "idle", bearer |-> 0, presented |-> 0]

\* AppLayout is shown, so the tab calls the API and listens to the channel.
Mounted(t) == tab[t].authed /\ tab[t].init

\* The access JWT i has not expired.
Fresh(i) == i > stale

\* A token that is, or is about to be, accepted by the server.
Active(i) == status[i] \in {"issuing", "live"}

TypeOK ==
    /\ status \in [Tokens -> {"none", "issuing", "live", "revoked"}]
    /\ session \in [Tokens -> Sessions \cup {0}]
    /\ issued \in 0..MaxTokens /\ logins \in 0..MaxLogins
    /\ barred \in BOOLEAN /\ stale \in 0..MaxTokens
    /\ cookie \in [Browsers -> TokenOrNone]
    /\ store \in [Browsers -> TokenOrNone]
    /\ tab \in [Tabs -> [access : TokenOrNone, authed : BOOLEAN,
                         init : BOOLEAN, expired : BOOLEAN]]
    /\ ref \in [Tabs -> [step : {"idle", "flight", "issued", "reused",
                                 "refused", "busy", "backoff"},
                         by : {"api", "init"}, attempt : 0..MaxAttempts,
                         presented : TokenOrNone, child : TokenOrNone]]
    /\ out \in [Tabs -> [step : {"idle", "sent", "accepted", "rejected"},
                         bearer : TokenOrNone, presented : TokenOrNone]]
    /\ signin \in [Tabs -> TokenOrNone]
    /\ bye \subseteq Tabs
    /\ faults \in 0..MaxFaults
    /\ revoked \subseteq Sessions /\ missed \subseteq revoked /\ orphaned \subseteq Sessions

Init ==
    /\ status = [i \in Tokens |-> "none"] /\ session = [i \in Tokens |-> 0]
    /\ issued = 0 /\ logins = 0 /\ barred = FALSE /\ stale = 0
    /\ cookie = [b \in Browsers |-> 0] /\ store = [b \in Browsers |-> 0]
    /\ tab = [t \in Tabs |-> [access |-> 0, authed |-> FALSE,
                              init |-> TRUE, expired |-> FALSE]]
    /\ ref = [t \in Tabs |-> IdleRefresh]
    /\ out = [t \in Tabs |-> IdleLogout]
    /\ signin = [t \in Tabs |-> 0]
    /\ bye = {}
    /\ faults = 0 /\ revoked = {} /\ missed = {} /\ orphaned = {}

-----------------------------------------------------------------------------
(* The server *)

\* The sessions of the tokens of S that the server accepts, or is about to.
SessionsOf(S) == {session[i] : i \in {j \in S : Active(j)}}

\* What "UPDATE refresh_tokens SET revoked_at = NOW() ... AND revoked_at IS
\* NULL" does to the rows of S; a token whose INSERT has not run has no row.
\* Meant are all sessions with a token in S.
RevokeRows(S) ==
    LET rows == {i \in S : status[i] = "live"}
        aimed == {session[i] : i \in S} \cap SessionsOf(Tokens)
    IN
    /\ status' = [i \in Tokens |-> IF i \in rows THEN "revoked" ELSE status[i]]
    /\ revoked' = revoked \cup aimed
    /\ missed' = (missed \ aimed) \cup (aimed \cap SessionsOf(Tokens \ rows))

\* POST /login: the answer with the new token is on its way to the tab.
LoginServer(t) ==
    /\ ~tab[t].authed /\ signin[t] = 0 /\ ~barred
    /\ issued < MaxTokens /\ logins < MaxLogins
    /\ issued' = issued + 1 /\ logins' = logins + 1
    /\ status' = [status EXCEPT ![issued + 1] = "live"]
    /\ session' = [session EXCEPT ![issued + 1] = logins + 1]
    /\ signin' = [signin EXCEPT ![t] = issued + 1]
    /\ UNCHANGED <<barred, stale, cookie, store, tab, ref, out, bye, history>>

\* Fault: a token revoked a moment ago, which may be a benign race, is
\* exchanged all the same.
GracePeriod(t) ==
    LET c == ref[t].presented IN
    /\ ref[t].step = "flight" /\ c # 0 /\ ~barred /\ issued < MaxTokens
    /\ issued' = issued + 1
    /\ status' = [status EXCEPT ![c] = "revoked", ![issued + 1] = "issuing"]
    /\ session' = [session EXCEPT ![issued + 1] = session[c]]
    /\ ref' = [ref EXCEPT ![t].step = "issued", ![t].presented = 0,
                          ![t].child = issued + 1]
    /\ UNCHANGED <<logins, barred, stale, cookie, store, tab, out, signin, bye,
                   history>>

\* Fault: the old token is not revoked.
NeverRotates(t) ==
    LET c == ref[t].presented IN
    /\ ref[t].step = "flight" /\ c # 0 /\ status[c] = "live"
    /\ ~barred /\ issued < MaxTokens
    /\ issued' = issued + 1
    /\ status' = [status EXCEPT ![issued + 1] = "issuing"]
    /\ session' = [session EXCEPT ![issued + 1] = session[c]]
    /\ ref' = [ref EXCEPT ![t].step = "issued", ![t].presented = 0,
                          ![t].child = issued + 1]
    /\ UNCHANGED <<logins, barred, stale, cookie, store, tab, out, signin, bye,
                   history>>

\* The transaction of refreshAccessToken.  Its SELECT ... FOR UPDATE holds
\* the row of the token to the commit, so that it is one step; the INSERT of
\* generateTokens follows the commit and is a step of its own.  The token
\* reused after more than 60 s is no case apart: the throw rolls the
\* revocation of the other tokens back.
RefreshServer(t) ==
    LET c == ref[t].presented
        found(s) == c \in Tokens /\ status[c] = s
        answer(step) == ref' = [ref EXCEPT ![t].step = step, ![t].presented = 0]
    IN
    /\ ref[t].step = "flight"
    /\ \/ /\ found("revoked")
          /\ answer("reused")
          /\ UNCHANGED <<status, session, issued>>
       \/ /\ c = 0 \/ (found("live") /\ barred)
          /\ answer("refused")
          /\ UNCHANGED <<status, session, issued>>
       \/ /\ found("live") /\ ~barred /\ issued < MaxTokens
          /\ issued' = issued + 1
          /\ status' = [status EXCEPT ![c] = "revoked", ![issued + 1] = "issuing"]
          /\ session' = [session EXCEPT ![issued + 1] = session[c]]
          /\ ref' = [ref EXCEPT ![t].step = "issued", ![t].presented = 0,
                                ![t].child = issued + 1]
    /\ UNCHANGED <<logins, barred, stale, cookie, store, tab, out, signin, bye,
                   history>>

\* The INSERT of generateTokens after a rotation.
InsertToken(i) ==
    /\ status[i] = "issuing"
    /\ status' = [status EXCEPT ![i] = "live"]
    /\ UNCHANGED <<session, issued, logins, barred, stale, cookie, store, tab,
                   ref, out, signin, bye, history>>

\* The INSERT fails: the old token stays revoked and the answer is a 500.
InsertFails(i) ==
    /\ status[i] = "issuing" /\ faults < MaxFaults
    /\ faults' = faults + 1
    /\ status' = [status EXCEPT ![i] = "revoked"]
    /\ orphaned' = orphaned \cup {session[i]}
    /\ ref' = [t \in Tabs |-> IF ref[t].step = "issued" /\ ref[t].child = i
                              THEN [ref[t] EXCEPT !.step = "busy", !.child = 0] ELSE ref[t]]
    /\ UNCHANGED <<session, issued, logins, barred, stale, cookie, store, tab,
                   out, signin, bye, revoked, missed>>

\* logoutAllDevices, changePassword, /recover/complete and forceLogoutUser.
RevokeAll ==
    /\ SessionsOf(Tokens) # {}
    /\ RevokeRows(Tokens)
    /\ UNCHANGED <<session, issued, logins, barred, stale, cookie, store, tab,
                   ref, out, signin, bye, faults, orphaned>>

\* suspendUser and banUser.
RestrictUser ==
    /\ ~barred /\ barred' = TRUE
    /\ RevokeRows(Tokens)
    /\ UNCHANGED <<session, issued, logins, stale, cookie, store, tab, ref,
                   out, signin, bye, faults, orphaned>>

\* restoreUser.
Restore ==
    /\ barred /\ barred' = FALSE
    /\ UNCHANGED <<status, session, issued, logins, stale, cookie, store, tab,
                   ref, out, signin, bye, history>>

\* POST /logout: only a valid JWT of an unrestricted user revokes the token
\* of the cookie.
LogoutServer(t) ==
    /\ out[t].step = "sent"
    /\ \/ /\ Fresh(out[t].bearer) /\ ~barred
          /\ RevokeRows({out[t].presented} \cap Tokens)
          /\ out' = [out EXCEPT ![t] = [IdleLogout EXCEPT !.step = "accepted"]]
       \/ /\ ~Fresh(out[t].bearer) \/ barred
          /\ out' = [out EXCEPT ![t] = [IdleLogout EXCEPT !.step = "rejected"]]
          /\ UNCHANGED <<status, revoked, missed>>
    /\ UNCHANGED <<session, issued, logins, barred, stale, cookie, store, tab,
                   ref, signin, bye, faults, orphaned>>

\* Access JWTs live equally long, so that they expire in the order of issue.
AccessExpires ==
    /\ stale < issued /\ stale' = stale + 1
    /\ UNCHANGED <<server, cookie, store, tab, ref, out, signin, bye, history>>

-----------------------------------------------------------------------------
(* A tab: login and page load *)

LoginAnswer(t) ==
    /\ signin[t] # 0
    /\ signin' = [signin EXCEPT ![t] = 0]
    /\ cookie' = [cookie EXCEPT ![BrowserOf[t]] = signin[t]]
    /\ store' = [store EXCEPT ![BrowserOf[t]] = signin[t]]
    /\ tab' = [tab EXCEPT ![t] = [access |-> signin[t], authed |-> TRUE,
                                  init |-> TRUE, expired |-> FALSE]]
    /\ UNCHANGED <<server, stale, ref, out, bye, history>>

\* The answer is lost; authFetch, or the user, tries again.
LoginLost(t) ==
    /\ signin[t] # 0 /\ faults < MaxFaults
    /\ faults' = faults + 1
    /\ signin' = [signin EXCEPT ![t] = 0]
    /\ orphaned' = orphaned \cup {session[signin[t]]}
    /\ UNCHANGED <<server, stale, cookie, store, tab, ref, out, bye, revoked, missed>>

\* A refresh request with the cookie of the moment.
Flight(t, by, attempt) ==
    [step |-> "flight", by |-> by, attempt |-> attempt,
     presented |-> cookie[BrowserOf[t]], child |-> 0]

\* The page is loaded again, whatever the tab was waiting for: initialize.
Reload(t) ==
    LET b == BrowserOf[t]
        known == Fresh(store[b])
    IN
    /\ tab' = [tab EXCEPT ![t] =
                [access |-> IF known THEN store[b] ELSE 0, authed |-> known,
                 init |-> known, expired |-> FALSE]]
    /\ ref' = [ref EXCEPT ![t] = IF known THEN IdleRefresh ELSE Flight(t, "init", 1)]
    /\ out' = [out EXCEPT ![t] = IdleLogout]
    /\ signin' = [signin EXCEPT ![t] = 0]
    /\ bye' = bye \ {t}
    /\ orphaned' = orphaned
         \cup (IF ref[t].step = "issued" THEN {session[ref[t].child]} ELSE {})
         \cup (IF signin[t] # 0 THEN {session[signin[t]]} ELSE {})
    /\ UNCHANGED <<server, stale, cookie, store, faults, revoked, missed>>

-----------------------------------------------------------------------------
(* A tab: refreshToken *)

\* apiClient meets a 401.  The stored profile of another tab spares the call.
StartRefresh(t) ==
    LET b == BrowserOf[t] IN
    /\ Mounted(t) /\ ref[t].step = "idle"
    /\ ~Fresh(tab[t].access) /\ ~tab[t].expired
    /\ IF Fresh(store[b])
       THEN /\ tab' = [tab EXCEPT ![t].access = store[b]]
            /\ UNCHANGED ref
       ELSE /\ ref' = [ref EXCEPT ![t] = Flight(t, "api", 1)]
            /\ UNCHANGED tab
    /\ UNCHANGED <<server, stale, cookie, store, out, signin, bye, history>>

\* Fault: the route forgets to set the cookie.
AnswerWithoutCookie(t) ==
    /\ ref[t].step = "issued" /\ status[ref[t].child] # "issuing"
    /\ store' = [store EXCEPT ![BrowserOf[t]] = ref[t].child]
    /\ tab' = [tab EXCEPT ![t].access = ref[t].child, ![t].authed = TRUE,
                          ![t].init = @ \/ ref[t].by = "init"]
    /\ ref' = [ref EXCEPT ![t] = IdleRefresh]
    /\ UNCHANGED <<server, stale, cookie, out, signin, bye, history>>

\* The answer of a rotation arrives, whatever became of the tab meanwhile.
RefreshAnswer(t) ==
    LET i == ref[t].child
        b == BrowserOf[t]
    IN
    /\ ref[t].step = "issued" /\ status[i] # "issuing"
    /\ cookie' = [cookie EXCEPT ![b] = i]
    /\ store' = [store EXCEPT ![b] = i]
    /\ tab' = [tab EXCEPT ![t].access = i, ![t].authed = TRUE,
                          ![t].init = @ \/ ref[t].by = "init"]
    /\ ref' = [ref EXCEPT ![t] = IdleRefresh]
    /\ UNCHANGED <<server, stale, out, signin, bye, history>>

\* The fetch fails at the network, before or after the server has acted.
RefreshLost(t) ==
    /\ \/ ref[t].step = "flight"
       \/ ref[t].step = "issued" /\ status[ref[t].child] # "issuing"
    /\ faults < MaxFaults
    /\ faults' = faults + 1
    /\ orphaned' = orphaned
         \cup (IF ref[t].step = "issued" THEN {session[ref[t].child]} ELSE {})

\* What is left of a refresh that fails for good.  A refusal clears the tab
\* and the storage of the browser, also when another tab has stored a valid
\* profile there: the profile is restored first, and then compared with
\* itself.  Unless the page was being loaded, apiClient then logs out a tab
\* left without an access token.
GiveUp(t, refused) ==
    LET b == BrowserOf[t]
        known == Fresh(store[b])
        access == IF refused THEN 0 ELSE IF known THEN store[b] ELSE tab[t].access
        leave == ref[t].by = "api" /\ access = 0
    IN
    /\ tab' = [tab EXCEPT ![t] =
                [access |-> access,
                 authed |-> ~refused /\ (known \/ tab[t].authed),
                 init |-> tab[t].init \/ ref[t].by = "init",
                 expired |-> tab[t].expired \/ leave]]
    /\ store' = IF refused THEN [store EXCEPT ![b] = 0] ELSE store
    /\ out' = IF leave /\ out[t].step = "idle"
              THEN [out EXCEPT ![t] = [step |-> "sent", bearer |-> 0,
                                       presented |-> cookie[b]]]
              ELSE out
    /\ ref' = [ref EXCEPT ![t] = IdleRefresh]

\* Fault: one attempt too many.
RetryOnceMore(t) ==
    /\ ref[t].attempt <= MaxAttempts
    /\ ref' = [ref EXCEPT ![t].step = "backoff", ![t].presented = 0, ![t].child = 0]
    /\ UNCHANGED <<tab, store, out>>

Retry(t) ==
    /\ ref[t].attempt < MaxAttempts
    /\ ref' = [ref EXCEPT ![t].step = "backoff", ![t].presented = 0, ![t].child = 0]
    /\ UNCHANGED <<tab, store, out>>

RefreshFails(t) ==
    /\ \/ /\ ref[t].step \in {"reused", "busy"}
          /\ Retry(t) \/ (ref[t].attempt = MaxAttempts /\ GiveUp(t, TRUE))
          /\ UNCHANGED <<faults, orphaned>>
       \/ /\ ref[t].step = "refused"
          /\ GiveUp(t, TRUE)
          /\ UNCHANGED <<faults, orphaned>>
       \/ /\ RefreshLost(t)
          /\ Retry(t) \/ (ref[t].attempt = MaxAttempts /\ GiveUp(t, FALSE))
    /\ UNCHANGED <<server, stale, cookie, signin, bye, revoked, missed>>

\* The wait is over: the next attempt takes the cookie as it is by now.
Resend(t) ==
    /\ ref[t].step = "backoff"
    /\ ref' = [ref EXCEPT ![t] = Flight(t, ref[t].by, ref[t].attempt + 1)]
    /\ UNCHANGED <<server, stale, cookie, store, tab, out, signin, bye, history>>

-----------------------------------------------------------------------------
(* A tab: logout *)

SendLogout(t) ==
    out' = [out EXCEPT ![t] = [step |-> "sent", bearer |-> tab[t].access,
                               presented |-> cookie[BrowserOf[t]]]]

Logout(t) ==
    /\ Mounted(t) /\ out[t].step = "idle"
    /\ SendLogout(t)
    /\ UNCHANGED <<server, stale, cookie, store, tab, ref, signin, bye, history>>

\* After the answer, or without it, the tab clears itself and the storage
\* and tells the other tabs, if its own channel is still open.
LogoutDone(t) ==
    LET b == BrowserOf[t] IN
    /\ \/ out[t].step \in {"accepted", "rejected"} /\ UNCHANGED faults
       \/ out[t].step # "idle" /\ faults < MaxFaults /\ faults' = faults + 1
    /\ cookie' = IF out[t].step = "accepted" /\ faults' = faults
                 THEN [cookie EXCEPT ![b] = 0] ELSE cookie
    /\ store' = [store EXCEPT ![b] = 0]
    /\ tab' = [tab EXCEPT ![t].access = 0, ![t].authed = FALSE, ![t].init = FALSE]
    /\ out' = [out EXCEPT ![t] = IdleLogout]
    /\ bye' = IF Mounted(t)
              THEN bye \cup {u \in Tabs \ {t} : BrowserOf[u] = b /\ Mounted(u)}
              ELSE bye
    /\ UNCHANGED <<server, stale, ref, signin, revoked, missed, orphaned>>

\* useTabSync: a tab that is logging out, or shows no AppLayout, ignores it.
ReceiveLogout(t) ==
    /\ t \in bye
    /\ bye' = bye \ {t}
    /\ IF Mounted(t) /\ out[t].step = "idle" THEN SendLogout(t) ELSE UNCHANGED out
    /\ UNCHANGED <<server, stale, cookie, store, tab, ref, signin, history>>

-----------------------------------------------------------------------------
Next ==
    \/ \E t \in Tabs :
        \/ LoginServer(t) \/ LoginAnswer(t) \/ LoginLost(t) \/ Reload(t)
        \/ StartRefresh(t) \/ RefreshServer(t) \/ RefreshAnswer(t)
        \/ RefreshFails(t) \/ Resend(t)
        \/ Logout(t) \/ LogoutServer(t) \/ LogoutDone(t) \/ ReceiveLogout(t)
    \/ \E i \in Tokens : InsertToken(i) \/ InsertFails(i)
    \/ RevokeAll \/ RestrictUser \/ Restore \/ AccessExpires

Spec == Init /\ [][Next]_vars

-----------------------------------------------------------------------------
(* Properties *)

\* A session never has two tokens the server would accept, however its tabs
\* race for the rotation: a token is exchanged at most once
\* (refreshAccessToken, FOR UPDATE and the check of revoked_at).
OneTokenPerSession ==
    \A i, j \in Tokens :
        Active(i) /\ Active(j) /\ session[i] = session[j] => i = j

\* A session that a logout, a password change, a recovery or an admin ended
\* stays ended, whatever refresh was under way (refreshAccessToken against
\* logoutUser and revokeAllUserTokens).  The exception is a session whose newest
\* token had no row among those that the revocation looked for: its INSERT was
\* still to come (generateTokens follows the commit of the rotation), or a logout
\* presented a token that had just been exchanged.  That one goes on.
RevokedSessionsStayEnded ==
    \A i \in Tokens : Active(i) /\ session[i] \in revoked => session[i] \in missed

\* As long as no answer is lost and nobody has ended the session, the cookie of a
\* browser is a token the server accepts, or a tab of that browser waits for
\* the answer that replaces it: the tabs of a browser never rotate the
\* session away from one another (refreshToken, setRefreshCookie).
CookieFollowsRotation ==
    \A b \in Browsers :
        cookie[b] # 0 /\ session[cookie[b]] \notin (revoked \ missed) \cup orphaned =>
            \/ status[cookie[b]] = "live"
            \/ \E t \in Tabs :
                /\ BrowserOf[t] = b /\ ref[t].step = "issued"
                /\ session[ref[t].child] = session[cookie[b]]
                /\ Active(ref[t].child)

\* "a benign multi-tab/rotation race can never silently log the user out"
\* (authStore.ts, initialize): a tab gives up on reuse only when the session
\* of its cookie was ended or its newest token was lost.
BenignRaceKeepsSession ==
    [][\A t \in Tabs :
        /\ ref[t].step = "reused" /\ ref'[t].step = "idle"
        /\ tab[t].authed /\ ~tab'[t].authed
        /\ cookie[BrowserOf[t]] # 0
        => session[cookie[BrowserOf[t]]] \in (revoked \ missed) \cup orphaned]_vars
=============================================================================

--------------------------- MODULE SessionsProofs ---------------------------
(***************************************************************************)
(* The two promises of the server about refresh tokens, the types, and the *)
(* promise of the tabs about the cookie they share, for any number of      *)
(* tabs, browsers, logins, tokens, attempts and faults; and then the       *)
(* promises about the credentials of an account, for any number of         *)
(* requests, passwords, login attempts and random values.                  *)
(***************************************************************************)
EXTENDS Sessions, Accounts, FiniteSetTheorems, TLAPS

ServerTypes ==
    /\ status \in [Tokens -> {"none", "issuing", "live", "revoked"}]
    /\ session \in [Tokens -> Nat]
    /\ issued \in Nat /\ logins \in Nat

\* Tokens are allocated in order, to sessions that have begun.
Allocated ==
    \A i \in Tokens : Active(i) => i <= issued /\ session[i] <= logins

\* Only a session that has begun can have been revoked, and only a revoked one missed.
RevokedBegun == missed \subseteq revoked /\ \A s \in revoked : s \in Nat /\ s <= logins

\* A token that was ever issued, revoked or not, is of a session that began.
SessionsBegun == \A i \in Tokens : status[i] # "none" => session[i] <= logins

IInv ==
    /\ ServerTypes /\ Allocated /\ SessionsBegun /\ RevokedBegun
    /\ OneTokenPerSession /\ RevokedSessionsStayEnded

LEMMA InitHolds == Init => IInv
  BY BoundsAssumption
  DEF Init, IInv, ServerTypes, Allocated, SessionsBegun, RevokedBegun,
      OneTokenPerSession, RevokedSessionsStayEnded, Active, Tokens

\* What each kind of change to the server keeps.
tokenVars == <<status, session, issued, logins, revoked, missed>>

LEMMA UnchangedKeeps ==
    ASSUME IInv, UNCHANGED tokenVars PROVE IInv'
  BY DEF IInv, tokenVars, ServerTypes, Allocated, SessionsBegun, RevokedBegun,
         OneTokenPerSession, RevokedSessionsStayEnded, Active

\* A login: the new token is the only one of a new session.
LEMMA LoginKeeps ==
    ASSUME IInv, NEW t \in Tabs, LoginServer(t) PROVE IInv'
<1>1. /\ issued + 1 \in Tokens
      /\ status' = [status EXCEPT ![issued + 1] = "live"]
      /\ session' = [session EXCEPT ![issued + 1] = logins + 1]
      /\ issued' = issued + 1 /\ logins' = logins + 1 /\ UNCHANGED <<revoked, missed>>
  BY BoundsAssumption DEF LoginServer, IInv, ServerTypes, Tokens, history
<1>2. \A i \in Tokens : i # issued + 1 =>
        status'[i] = status[i] /\ session'[i] = session[i]
  BY <1>1 DEF IInv, ServerTypes
<1>3. status'[issued + 1] = "live" /\ session'[issued + 1] = logins + 1
  BY <1>1 DEF IInv, ServerTypes
<1>4. ServerTypes' BY <1>1 DEF IInv, ServerTypes
<1>5. Allocated' /\ SessionsBegun' /\ RevokedBegun'
  BY <1>1, <1>2, <1>3
  DEF IInv, ServerTypes, Allocated, SessionsBegun, RevokedBegun, Active, Tokens
<1>6. OneTokenPerSession' /\ RevokedSessionsStayEnded'
  BY <1>1, <1>2, <1>3
  DEF IInv, ServerTypes, Allocated, RevokedBegun, OneTokenPerSession,
      RevokedSessionsStayEnded, Active, Tokens
<1>7. QED BY <1>4, <1>5, <1>6 DEF IInv

\* A rotation: the new token takes the place of the one it revokes.
LEMMA RefreshKeeps ==
    ASSUME IInv, NEW t \in Tabs, RefreshServer(t) PROVE IInv'
<1> DEFINE c == ref[t].presented
<1>1. CASE UNCHANGED tokenVars BY <1>1, UnchangedKeeps
<1>2. CASE /\ c \in Tokens /\ status[c] = "live" /\ issued < MaxTokens
           /\ issued' = issued + 1 /\ UNCHANGED <<logins, revoked, missed>>
           /\ status' = [status EXCEPT ![c] = "revoked", ![issued + 1] = "issuing"]
           /\ session' = [session EXCEPT ![issued + 1] = session[c]]
  <2> HIDE DEF c
  <2>1. issued + 1 \in Tokens /\ c # issued + 1 /\ c <= issued
    BY <1>2, BoundsAssumption DEF IInv, ServerTypes, Allocated, Active, Tokens
  <2>2. \A i \in Tokens : i # issued + 1 =>
          /\ session'[i] = session[i]
          /\ i # c => status'[i] = status[i]
    BY <1>2, <2>1 DEF IInv, ServerTypes
  <2>3. /\ status'[c] = "revoked" /\ status'[issued + 1] = "issuing"
        /\ session'[issued + 1] = session[c]
    BY <1>2, <2>1 DEF IInv, ServerTypes
  <2>4. ServerTypes' BY <1>2, <2>1 DEF IInv, ServerTypes
  <2>5. Allocated' /\ SessionsBegun' /\ RevokedBegun'
    BY <1>2, <2>1, <2>2, <2>3
    DEF IInv, ServerTypes, Allocated, SessionsBegun, RevokedBegun, Active, Tokens
  <2>6. \A i \in Tokens : Active(i)' =>
          \/ i = issued + 1 /\ session'[i] = session[c]
          \/ i # issued + 1 /\ i # c /\ Active(i) /\ session'[i] = session[i]
    BY <2>2, <2>3 DEF Active
  <2>7. Active(c) /\ c \in Tokens BY <1>2 DEF Active
  <2>8. OneTokenPerSession'
    <3> SUFFICES ASSUME NEW i \in Tokens, NEW j \in Tokens, Active(i)', Active(j)',
                        session'[i] = session'[j], i # j
                 PROVE  FALSE
      BY DEF OneTokenPerSession
    <3>1. \/ \E k \in {i, j} : k # c /\ Active(k) /\ session[k] = session[c]
          \/ Active(i) /\ Active(j) /\ session[i] = session[j]
      BY <2>6
    <3>2. QED BY <2>7, <3>1 DEF IInv, OneTokenPerSession
  <2>9. RevokedSessionsStayEnded'
    BY <1>2, <2>6, <2>7 DEF IInv, RevokedSessionsStayEnded
  <2>10. QED BY <2>4, <2>5, <2>8, <2>9 DEF IInv
<1>3. QED BY <1>1, <1>2 DEF RefreshServer, tokenVars, history

\* The INSERT of a rotation, done or failed: no token becomes active.
LEMMA InsertKeeps ==
    ASSUME IInv, NEW i \in Tokens, InsertToken(i) \/ InsertFails(i) PROVE IInv'
<1>1. /\ status[i] = "issuing"
      /\ UNCHANGED <<session, issued, logins, revoked, missed>>
      /\ \E s \in {"live", "revoked"} : status' = [status EXCEPT ![i] = s]
  BY DEF InsertToken, InsertFails, history
<1>2. \A j \in Tokens : Active(j)' => Active(j)
  BY <1>1 DEF IInv, ServerTypes, Active
<1>3. \A j \in Tokens : status'[j] # "none" => status[j] # "none"
  BY <1>1 DEF IInv, ServerTypes
<1>4. QED
  BY <1>1, <1>2, <1>3
  DEF IInv, ServerTypes, Allocated, SessionsBegun, RevokedBegun,
      OneTokenPerSession, RevokedSessionsStayEnded

\* A revocation: the only active token of a session it aims at is revoked, or the
\* session is one that it misses.
LEMMA RevokeKeeps ==
    ASSUME IInv, NEW S \in SUBSET Tokens, RevokeRows(S),
           UNCHANGED <<session, issued, logins>>
    PROVE  IInv'
<1> DEFINE rows == {i \in S : status[i] = "live"}
           aimed == {session[i] : i \in S} \cap SessionsOf(Tokens)
<1>1. \A j \in Tokens : status'[j] =
        IF j \in S /\ status[j] = "live" THEN "revoked" ELSE status[j]
  BY DEF RevokeRows
<1>2. \A j \in Tokens : Active(j)' => Active(j) /\ j \in Tokens \ rows
  BY <1>1 DEF Active
<1>3. /\ revoked' = revoked \cup aimed
      /\ missed' = (missed \ aimed) \cup (aimed \cap SessionsOf(Tokens \ rows))
  BY DEF RevokeRows
<1>4. \A s \in aimed : \E j \in Tokens : Active(j) /\ s = session[j]
  BY DEF SessionsOf
<1>5. ServerTypes' BY <1>1 DEF IInv, ServerTypes, RevokeRows
<1>6. Allocated' /\ SessionsBegun' /\ OneTokenPerSession'
  BY <1>1, <1>2 DEF IInv, Allocated, SessionsBegun, OneTokenPerSession
<1>7. RevokedBegun'
  <2> HIDE DEF aimed, rows
  <2> QED BY <1>3, <1>4 DEF IInv, ServerTypes, RevokedBegun, Allocated
<1>8. RevokedSessionsStayEnded'
  <2> SUFFICES ASSUME NEW k \in Tokens, Active(k)', session[k] \in revoked'
               PROVE  session[k] \in missed'
    BY DEF RevokedSessionsStayEnded
  <2>1. Active(k) /\ session[k] \in SessionsOf(Tokens \ rows)
    BY <1>2 DEF SessionsOf
  <2>2. session[k] \in revoked => session[k] \in missed
    BY <2>1 DEF IInv, RevokedSessionsStayEnded
  <2> HIDE DEF aimed, rows
  <2>3. QED BY <1>3, <2>1, <2>2
<1>9. QED BY <1>5, <1>6, <1>7, <1>8 DEF IInv

LEMMA NextKeeps == IInv /\ [Next]_vars => IInv'
<1> SUFFICES ASSUME IInv, [Next]_vars PROVE IInv'
  OBVIOUS
<1>1. CASE UNCHANGED vars
  BY <1>1, UnchangedKeeps DEF vars, server, history, tokenVars
<1>2. ASSUME NEW t \in Tabs, LoginServer(t) PROVE IInv'
  BY <1>2, LoginKeeps
<1>3. ASSUME NEW t \in Tabs, RefreshServer(t) PROVE IInv'
  BY <1>3, RefreshKeeps
<1>4. ASSUME NEW t \in Tabs, LogoutServer(t) PROVE IInv'
  <2>1. CASE RevokeRows({out[t].presented} \cap Tokens)
    BY <1>4, <2>1, RevokeKeeps DEF LogoutServer
  <2>2. CASE UNCHANGED <<status, revoked, missed>>
    BY <1>4, <2>2, UnchangedKeeps DEF LogoutServer, tokenVars
  <2>3. QED BY <1>4, <2>1, <2>2 DEF LogoutServer
<1>5. ASSUME NEW t \in Tabs,
             LoginAnswer(t) \/ LoginLost(t) \/ Reload(t) \/ StartRefresh(t)
               \/ RefreshAnswer(t) \/ RefreshFails(t) \/ Resend(t)
               \/ Logout(t) \/ LogoutDone(t) \/ ReceiveLogout(t)
      PROVE  IInv'
  <2>1. UNCHANGED tokenVars
    BY <1>5
    DEF LoginAnswer, LoginLost, Reload, StartRefresh, RefreshAnswer,
        RefreshFails, Resend, Logout, LogoutDone, ReceiveLogout, tokenVars,
        server, history
  <2>2. QED BY <2>1, UnchangedKeeps
<1>6. ASSUME NEW i \in Tokens, InsertToken(i) \/ InsertFails(i) PROVE IInv'
  BY <1>6, InsertKeeps
<1>7. CASE RevokeAll \/ RestrictUser
  BY <1>7, RevokeKeeps DEF RevokeAll, RestrictUser
<1>8. CASE Restore \/ AccessExpires
  BY <1>8, UnchangedKeeps DEF Restore, AccessExpires, tokenVars, server, history
<1>9. QED
  BY <1>1, <1>2, <1>3, <1>4, <1>5, <1>6, <1>7, <1>8 DEF Next

LEMMA Invariant == Spec => []IInv
  BY InitHolds, NextKeeps, PTL DEF Spec

\* No session ever has two tokens the server accepts (refreshAccessToken).
THEOREM OneToken == Spec => []OneTokenPerSession
<1>1. IInv => OneTokenPerSession BY DEF IInv
<1>2. QED BY <1>1, Invariant, PTL

\* A session that was revoked never has an accepted token again, except the one
\* whose newest token had no row for the revocation to find: its INSERT was under
\* way, or the logout presented the token before it (refreshAccessToken and
\* generateTokens, logoutUser, revokeAllUserTokens).
THEOREM RevocationIsFinal == Spec => []RevokedSessionsStayEnded
<1>1. IInv => RevokedSessionsStayEnded BY DEF IInv
<1>2. QED BY <1>1, Invariant, PTL

-----------------------------------------------------------------------------
(* The types.  That the session of a token on its way is a session at all   *)
(* takes three facts about where tokens come from.                          *)

RefreshRecords ==
    [step : {"idle", "flight", "issued", "reused", "refused", "busy", "backoff"},
     by : {"api", "init"}, attempt : 0..MaxAttempts,
     presented : TokenOrNone, child : TokenOrNone]

LogoutRecords == [step : {"idle", "sent", "accepted", "rejected"},
                  bearer : TokenOrNone, presented : TokenOrNone]

TabRecords ==
    [access : TokenOrNone, authed : BOOLEAN, init : BOOLEAN, expired : BOOLEAN]

\* A refresh keeps a token only while it waits for the server or for its answer,
\* and waits for another attempt only while attempts are left.
RefreshFits(r) ==
    /\ r.child # 0 <=> r.step = "issued"
    /\ r.presented # 0 => r.step = "flight"
    /\ r.step = "backoff" => r.attempt < MaxAttempts

StepsFit == \A t \in Tabs : RefreshFits(ref[t])

\* Every token that was issued has a number and a session.
AllIssued == \A i \in Tokens : status[i] # "none" => i <= issued /\ session[i] \in 1..logins

\* The browser b, or one of its tabs, holds the token i.
HeldBy(t, i) == i \in {ref[t].presented, ref[t].child, signin[t]}
Holds(b, i) ==
    i # 0 /\ (cookie[b] = i \/ \E t \in Tabs : BrowserOf[t] = b /\ HeldBy(t, i))

\* Only tokens that were issued are held.
HeldWereIssued == \A b \in Browsers, i \in Tokens : Holds(b, i) => status[i] # "none"

TInv == TypeOK /\ StepsFit /\ AllIssued /\ HeldWereIssued

USE TabsAssumption, BoundsAssumption

LEMMA TInvInit == Init => TInv
<1> SUFFICES ASSUME Init PROVE TInv OBVIOUS
<1>1. TypeOK
  <2>1. /\ 0 \in TokenOrNone /\ IdleRefresh \in RefreshRecords
        /\ IdleLogout \in LogoutRecords
        /\ [access |-> 0, authed |-> FALSE, init |-> TRUE, expired |-> FALSE] \in TabRecords
    BY DEF TokenOrNone, IdleRefresh, IdleLogout, RefreshRecords, LogoutRecords, TabRecords
  <2>2. /\ ref \in [Tabs -> RefreshRecords] /\ out \in [Tabs -> LogoutRecords]
        /\ tab \in [Tabs -> TabRecords]
    BY <2>1 DEF Init
  <2>3. /\ status \in [Tokens -> {"none", "issuing", "live", "revoked"}]
        /\ session \in [Tokens -> Sessions \cup {0}] /\ barred \in BOOLEAN
    BY Zenon DEF Init
  <2>4. /\ issued \in 0..MaxTokens /\ logins \in 0..MaxLogins /\ stale \in 0..MaxTokens
        /\ faults \in 0..MaxFaults
    BY DEF Init
  <2>5. /\ cookie \in [Browsers -> TokenOrNone] /\ store \in [Browsers -> TokenOrNone]
        /\ signin \in [Tabs -> TokenOrNone]
        /\ bye = {} /\ revoked = {} /\ missed = {} /\ orphaned = {}
    BY <2>1 DEF Init
  <2>6. QED
    BY <2>2, <2>3, <2>4, <2>5 DEF TypeOK, RefreshRecords, LogoutRecords, TabRecords
<1>2. StepsFit
  BY DEF Init, StepsFit, RefreshFits, IdleRefresh
<1>3. AllIssued BY DEF Init, AllIssued
<1>4. \A b \in Browsers, i \in Tokens : ~Holds(b, i)
  BY DEF Init, Holds, HeldBy, IdleRefresh, Tokens
<1>5. QED BY <1>1, <1>2, <1>3, <1>4 DEF TInv, HeldWereIssued

\* What a step that changes three fields of one refresh leaves.
RefreshOf(f, t, s, p, c) ==
    [f EXCEPT ![t].step = s, ![t].presented = p, ![t].child = c]

LEMMA RefreshEdited ==
    ASSUME ref \in [Tabs -> RefreshRecords], NEW t \in Tabs,
           NEW s \in {"idle", "flight", "issued", "reused", "refused", "busy", "backoff"},
           NEW p \in TokenOrNone, NEW c \in TokenOrNone,
           ref' = RefreshOf(ref, t, s, p, c)
    PROVE  /\ ref' \in [Tabs -> RefreshRecords]
           /\ \A u \in Tabs : u # t => ref'[u] = ref[u]
           /\ ref'[t].step = s /\ ref'[t].presented = p /\ ref'[t].child = c
           /\ ref'[t].attempt = ref[t].attempt
<1> DEFINE r1 == [ref[t] EXCEPT !.step = s]
           r2 == [r1 EXCEPT !.presented = p]
           r3 == [r2 EXCEPT !.child = c]
<1>1. ref[t] \in RefreshRecords OBVIOUS
<1>2. r1 \in RefreshRecords /\ r1.step = s /\ r1.attempt = ref[t].attempt
  BY <1>1 DEF RefreshRecords
<1>3. /\ r2 \in RefreshRecords /\ r2.step = s /\ r2.attempt = ref[t].attempt
      /\ r2.presented = p
  <2> HIDE DEF r1
  <2> QED BY <1>2 DEF RefreshRecords
<1>4. /\ r3 \in RefreshRecords /\ r3.step = s /\ r3.attempt = ref[t].attempt
      /\ r3.presented = p /\ r3.child = c
  <2> HIDE DEF r2
  <2> QED BY <1>3 DEF RefreshRecords
<1>5. ref' = [ref EXCEPT ![t] = r3] BY DEF RefreshOf
<1> HIDE DEF r3
<1>6. QED BY <1>4, <1>5

\* The types of what the tokens do not go through, and of the rest.
PlainTypes ==
    /\ barred \in BOOLEAN /\ stale \in 0..MaxTokens /\ faults \in 0..MaxFaults
    /\ store \in [Browsers -> TokenOrNone] /\ tab \in [Tabs -> TabRecords]
    /\ out \in [Tabs -> LogoutRecords] /\ bye \subseteq Tabs

TokenTypes ==
    /\ status \in [Tokens -> {"none", "issuing", "live", "revoked"}]
    /\ session \in [Tokens -> Sessions \cup {0}]
    /\ issued \in 0..MaxTokens /\ logins \in 0..MaxLogins
    /\ revoked \subseteq Sessions /\ missed \subseteq revoked /\ orphaned \subseteq Sessions
    /\ cookie \in [Browsers -> TokenOrNone] /\ signin \in [Tabs -> TokenOrNone]
    /\ ref \in [Tabs -> RefreshRecords]

LEMMA TypesSplit == TypeOK <=> PlainTypes /\ TokenTypes
  BY DEF TypeOK, PlainTypes, TokenTypes, TabRecords, LogoutRecords, RefreshRecords

-----------------------------------------------------------------------------
(* The way of a token: issued, on its way to a tab, in the cookie of the     *)
(* tab's browser, presented, replaced.                                       *)

\* The tokens of a session are held by one browser only.
OneHome ==
    \A b, c \in Browsers, i, j \in Tokens :
        Holds(b, i) /\ Holds(c, j) /\ session[i] = session[j] => b = c

Delivered(i) ==
    (\E b \in Browsers : cookie[b] = i) \/ \E t \in Tabs : ref[t].presented = i

Lost(i) == session[i] \in (revoked \ missed) \cup orphaned

\* A token on its way to a tab is nowhere else, and is still accepted unless its
\* session was ended.
RotationInTransit(t) ==
    LET i == ref[t].child IN
    i # 0 => /\ ~Delivered(i) /\ (Active(i) \/ Lost(i))
             /\ \A u \in Tabs : signin[u] # i /\ (ref[u].child = i => u = t)

LoginInTransit(t) ==
    LET i == signin[t] IN
    i # 0 => /\ ~Delivered(i) /\ (status[i] = "live" \/ Lost(i))
             /\ \A u \in Tabs : signin[u] = i => u = t

InTransit == \A t \in Tabs : RotationInTransit(t) /\ LoginInTransit(t)

CookieInv ==
    /\ TokenTypes /\ StepsFit /\ AllIssued /\ HeldWereIssued
    /\ OneHome /\ InTransit /\ CookieFollowsRotation

\* What a step of the tab t does with the tokens: it keeps or drops the one it waits
\* for, or puts it into the cookie, and may present the cookie.
MovesTokens(t) ==
    LET b == BrowserOf[t] IN
    /\ UNCHANGED <<status, session, issued, logins, revoked, missed>>
    /\ ref' \in [Tabs -> RefreshRecords] /\ RefreshFits(ref'[t])
    /\ signin' \in [Tabs -> TokenOrNone] /\ cookie' \in [Browsers -> TokenOrNone]
    /\ \A u \in Tabs : u # t => ref'[u] = ref[u] /\ signin'[u] = signin[u]
    /\ \A c \in Browsers : c # b => cookie'[c] = cookie[c]
    /\ ref'[t].child \in {0, ref[t].child} /\ signin'[t] \in {0, signin[t]}
    /\ ref'[t].presented \in {0, ref[t].presented, cookie[b]}
    /\ \/ cookie'[b] \in {0, cookie[b]}
       \/ /\ cookie'[b] = ref[t].child /\ ref'[t].child = 0
          /\ ref[t].child # 0 /\ status[ref[t].child] # "issuing"
       \/ cookie'[b] = signin[t] /\ signin'[t] = 0 /\ signin[t] # 0
    /\ orphaned \subseteq orphaned'
    /\ orphaned' \subseteq orphaned \cup {session[i] : i \in {ref[t].child, signin[t]} \ {0}}
    /\ ref'[t].child # ref[t].child =>
         session[ref[t].child] \in orphaned' \/ cookie'[b] = ref[t].child

LEMMA MovesKeep ==
    ASSUME CookieInv, NEW t \in Tabs, MovesTokens(t) PROVE CookieInv'
<1> DEFINE b == BrowserOf[t]
<1>1. b \in Browsers /\ ref[t] \in RefreshRecords /\ ref'[t] \in RefreshRecords
  BY DEF CookieInv, TokenTypes, MovesTokens
<1>2. /\ ref[t].child \in TokenOrNone /\ ref[t].presented \in TokenOrNone
      /\ signin[t] \in TokenOrNone /\ cookie[b] \in TokenOrNone
  BY <1>1 DEF CookieInv, TokenTypes, RefreshRecords
<1>3. \A c \in Browsers, i \in Tokens : Holds(c, i)' => Holds(c, i)
  BY <1>1 DEF MovesTokens, Holds, HeldBy
<1>4. \A i \in Tokens : Delivered(i)' =>
        \/ Delivered(i)
        \/ i = ref[t].child /\ ref'[t].child = 0
        \/ i = signin[t] /\ signin'[t] = 0
  BY <1>1 DEF MovesTokens, Delivered, Tokens
<1>5. HeldWereIssued' /\ AllIssued'
  BY <1>3 DEF CookieInv, HeldWereIssued, AllIssued, MovesTokens
<1>6. OneHome'
  BY <1>3 DEF CookieInv, OneHome, MovesTokens
<1>7. TokenTypes'
  <2>1. \A i \in {ref[t].child, signin[t]} \ {0} : session[i] \in Sessions
    BY <1>1, <1>2 DEF CookieInv, HeldWereIssued, AllIssued, Holds, HeldBy, TokenTypes,
                      TokenOrNone, Sessions
  <2>2. QED BY <2>1 DEF CookieInv, TokenTypes, MovesTokens
<1>8. StepsFit'
  BY DEF CookieInv, StepsFit, RefreshFits, MovesTokens
<1>9. InTransit'
  <2> SUFFICES ASSUME NEW u \in Tabs PROVE (RotationInTransit(u) /\ LoginInTransit(u))'
    BY DEF InTransit
  <2>1. RotationInTransit(t) /\ RotationInTransit(u) /\ LoginInTransit(t) /\ LoginInTransit(u)
    BY DEF CookieInv, InTransit
  <2>2. \A v \in Tabs : ref'[v].child \in {0, ref[v].child} /\ signin'[v] \in {0, signin[v]}
    BY DEF MovesTokens
  <2>3. \A i \in Tokens : (Active(i)' <=> Active(i)) /\ (Lost(i) => Lost(i)')
    BY DEF MovesTokens, Active, Lost
  <2>4. ref[u].child \in TokenOrNone /\ signin[u] \in TokenOrNone
    BY DEF CookieInv, TokenTypes, RefreshRecords
  <2>5. RotationInTransit(u)'
    BY <1>4, <2>1, <2>2, <2>3, <2>4 DEF RotationInTransit, TokenOrNone
  <2>6. LoginInTransit(u)'
    BY <1>4, <2>1, <2>2, <2>3, <2>4 DEF RotationInTransit, LoginInTransit, TokenOrNone, MovesTokens
  <2>7. QED BY <2>5, <2>6
<1>10. CookieFollowsRotation'
  <2> SUFFICES ASSUME NEW c \in Browsers, cookie'[c] # 0, ~Lost(cookie[c])'
               PROVE  \/ status'[cookie'[c]] = "live"
                      \/ \E u \in Tabs :
                            /\ BrowserOf[u] = c /\ ref'[u].step = "issued"
                            /\ session'[ref'[u].child] = session'[cookie'[c]]
                            /\ Active(ref[u].child)'
    BY DEF CookieFollowsRotation, Lost, Active
  <2>1. CASE cookie'[c] = cookie[c]
    <3>1. ~Lost(cookie[c]) BY <2>1 DEF Lost, MovesTokens
    <3>2. CASE status[cookie[c]] = "live" BY <2>1, <3>2 DEF MovesTokens
    <3>3. CASE \E u \in Tabs :
                 /\ BrowserOf[u] = c /\ ref[u].step = "issued"
                 /\ session[ref[u].child] = session[cookie[c]] /\ Active(ref[u].child)
      <4>1. PICK u \in Tabs :
                 /\ BrowserOf[u] = c /\ ref[u].step = "issued"
                 /\ session[ref[u].child] = session[cookie[c]] /\ Active(ref[u].child)
        BY <3>3
      <4>2. ref[u].child # 0 BY <4>1 DEF CookieInv, StepsFit, RefreshFits
      <4>3. ~Delivered(ref[u].child) BY <4>2 DEF CookieInv, InTransit, RotationInTransit
      <4>4. ref'[u].child = ref[u].child
        <5>1. CASE u # t BY <5>1 DEF MovesTokens
        <5>2. CASE u = t /\ ref'[u].child # ref[u].child
          <6>1. cookie[b] # ref[t].child BY <1>1, <4>3, <5>2 DEF Delivered
          <6>2. c = b BY <4>1, <5>2
          <6>3. session[ref[t].child] \in orphaned'
            BY <2>1, <5>2, <6>1, <6>2 DEF MovesTokens
          <6>4. QED BY <2>1, <4>1, <5>2, <6>3 DEF Lost, MovesTokens
        <5>3. QED BY <5>1, <5>2
      <4>5. ref'[u].step = "issued"
        BY <4>2, <4>4, <4>1 DEF MovesTokens, RefreshFits
      <4>6. QED BY <2>1, <4>1, <4>4, <4>5 DEF MovesTokens, Active
    <3>4. QED BY <2>1, <3>1, <3>2, <3>3 DEF CookieInv, CookieFollowsRotation, Lost
  <2>2. CASE c = b /\ cookie'[c] = ref[t].child /\ status[ref[t].child] # "issuing"
    BY <2>2 DEF CookieInv, InTransit, RotationInTransit, Active, Lost, MovesTokens
  <2>3. CASE c = b /\ cookie'[c] = signin[t]
    BY <2>3 DEF CookieInv, InTransit, LoginInTransit, Lost, MovesTokens
  <2>4. QED BY <2>1, <2>2, <2>3 DEF MovesTokens
<1>11. QED BY <1>5, <1>6, <1>7, <1>8, <1>9, <1>10 DEF CookieInv

\* The steps of a tab move tokens so, and keep the plain types.
SInv == PlainTypes /\ CookieInv

\* The tokens and the records a step of the tab t meets.
Meets(t) ==
    /\ BrowserOf[t] \in Browsers
    /\ ref[t] \in RefreshRecords /\ RefreshFits(ref[t])
    /\ ref[t].child \in TokenOrNone /\ ref[t].presented \in TokenOrNone
    /\ ref[t].attempt \in 0..MaxAttempts
    /\ signin[t] \in TokenOrNone
    /\ cookie[BrowserOf[t]] \in TokenOrNone /\ store[BrowserOf[t]] \in TokenOrNone
    /\ tab[t] \in TabRecords /\ out[t] \in LogoutRecords

LEMMA MeetsThem == ASSUME SInv, NEW t \in Tabs PROVE Meets(t)
<1>1. ref[t] \in RefreshRecords BY DEF SInv, CookieInv, TokenTypes
<1>2. /\ ref[t].child \in TokenOrNone /\ ref[t].presented \in TokenOrNone
      /\ ref[t].attempt \in 0..MaxAttempts
  BY <1>1 DEF RefreshRecords
<1>3. QED
  BY <1>1, <1>2 DEF SInv, CookieInv, StepsFit, TokenTypes, PlainTypes, Meets

\* A refresh that starts: the record it leaves is one.
LEMMA FlightTyped ==
    ASSUME SInv, NEW t \in Tabs, NEW by \in {"api", "init"}, NEW n \in 0..MaxAttempts
    PROVE  /\ Flight(t, by, n) \in RefreshRecords /\ RefreshFits(Flight(t, by, n))
           /\ Flight(t, by, n).child = 0
           /\ Flight(t, by, n).presented = cookie[BrowserOf[t]]
  BY MeetsThem DEF Flight, RefreshRecords, RefreshFits, Meets, TokenOrNone

LEMMA IdleTyped ==
    /\ IdleRefresh \in RefreshRecords /\ RefreshFits(IdleRefresh)
    /\ IdleRefresh.child = 0 /\ IdleRefresh.presented = 0
    /\ IdleLogout \in LogoutRecords
  BY DEF IdleRefresh, IdleLogout, RefreshRecords, LogoutRecords, RefreshFits, TokenOrNone

LEMMA LoginAnswerMoves ==
    ASSUME SInv, NEW t \in Tabs, LoginAnswer(t) PROVE PlainTypes' /\ MovesTokens(t)
<1>1. Meets(t) BY MeetsThem
<1>2. MovesTokens(t)
  BY <1>1 DEF LoginAnswer, Meets, MovesTokens, SInv, CookieInv, TokenTypes, server, history,
              TokenOrNone
<1>3. [access |-> signin[t], authed |-> TRUE, init |-> TRUE, expired |-> FALSE] \in TabRecords
  BY <1>1 DEF Meets, TabRecords
<1>4. PlainTypes'
  BY <1>1, <1>3 DEF LoginAnswer, Meets, SInv, PlainTypes, server, history
<1>5. QED BY <1>2, <1>4

LEMMA LoginLostMoves ==
    ASSUME SInv, NEW t \in Tabs, LoginLost(t) PROVE PlainTypes' /\ MovesTokens(t)
<1>1. Meets(t) BY MeetsThem
<1>2. MovesTokens(t)
  BY <1>1 DEF LoginLost, Meets, MovesTokens, SInv, CookieInv, TokenTypes, server, TokenOrNone
<1>3. PlainTypes'
  BY DEF LoginLost, SInv, PlainTypes, server
<1>4. QED BY <1>2, <1>3

LEMMA ReloadMoves ==
    ASSUME SInv, NEW t \in Tabs, Reload(t) PROVE PlainTypes' /\ MovesTokens(t)
<1> DEFINE b == BrowserOf[t]
           known == Fresh(store[b])
           r == IF known THEN IdleRefresh ELSE Flight(t, "init", 1)
           p == [access |-> IF known THEN store[b] ELSE 0, authed |-> known,
                 init |-> known, expired |-> FALSE]
<1>1. Meets(t) BY MeetsThem
<1>2. /\ r \in RefreshRecords /\ RefreshFits(r) /\ r.child = 0
      /\ r.presented \in {0, cookie[b]}
  BY IdleTyped, FlightTyped
<1>3. known \in BOOLEAN BY DEF Fresh
<1>4. p \in TabRecords
  <2> HIDE DEF known
  <2> QED BY <1>1, <1>3 DEF Meets, TabRecords, TokenOrNone
<1>5. /\ ref' = [ref EXCEPT ![t] = r] /\ tab' = [tab EXCEPT ![t] = p]
      /\ orphaned' = orphaned
           \cup (IF ref[t].step = "issued" THEN {session[ref[t].child]} ELSE {})
           \cup (IF signin[t] # 0 THEN {session[signin[t]]} ELSE {})
      /\ out' = [out EXCEPT ![t] = IdleLogout] /\ signin' = [signin EXCEPT ![t] = 0]
      /\ bye' = bye \ {t}
      /\ UNCHANGED <<server, stale, cookie, store, faults, revoked, missed>>
  BY DEF Reload
<1> HIDE DEF p, r
<1>6. MovesTokens(t)
  BY <1>1, <1>2, <1>5
  DEF Meets, MovesTokens, SInv, CookieInv, TokenTypes, server, TokenOrNone, RefreshFits
<1>7. PlainTypes'
  BY <1>4, <1>5, IdleTyped DEF SInv, PlainTypes, server
<1>8. QED BY <1>6, <1>7

\* A tab whose token and flags change is still one.
TabOf(f, t, a, x, y) ==
    [f EXCEPT ![t].access = a, ![t].authed = x, ![t].init = y]

LEMMA TabEdited ==
    ASSUME tab \in [Tabs -> TabRecords], NEW t \in Tabs, NEW a \in TokenOrNone,
           NEW x \in BOOLEAN, NEW y \in BOOLEAN
    PROVE  TabOf(tab, t, a, x, y) \in [Tabs -> TabRecords]
<1> DEFINE p1 == [tab[t] EXCEPT !.access = a]
           p2 == [p1 EXCEPT !.authed = x]
           p3 == [p2 EXCEPT !.init = y]
<1>1. p1 \in TabRecords BY DEF TabRecords
<1>2. p2 \in TabRecords
  <2> HIDE DEF p1
  <2> QED BY <1>1 DEF TabRecords
<1>3. p3 \in TabRecords
  <2> HIDE DEF p2
  <2> QED BY <1>2 DEF TabRecords
<1>4. TabOf(tab, t, a, x, y) = [tab EXCEPT ![t] = p3] BY DEF TabOf
<1> HIDE DEF p3
<1>5. QED BY <1>3, <1>4

LEMMA StartRefreshMoves ==
    ASSUME SInv, NEW t \in Tabs, StartRefresh(t) PROVE PlainTypes' /\ MovesTokens(t)
<1> DEFINE b == BrowserOf[t]
           p == [tab[t] EXCEPT !.access = store[b]]
<1>1. Meets(t) BY MeetsThem
<1>2. p \in TabRecords BY <1>1 DEF Meets, TabRecords
<1>3. ref[t].child = 0 BY <1>1 DEF Meets, RefreshFits, StartRefresh
<1>4. UNCHANGED <<server, stale, cookie, store, out, signin, bye, history>>
  BY DEF StartRefresh
<1>5. CASE tab' = [tab EXCEPT ![t].access = store[b]] /\ UNCHANGED ref
  <2>1. tab' = [tab EXCEPT ![t] = p] BY <1>5
  <2> HIDE DEF p
  <2>2. PlainTypes'
    BY <1>2, <1>4, <2>1 DEF SInv, PlainTypes, server, history
  <2>3. MovesTokens(t)
    BY <1>1, <1>4, <1>5
    DEF Meets, MovesTokens, SInv, CookieInv, TokenTypes, server, history
  <2>4. QED BY <2>2, <2>3
<1>6. CASE ref' = [ref EXCEPT ![t] = Flight(t, "api", 1)] /\ UNCHANGED tab
  <2>1. PlainTypes' BY <1>4, <1>6 DEF SInv, PlainTypes, server, history
  <2>2. MovesTokens(t)
    BY <1>1, <1>3, <1>4, <1>6, FlightTyped
    DEF Meets, MovesTokens, SInv, CookieInv, TokenTypes, server, history
  <2>3. QED BY <2>1, <2>2
<1>7. QED BY <1>5, <1>6 DEF StartRefresh

LEMMA RefreshAnswerMoves ==
    ASSUME SInv, NEW t \in Tabs, RefreshAnswer(t) PROVE PlainTypes' /\ MovesTokens(t)
<1> DEFINE b == BrowserOf[t]
           i == ref[t].child
<1>1. Meets(t) BY MeetsThem
<1>2. i # 0 /\ i \in TokenOrNone BY <1>1 DEF Meets, RefreshFits, RefreshAnswer
<1>3. /\ status[i] # "issuing"
      /\ cookie' = [cookie EXCEPT ![b] = i] /\ store' = [store EXCEPT ![b] = i]
      /\ ref' = [ref EXCEPT ![t] = IdleRefresh]
      /\ UNCHANGED <<server, stale, out, signin, bye, history>>
  BY DEF RefreshAnswer
<1>4. tab' \in [Tabs -> TabRecords]
  <2>1. tab' = TabOf(tab, t, i, TRUE, tab[t].init \/ ref[t].by = "init")
    BY DEF RefreshAnswer, TabOf
  <2>2. TRUE \in BOOLEAN /\ (tab[t].init \/ ref[t].by = "init") \in BOOLEAN OBVIOUS
  <2>3. QED BY <1>2, <2>1, <2>2, TabEdited DEF SInv, PlainTypes
<1>5. PlainTypes'
  BY <1>2, <1>3, <1>4 DEF SInv, PlainTypes, server, history
<1>6. MovesTokens(t)
  <2> HIDE DEF i
  <2>1. i = ref[t].child BY DEF i
  <2>2. QED
    BY <1>1, <1>2, <1>3, <2>1, IdleTyped
    DEF Meets, MovesTokens, SInv, CookieInv, TokenTypes, server, history
<1>7. QED BY <1>5, <1>6

LEMMA ResendMoves ==
    ASSUME SInv, NEW t \in Tabs, Resend(t) PROVE PlainTypes' /\ MovesTokens(t)
<1>1. Meets(t) BY MeetsThem
<1>2. ref[t].by \in {"api", "init"} BY <1>1 DEF Meets, RefreshRecords
<1>3. ref[t].attempt + 1 \in 0..MaxAttempts /\ ref[t].child = 0
  BY <1>1 DEF Meets, RefreshFits, Resend
<1>4. PlainTypes' BY DEF Resend, SInv, PlainTypes, server, history
<1>5. MovesTokens(t)
  BY <1>1, <1>2, <1>3, FlightTyped
  DEF Resend, Meets, MovesTokens, SInv, CookieInv, TokenTypes, server, history
<1>6. QED BY <1>4, <1>5

LEMMA SendLogoutTyped ==
    ASSUME SInv, NEW t \in Tabs, SendLogout(t) PROVE out' \in [Tabs -> LogoutRecords]
<1>1. Meets(t) BY MeetsThem
<1>2. [step |-> "sent", bearer |-> tab[t].access, presented |-> cookie[BrowserOf[t]]]
        \in LogoutRecords
  BY <1>1 DEF Meets, TabRecords, LogoutRecords
<1>3. QED BY <1>2 DEF SendLogout, SInv, PlainTypes

LEMMA LogoutMoves ==
    ASSUME SInv, NEW t \in Tabs, Logout(t) \/ LogoutDone(t) \/ ReceiveLogout(t)
    PROVE  PlainTypes' /\ MovesTokens(t)
<1>1. Meets(t) BY MeetsThem
<1>2. CASE Logout(t) \/ ReceiveLogout(t)
  <2>1. out' \in [Tabs -> LogoutRecords]
    BY <1>2, SendLogoutTyped DEF Logout, ReceiveLogout, SInv, PlainTypes
  <2>2. /\ UNCHANGED <<server, stale, cookie, store, tab, ref, signin, history>>
        /\ bye' \subseteq bye
    BY <1>2 DEF Logout, ReceiveLogout
  <2>3. PlainTypes'
    BY <2>1, <2>2 DEF SInv, PlainTypes, server, history
  <2>4. MovesTokens(t)
    BY <1>1, <2>2 DEF Meets, MovesTokens, SInv, CookieInv, TokenTypes, server, history
  <2>5. QED BY <2>3, <2>4
<1>3. CASE LogoutDone(t)
  <2>1. tab' \in [Tabs -> TabRecords]
    <3>1. tab' = TabOf(tab, t, 0, FALSE, FALSE) BY <1>3 DEF LogoutDone, TabOf
    <3>2. FALSE \in BOOLEAN /\ 0 \in TokenOrNone BY DEF TokenOrNone
    <3>3. QED BY <3>1, <3>2, TabEdited DEF SInv, PlainTypes
  <2>2. /\ faults' \in 0..MaxFaults
        /\ cookie' \in {cookie, [cookie EXCEPT ![BrowserOf[t]] = 0]}
        /\ store' = [store EXCEPT ![BrowserOf[t]] = 0]
        /\ out' = [out EXCEPT ![t] = IdleLogout] /\ bye' \subseteq Tabs
        /\ UNCHANGED <<server, stale, ref, signin, revoked, missed, orphaned>>
    BY <1>3 DEF LogoutDone, SInv, PlainTypes
  <2>3. PlainTypes'
    BY <2>1, <2>2, IdleTyped DEF SInv, PlainTypes, server, TokenOrNone
  <2>4. MovesTokens(t)
    BY <1>1, <2>2
    DEF Meets, MovesTokens, SInv, CookieInv, TokenTypes, server, TokenOrNone
  <2>5. QED BY <2>3, <2>4
<1>4. QED BY <1>2, <1>3

\* A refresh that gives up leaves a tab and a logout of their types.
LEMMA GiveUpTyped ==
    ASSUME SInv, NEW t \in Tabs, NEW refused \in BOOLEAN, GiveUp(t, refused)
    PROVE  /\ tab' \in [Tabs -> TabRecords] /\ out' \in [Tabs -> LogoutRecords]
           /\ store' \in [Browsers -> TokenOrNone]
           /\ ref' = [ref EXCEPT ![t] = IdleRefresh]
<1> DEFINE b == BrowserOf[t]
           known == Fresh(store[b])
           access == IF refused THEN 0 ELSE IF known THEN store[b] ELSE tab[t].access
           leave == ref[t].by = "api" /\ access = 0
           p == [access |-> access,
                 authed |-> ~refused /\ (known \/ tab[t].authed),
                 init |-> tab[t].init \/ ref[t].by = "init",
                 expired |-> tab[t].expired \/ leave]
           o == [step |-> "sent", bearer |-> 0, presented |-> cookie[b]]
<1>1. Meets(t) BY MeetsThem
<1>2. access \in TokenOrNone BY <1>1 DEF Meets, TabRecords, TokenOrNone
<1>3. /\ (~refused /\ (known \/ tab[t].authed)) \in BOOLEAN
      /\ (tab[t].init \/ ref[t].by = "init") \in BOOLEAN
      /\ (tab[t].expired \/ leave) \in BOOLEAN
  BY DEF Fresh
<1>4. p \in TabRecords
  <2> HIDE DEF access, known, leave
  <2> QED BY <1>2, <1>3 DEF TabRecords
<1>5. o \in LogoutRecords BY <1>1 DEF Meets, LogoutRecords, TokenOrNone
<1>6. /\ tab' = [tab EXCEPT ![t] = p]
      /\ store' = IF refused THEN [store EXCEPT ![b] = 0] ELSE store
      /\ out' \in {out, [out EXCEPT ![t] = o]}
      /\ ref' = [ref EXCEPT ![t] = IdleRefresh]
  BY DEF GiveUp
<1> HIDE DEF p, o
<1>7. QED BY <1>4, <1>5, <1>6 DEF SInv, PlainTypes, TokenOrNone

LEMMA RefreshFailsMoves ==
    ASSUME SInv, NEW t \in Tabs, RefreshFails(t) PROVE PlainTypes' /\ MovesTokens(t)
<1>1. Meets(t) BY MeetsThem
<1>2. UNCHANGED <<server, stale, cookie, signin, bye, revoked, missed>> BY DEF RefreshFails
<1>3. /\ faults' \in 0..MaxFaults
      /\ \/ orphaned' = orphaned /\ ref[t].child = 0
         \/ /\ orphaned' = orphaned \cup {session[ref[t].child]} /\ ref[t].child # 0
  <2>1. ref[t].child # 0 <=> ref[t].step = "issued" BY <1>1 DEF Meets, RefreshFits
  <2>2. CASE UNCHANGED <<faults, orphaned>> /\ ref[t].step \in {"reused", "busy", "refused"}
    BY <2>1, <2>2 DEF SInv, PlainTypes
  <2>3. CASE RefreshLost(t)
    BY <2>1, <2>3 DEF RefreshLost, SInv, PlainTypes
  <2>4. QED BY <2>2, <2>3 DEF RefreshFails
<1>4. /\ tab' \in [Tabs -> TabRecords] /\ out' \in [Tabs -> LogoutRecords]
      /\ store' \in [Browsers -> TokenOrNone]
      /\ ref' \in [Tabs -> RefreshRecords] /\ RefreshFits(ref'[t])
      /\ ref'[t].child = 0 /\ ref'[t].presented = 0
      /\ \A u \in Tabs : u # t => ref'[u] = ref[u]
  <2>1. CASE GiveUp(t, TRUE) \/ GiveUp(t, FALSE)
    <3>1. TRUE \in BOOLEAN /\ FALSE \in BOOLEAN OBVIOUS
    <3>2. /\ tab' \in [Tabs -> TabRecords] /\ out' \in [Tabs -> LogoutRecords]
          /\ store' \in [Browsers -> TokenOrNone]
          /\ ref' = [ref EXCEPT ![t] = IdleRefresh]
      BY <2>1, <3>1, GiveUpTyped
    <3>3. QED BY <3>2, IdleTyped DEF SInv, CookieInv, TokenTypes
  <2>2. CASE Retry(t)
    <3>1. ref' = RefreshOf(ref, t, "backoff", 0, 0) BY <2>2 DEF Retry, RefreshOf
    <3>2. 0 \in TokenOrNone /\ ref \in [Tabs -> RefreshRecords]
      BY DEF TokenOrNone, SInv, CookieInv, TokenTypes
    <3>3. /\ ref' \in [Tabs -> RefreshRecords]
          /\ \A u \in Tabs : u # t => ref'[u] = ref[u]
          /\ ref'[t].step = "backoff" /\ ref'[t].presented = 0 /\ ref'[t].child = 0
          /\ ref'[t].attempt = ref[t].attempt
      BY <3>1, <3>2, RefreshEdited
    <3>4. QED BY <2>2, <3>3 DEF Retry, RefreshFits, SInv, PlainTypes
  <2>3. QED BY <2>1, <2>2 DEF RefreshFails
<1>5. PlainTypes'
  BY <1>2, <1>3, <1>4 DEF SInv, PlainTypes, server
<1>6. MovesTokens(t)
  BY <1>1, <1>2, <1>3, <1>4
  DEF Meets, MovesTokens, SInv, CookieInv, TokenTypes, server
<1>7. QED BY <1>5, <1>6

-----------------------------------------------------------------------------
(* The steps of the server.                                                 *)

\* A login issues a token of a session of its own, on its way to one tab.
LEMMA LoginServerKeeps ==
    ASSUME SInv, NEW t \in Tabs, LoginServer(t) PROVE SInv'
<1>0. PICK n : n = issued + 1 OBVIOUS
<1>1. /\ n \in Tokens /\ logins + 1 \in Sessions /\ status[n] = "none" /\ logins \in Nat
      /\ issued \in 0..MaxTokens
  BY <1>0 DEF SInv, CookieInv, TokenTypes, AllIssued, LoginServer, Tokens, Sessions
<1>2. /\ status' = [status EXCEPT ![n] = "live"] /\ session' = [session EXCEPT ![n] = logins + 1]
      /\ signin' = [signin EXCEPT ![t] = n] /\ signin[t] = 0
      /\ issued' = n /\ logins' = logins + 1
      /\ UNCHANGED <<barred, stale, cookie, store, tab, ref, out, bye, history>>
  BY <1>0 DEF LoginServer
<1>3. issued' \in 0..MaxTokens /\ logins' \in 0..MaxLogins
  BY <1>1, <1>2 DEF Tokens, Sessions
<1>4. \A b \in Browsers : ~Holds(b, n)
  BY <1>1 DEF SInv, CookieInv, HeldWereIssued
<1>5. \A i \in Tokens : i # n => status'[i] = status[i] /\ session'[i] = session[i]
  BY <1>2 DEF SInv, CookieInv, TokenTypes
<1>6. status'[n] = "live" /\ session'[n] = logins + 1
  BY <1>1, <1>2 DEF SInv, CookieInv, TokenTypes
<1>7. PlainTypes' BY <1>2 DEF SInv, PlainTypes, history
<1>8. TokenTypes'
  BY <1>1, <1>2, <1>3 DEF SInv, CookieInv, TokenTypes, TokenOrNone, history
<1>9. StepsFit' BY <1>2 DEF SInv, CookieInv, StepsFit, RefreshFits
<1>10. AllIssued'
  BY <1>0, <1>1, <1>2, <1>5, <1>6 DEF SInv, CookieInv, AllIssued, Tokens
<1>11. \A b \in Browsers, i \in Tokens : i # n => (Holds(b, i)' => Holds(b, i))
  BY <1>2 DEF Holds, HeldBy, SInv, CookieInv, TokenTypes
<1>12. HeldWereIssued'
  BY <1>5, <1>6, <1>11 DEF SInv, CookieInv, HeldWereIssued
<1>13. \A b \in Browsers : Holds(b, n)' => b = BrowserOf[t]
  <2>1. \A u \in Tabs : u # t => (HeldBy(u, n)' <=> HeldBy(u, n))
    BY <1>2 DEF HeldBy, SInv, CookieInv, TokenTypes
  <2>2. QED BY <1>2, <1>4, <2>1 DEF Holds
<1>14. \A i \in Tokens, b \in Browsers : Holds(b, i) => session[i] # logins + 1
  BY <1>1 DEF SInv, CookieInv, HeldWereIssued, AllIssued
<1>15. OneHome'
  <2> SUFFICES ASSUME NEW b \in Browsers, NEW c \in Browsers, NEW i \in Tokens,
                      NEW j \in Tokens, Holds(b, i)', Holds(c, j)',
                      session'[i] = session'[j]
               PROVE  b = c
    BY DEF OneHome
  <2>1. CASE i # n /\ j # n BY <1>5, <1>11, <2>1 DEF SInv, CookieInv, OneHome
  <2>2. i = n <=> j = n BY <1>5, <1>6, <1>11, <1>14
  <2>3. QED BY <1>13, <2>1, <2>2
<1>16. \A i \in Tokens : i # n => (Active(i)' <=> Active(i)) /\ (Lost(i) => Lost(i)')
  BY <1>2, <1>5 DEF Active, Lost, history
<1>17. InTransit'
  <2> SUFFICES ASSUME NEW u \in Tabs PROVE (RotationInTransit(u) /\ LoginInTransit(u))'
    BY DEF InTransit
  <2>1. RotationInTransit(u) /\ LoginInTransit(u) BY DEF SInv, CookieInv, InTransit
  <2>2. /\ ~Delivered(n) /\ \A v \in Tabs : ref[v].child # n /\ signin[v] # n
    BY <1>1, <1>4 DEF Holds, HeldBy, Delivered, Tokens
  <2>3. \A i \in Tokens : Delivered(i)' <=> Delivered(i) BY <1>2 DEF Delivered
  <2>4. \A v \in Tabs : signin'[v] = IF v = t THEN n ELSE signin[v]
    BY <1>2 DEF SInv, CookieInv, TokenTypes
  <2>5. ref[u].child \in TokenOrNone /\ signin[u] \in TokenOrNone
    BY MeetsThem DEF Meets
  <2>6. RotationInTransit(u)'
    BY <1>2, <1>16, <2>1, <2>2, <2>3, <2>4, <2>5 DEF RotationInTransit, TokenOrNone
  <2>7. CASE u = t
    BY <1>1, <1>6, <2>2, <2>3, <2>4, <2>6, <2>7 DEF LoginInTransit
  <2>8. CASE u # t
    BY <1>2, <1>5, <1>16, <2>1, <2>2, <2>3, <2>4, <2>5, <2>6, <2>8
    DEF LoginInTransit, TokenOrNone
  <2>9. QED BY <2>6, <2>7, <2>8
<1>18. CookieFollowsRotation'
  <2>1. \A b \in Browsers : cookie[b] # 0 => cookie[b] \in Tokens /\ cookie[b] # n
    BY <1>4 DEF Holds, SInv, CookieInv, TokenTypes, TokenOrNone
  <2>2. \A u \in Tabs : ref[u].step = "issued" => ref[u].child \in Tokens /\ ref[u].child # n
    <3> TAKE u \in Tabs
    <3> HAVE ref[u].step = "issued"
    <3>1. Meets(u) BY MeetsThem
    <3>2. ref[u].child \in Tokens /\ ref[u].child # 0
      BY <3>1 DEF Meets, RefreshFits, TokenOrNone, Tokens
    <3>3. Holds(BrowserOf[u], ref[u].child) BY <3>2 DEF Holds, HeldBy
    <3>4. QED BY <1>4, <3>1, <3>2, <3>3 DEF Meets
  <2>3. CookieFollowsRotation BY DEF SInv, CookieInv
  <2>4. UNCHANGED <<revoked, missed, orphaned>> /\ ref' = ref /\ cookie' = cookie
    BY <1>2 DEF history
  <2>5. QED
    BY <1>5, <1>16, <2>1, <2>2, <2>3, <2>4 DEF CookieFollowsRotation
<1>19. QED
  BY <1>7, <1>8, <1>9, <1>10, <1>12, <1>15, <1>17, <1>18 DEF SInv, CookieInv

\* A refusal only ends the request.
LEMMA RefusalMoves ==
    ASSUME SInv, NEW t \in Tabs, NEW s \in {"reused", "refused"},
           ref' = [ref EXCEPT ![t].step = s, ![t].presented = 0], ref[t].step = "flight",
           UNCHANGED <<status, session, issued, logins, revoked, missed, cookie, signin,
                       orphaned>>
    PROVE  MovesTokens(t)
<1> DEFINE r1 == [ref[t] EXCEPT !.step = s]
           r2 == [r1 EXCEPT !.presented = 0]
<1>1. Meets(t) BY MeetsThem
<1>2. r1 \in RefreshRecords /\ r1.step = s /\ r1.child = ref[t].child
  BY <1>1 DEF Meets, RefreshRecords
<1>3. /\ r2 \in RefreshRecords /\ r2.step = s /\ r2.child = ref[t].child /\ r2.presented = 0
  <2> HIDE DEF r1
  <2> QED BY <1>2 DEF RefreshRecords, TokenOrNone
<1>4. ref' = [ref EXCEPT ![t] = r2] OBVIOUS
<1>5. ref[t].child = 0 BY <1>1 DEF Meets, RefreshFits
<1> HIDE DEF r2
<1>6. RefreshFits(r2) BY <1>3, <1>5 DEF RefreshFits
<1>7. PICK r : r = r2 OBVIOUS
<1>8. /\ ref \in [Tabs -> RefreshRecords] /\ signin \in [Tabs -> TokenOrNone]
      /\ cookie \in [Browsers -> TokenOrNone]
  BY DEF SInv, CookieInv, TokenTypes
<1>9. /\ ref' \in [Tabs -> RefreshRecords] /\ ref'[t] = r
      /\ \A u \in Tabs : u # t => ref'[u] = ref[u]
  <2>1. r \in RefreshRecords /\ ref' = [ref EXCEPT ![t] = r]
    BY <1>3, <1>4, <1>7
  <2>2. QED
    BY ONLY t \in Tabs, <1>8, <2>1
<1>10. RefreshFits(ref'[t]) /\ ref'[t].child \in {0, ref[t].child} /\ ref'[t].presented = 0
  BY <1>3, <1>6, <1>7, <1>9
<1>11. QED
  BY <1>8, <1>9, <1>10 DEF MovesTokens

\* A rotation: the new token takes the place of the presented one, in the same
\* browser, on its way to the tab that asked.
Rotates(t, c, n) ==
    /\ c \in Tokens /\ status[c] = "live" /\ ref[t].presented = c
    /\ n = issued + 1 /\ issued < MaxTokens /\ issued' = n
    /\ status' = [status EXCEPT ![c] = "revoked", ![n] = "issuing"]
    /\ session' = [session EXCEPT ![n] = session[c]]
    /\ ref' = RefreshOf(ref, t, "issued", 0, n) /\ ref[t].step = "flight"
    /\ UNCHANGED <<logins, cookie, signin, revoked, missed, orphaned>>

LEMMA RotationKeeps ==
    ASSUME SInv, NEW t \in Tabs, NEW c, NEW n, Rotates(t, c, n) PROVE CookieInv'
<1> DEFINE b == BrowserOf[t]
<1>1. /\ c \in Tokens /\ n \in Tokens /\ n # c /\ issued' \in 0..MaxTokens
      /\ status[c] = "live" /\ status[n] = "none" /\ session[c] \in Sessions
      /\ issued \in 0..MaxTokens /\ logins \in 0..MaxLogins
  BY DEF Rotates, SInv, CookieInv, TokenTypes, AllIssued, Tokens, Sessions
<1>2. Meets(t) /\ ref[t].child = 0 BY MeetsThem DEF Meets, RefreshFits, Rotates
<1>3. /\ ref' \in [Tabs -> RefreshRecords]
      /\ \A u \in Tabs : u # t => ref'[u] = ref[u]
      /\ ref'[t].step = "issued" /\ ref'[t].presented = 0 /\ ref'[t].child = n
      /\ ref'[t].attempt = ref[t].attempt
  <2>1. 0 \in TokenOrNone /\ n \in TokenOrNone /\ ref \in [Tabs -> RefreshRecords]
    BY <1>1 DEF TokenOrNone, SInv, CookieInv, TokenTypes
  <2>2. ref' = RefreshOf(ref, t, "issued", 0, n) BY DEF Rotates
  <2>3. QED BY <2>1, <2>2, RefreshEdited
<1>4. /\ \A i \in Tokens : i # n => session'[i] = session[i]
      /\ \A i \in Tokens : i # n /\ i # c => status'[i] = status[i]
      /\ status'[c] = "revoked" /\ status'[n] = "issuing" /\ session'[n] = session[c]
  BY <1>1 DEF Rotates, SInv, CookieInv, TokenTypes
<1>5. UNCHANGED <<logins, cookie, signin, revoked, missed, orphaned>> BY DEF Rotates
<1>6. c # 0 /\ Holds(b, c) /\ Delivered(c) /\ b \in Browsers
  BY <1>1, <1>2 DEF Rotates, Holds, HeldBy, Delivered, Tokens, Meets
<1>7. \A d \in Browsers : ~Holds(d, n)
  BY <1>1 DEF SInv, CookieInv, HeldWereIssued
<1>8. /\ \A d \in Browsers : Holds(d, n)' => d = b
      /\ \A d \in Browsers, i \in Tokens : i # n => (Holds(d, i)' => Holds(d, i))
  <2>1. \A u \in Tabs : u # t => ref'[u] = ref[u] /\ signin'[u] = signin[u]
    BY <1>3, <1>5
  <2>2. QED BY <1>3, <1>5, <1>7, <2>1 DEF Holds, HeldBy
<1>9. TokenTypes'
  BY <1>1, <1>3, <1>5 DEF Rotates, SInv, CookieInv, TokenTypes
<1>10. StepsFit'
  <2>1. n # 0 BY <1>1 DEF Tokens
  <2>2. QED BY <1>3, <2>1 DEF StepsFit, RefreshFits, SInv, CookieInv
<1>11. AllIssued'
  BY <1>1, <1>4, <1>5 DEF Rotates, SInv, CookieInv, AllIssued, Tokens
<1>12. HeldWereIssued'
  BY <1>4, <1>8 DEF SInv, CookieInv, HeldWereIssued
<1>13. OneHome'
  <2> SUFFICES ASSUME NEW d \in Browsers, NEW e \in Browsers, NEW i \in Tokens,
                      NEW j \in Tokens, Holds(d, i)', Holds(e, j)',
                      session'[i] = session'[j]
               PROVE  d = e
    BY DEF OneHome
  <2>1. \E k \in Tokens : Holds(d, k) /\ session[k] = session'[i]
    BY <1>1, <1>4, <1>6, <1>8
  <2>2. \E k \in Tokens : Holds(e, k) /\ session[k] = session'[j]
    BY <1>1, <1>4, <1>6, <1>8
  <2>3. QED BY <2>1, <2>2 DEF SInv, CookieInv, OneHome
<1>14. \A i \in Tokens : i # n /\ i # c => (Active(i)' <=> Active(i))
  BY <1>4 DEF Active
<1>15. \A i \in Tokens : i # n => (Lost(i)' <=> Lost(i))
  BY <1>4, <1>5 DEF Lost
<1>16. Active(n)' BY <1>4 DEF Active
<1>17. InTransit'
  <2> SUFFICES ASSUME NEW u \in Tabs PROVE (RotationInTransit(u) /\ LoginInTransit(u))'
    BY DEF InTransit
  <2>1. RotationInTransit(u) /\ LoginInTransit(u) BY DEF SInv, CookieInv, InTransit
  <2>2. /\ ~Delivered(n) /\ \A v \in Tabs : ref[v].child # n /\ signin[v] # n
    <3>1. n # 0 BY <1>1 DEF Tokens
    <3>2. QED BY <1>7, <3>1 DEF Holds, HeldBy, Delivered
  <2>3. \A i \in Tokens : Delivered(i)' => Delivered(i)
    BY <1>3, <1>5 DEF Delivered, Tokens
  <2>4. ref[u].child \in TokenOrNone /\ signin[u] \in TokenOrNone
    BY MeetsThem DEF Meets
  <2>5. ASSUME u = t PROVE RotationInTransit(u)'
    BY <1>1, <1>3, <1>5, <1>16, <2>2, <2>3, <2>5 DEF RotationInTransit
  <2>6. ASSUME u # t PROVE RotationInTransit(u)'
    <3>1. ref[u].child # c BY <1>6, <2>1 DEF RotationInTransit
    <3>2. QED
      BY <1>3, <1>5, <1>14, <1>15, <2>1, <2>2, <2>3, <2>4, <2>6, <3>1
      DEF RotationInTransit, TokenOrNone
  <2>7. LoginInTransit(u)'
    <3>1. signin[u] # c BY <1>6, <2>1 DEF LoginInTransit
    <3>2. QED
      BY <1>3, <1>4, <1>5, <1>15, <2>1, <2>2, <2>3, <2>4, <3>1
      DEF LoginInTransit, TokenOrNone
  <2>8. RotationInTransit(u)' BY <2>5, <2>6
  <2>9. QED BY <2>7, <2>8
<1>18. CookieFollowsRotation'
  <2> SUFFICES ASSUME NEW d \in Browsers, cookie[d] # 0, ~Lost(cookie[d])
               PROVE  \/ status'[cookie[d]] = "live"
                      \/ \E u \in Tabs :
                            /\ BrowserOf[u] = d /\ ref'[u].step = "issued"
                            /\ session'[ref'[u].child] = session'[cookie[d]]
                            /\ Active(ref[u].child)'
    BY <1>1, <1>4, <1>5, <1>7
    DEF CookieFollowsRotation, Lost, Active, Holds, SInv, CookieInv, TokenTypes, TokenOrNone
  <2>1. cookie[d] \in Tokens /\ cookie[d] # n
    BY <1>7 DEF Holds, SInv, CookieInv, TokenTypes, TokenOrNone
  <2>2. CASE cookie[d] = c
    <3>1. d = b BY <1>1, <1>6, <2>2 DEF SInv, CookieInv, OneHome, Holds
    <3>2. QED BY <1>1, <1>3, <1>4, <1>16, <2>2, <3>1
  <2>3. CASE cookie[d] # c /\ status[cookie[d]] = "live" BY <1>4, <2>1, <2>3
  <2>4. CASE \E u \in Tabs :
               /\ BrowserOf[u] = d /\ ref[u].step = "issued"
               /\ session[ref[u].child] = session[cookie[d]] /\ Active(ref[u].child)
    <3>1. PICK u \in Tabs :
               /\ BrowserOf[u] = d /\ ref[u].step = "issued"
               /\ session[ref[u].child] = session[cookie[d]] /\ Active(ref[u].child)
      BY <2>4
    <3>2. u # t /\ ref'[u] = ref[u] BY <1>3, <3>1 DEF Rotates
    <3>3. Meets(u) BY MeetsThem
    <3>4. ref[u].child \in Tokens /\ ref[u].child # 0
      BY <3>1, <3>3 DEF Meets, RefreshFits, TokenOrNone, Tokens
    <3>5. ref[u].child # c
      BY <1>6, <3>4 DEF SInv, CookieInv, InTransit, RotationInTransit
    <3>6. ref[u].child # n
      BY <1>7, <3>1, <3>4 DEF Holds, HeldBy
    <3>7. QED BY <1>4, <1>14, <2>1, <3>1, <3>2, <3>4, <3>5, <3>6 DEF Active
  <2>5. QED BY <2>2, <2>3, <2>4 DEF SInv, CookieInv, CookieFollowsRotation, Lost
<1>19. QED
  BY <1>9, <1>10, <1>11, <1>12, <1>13, <1>17, <1>18 DEF CookieInv

\* A step that only changes what the server accepts: a token it stops accepting is
\* of a session that is over, and so is one that a tab stops waiting for.
ChangesStatus ==
    /\ status' \in [Tokens -> {"none", "issuing", "live", "revoked"}]
    /\ \A i \in Tokens : (status'[i] = "none") <=> (status[i] = "none")
    /\ UNCHANGED <<session, issued, logins, cookie, signin>>
    /\ revoked' \subseteq Sessions /\ missed' \subseteq revoked'
    /\ orphaned \subseteq orphaned' /\ orphaned' \subseteq Sessions
    /\ \A i \in Tokens : /\ Lost(i) => Lost(i)'
                         /\ Active(i) => Active(i)' \/ Lost(i)'
                         /\ status[i] = "live" => status'[i] = "live" \/ Lost(i)'
    /\ ref' \in [Tabs -> RefreshRecords] /\ StepsFit'
    /\ \A u \in Tabs : \/ ref'[u] = ref[u]
                       \/ /\ ref'[u].child = 0 /\ ref'[u].presented = ref[u].presented
                          /\ session[ref[u].child] \in (revoked' \ missed') \cup orphaned'

LEMMA StatusKeeps == ASSUME SInv, ChangesStatus PROVE CookieInv'
<1>1. TokenTypes' /\ StepsFit'
  BY DEF ChangesStatus, SInv, CookieInv, TokenTypes
<1>2. AllIssued' BY DEF ChangesStatus, SInv, CookieInv, AllIssued
<1>3. \A b \in Browsers, i \in Tokens : Holds(b, i)' => Holds(b, i)
  BY DEF ChangesStatus, Holds, HeldBy
<1>4. HeldWereIssued' BY <1>3 DEF ChangesStatus, SInv, CookieInv, HeldWereIssued
<1>5. OneHome' BY <1>3 DEF ChangesStatus, SInv, CookieInv, OneHome
<1>6. \A i \in Tokens : (Delivered(i)' <=> Delivered(i)) /\ (Lost(i) => Lost(i)')
  BY DEF ChangesStatus, Delivered, Lost
<1>7. \A u \in Tabs : /\ ref[u].child \in TokenOrNone /\ signin[u] \in TokenOrNone
                      /\ ref'[u].child \in {0, ref[u].child}
  BY MeetsThem DEF Meets, ChangesStatus
<1>8. InTransit'
  <2> SUFFICES ASSUME NEW u \in Tabs PROVE (RotationInTransit(u) /\ LoginInTransit(u))'
    BY DEF InTransit
  <2>1. RotationInTransit(u) /\ LoginInTransit(u) BY DEF SInv, CookieInv, InTransit
  <2>2. RotationInTransit(u)'
    BY <1>6, <1>7, <2>1 DEF ChangesStatus, RotationInTransit, TokenOrNone
  <2>3. LoginInTransit(u)'
    BY <1>6, <1>7, <2>1 DEF ChangesStatus, LoginInTransit, TokenOrNone
  <2>4. QED BY <2>2, <2>3
<1>9. CookieFollowsRotation'
  <2> SUFFICES ASSUME NEW d \in Browsers, cookie[d] # 0, ~Lost(cookie[d])'
               PROVE  \/ status'[cookie[d]] = "live"
                      \/ \E u \in Tabs :
                            /\ BrowserOf[u] = d /\ ref'[u].step = "issued"
                            /\ session'[ref'[u].child] = session'[cookie[d]]
                            /\ Active(ref[u].child)'
    BY DEF ChangesStatus, CookieFollowsRotation, Lost, Active
  <2>1. cookie[d] \in Tokens /\ cookie' = cookie
    BY DEF ChangesStatus, SInv, CookieInv, TokenTypes, TokenOrNone
  <2>2. ~Lost(cookie[d]) BY <1>6, <2>1 DEF Lost, ChangesStatus
  <2>3. CASE status[cookie[d]] = "live" BY <2>1, <2>3 DEF ChangesStatus, Lost
  <2>4. CASE \E u \in Tabs :
               /\ BrowserOf[u] = d /\ ref[u].step = "issued"
               /\ session[ref[u].child] = session[cookie[d]] /\ Active(ref[u].child)
    <3>1. PICK u \in Tabs :
               /\ BrowserOf[u] = d /\ ref[u].step = "issued"
               /\ session[ref[u].child] = session[cookie[d]] /\ Active(ref[u].child)
      BY <2>4
    <3>2. Meets(u) BY MeetsThem
    <3>3. ref[u].child \in Tokens
      BY <3>1, <3>2 DEF Meets, RefreshFits, TokenOrNone
    <3>4. PICK i \in Tokens : i = ref[u].child BY <3>3
    <3>5. ~Lost(i)' BY <2>1, <3>1, <3>4 DEF Lost, ChangesStatus
    <3>6. ref'[u] = ref[u]
      BY <3>4, <3>5 DEF ChangesStatus, Lost
    <3>7. Active(i)' BY <3>1, <3>4, <3>5 DEF ChangesStatus
    <3>8. QED BY <3>1, <3>4, <3>6, <3>7, <2>1 DEF Active, ChangesStatus
  <2>5. QED BY <2>2, <2>3, <2>4 DEF SInv, CookieInv, CookieFollowsRotation, Lost
<1>10. QED BY <1>1, <1>2, <1>4, <1>5, <1>8, <1>9 DEF CookieInv

\* A revocation finds no token of a session that is over, so that it leaves it so,
\* and the session of a token it revokes has no other.
LEMMA RevokeChanges ==
    ASSUME IInv, SInv, NEW S \in SUBSET Tokens, RevokeRows(S),
           UNCHANGED <<session, issued, logins, cookie, signin, ref, orphaned>>
    PROVE  ChangesStatus
<1> DEFINE rows == {i \in S : status[i] = "live"}
           aimed == {session[i] : i \in S} \cap SessionsOf(Tokens)
           left == SessionsOf(Tokens \ rows)
<1>1. \A i \in Tokens : status'[i] =
        IF i \in rows THEN "revoked" ELSE status[i]
  BY DEF RevokeRows
<1>2. \A i \in Tokens : status[i] # "none" => session[i] \in Sessions
  BY DEF SInv, CookieInv, AllIssued, TokenTypes, Sessions
<1>3. /\ revoked' = revoked \cup aimed
      /\ missed' = (missed \ aimed) \cup (aimed \cap left)
      /\ status' \in [Tokens -> {"none", "issuing", "live", "revoked"}]
  BY DEF RevokeRows, SInv, CookieInv, TokenTypes
<1>4. \A s \in aimed : \E j \in Tokens : Active(j) /\ s = session[j]
  BY DEF SessionsOf
<1>5. \A i \in rows : /\ i \in Tokens /\ status[i] = "live" /\ session[i] \in aimed
                      /\ session[i] \notin left
  <2> TAKE i \in rows
  <2>1. i \in Tokens /\ status[i] = "live" /\ Active(i) BY DEF Active
  <2>2. session[i] \in aimed BY <2>1 DEF SessionsOf
  <2>3. ASSUME session[i] \in left PROVE FALSE
    <3>1. PICK k \in Tokens \ rows : Active(k) /\ session[k] = session[i]
      BY <2>3 DEF SessionsOf
    <3>2. QED BY <2>1, <3>1 DEF IInv, OneTokenPerSession
  <2>4. QED BY <2>1, <2>2, <2>3
<1> HIDE DEF rows, left, aimed
<1>6. revoked' \subseteq Sessions /\ missed' \subseteq revoked'
  BY <1>2, <1>3, <1>4 DEF SInv, CookieInv, TokenTypes, Active
<1>7. \A i \in Tokens : Lost(i) => Lost(i)'
  <2> SUFFICES ASSUME NEW i \in Tokens, session[i] \in revoked \ missed
               PROVE  session[i] \in revoked' \ missed'
    BY DEF Lost
  <2>1. session[i] \notin aimed BY <1>4 DEF IInv, RevokedSessionsStayEnded
  <2>2. QED BY <1>3, <2>1
<1>8. \A i \in Tokens : i \in rows => Lost(i)'
  BY <1>3, <1>5 DEF Lost
<1>9. \A i \in Tokens : /\ Active(i) => Active(i)' \/ Lost(i)'
                        /\ status[i] = "live" => status'[i] = "live" \/ Lost(i)'
                        /\ status'[i] = "none" <=> status[i] = "none"
  BY <1>1, <1>5, <1>8 DEF Active
<1>10. QED
  BY <1>3, <1>6, <1>7, <1>9
  DEF ChangesStatus, SInv, CookieInv, TokenTypes, StepsFit, RefreshFits

LEMMA InsertChanges ==
    ASSUME SInv, NEW i \in Tokens, InsertToken(i) \/ InsertFails(i)
    PROVE  PlainTypes' /\ ChangesStatus
<1>1. session[i] \in Sessions /\ status[i] = "issuing"
  <2>1. status[i] = "issuing" BY DEF InsertToken, InsertFails
  <2>2. QED BY <2>1 DEF SInv, CookieInv, AllIssued, TokenTypes, Sessions
<1>2. CASE InsertToken(i)
  <2>1. /\ status' = [status EXCEPT ![i] = "live"]
        /\ UNCHANGED <<session, issued, logins, barred, stale, cookie, store, tab,
                       ref, out, signin, bye, history>>
    BY <1>2 DEF InsertToken
  <2>2. PlainTypes' BY <2>1 DEF SInv, PlainTypes, history
  <2>3. ChangesStatus
    BY <1>1, <2>1
    DEF ChangesStatus, Active, Lost, SInv, CookieInv, TokenTypes, StepsFit, RefreshFits, history
  <2>4. QED BY <2>2, <2>3
<1>3. CASE InsertFails(i)
  <2>1. /\ status' = [status EXCEPT ![i] = "revoked"]
        /\ orphaned' = orphaned \cup {session[i]} /\ faults' = faults + 1 /\ faults < MaxFaults
        /\ UNCHANGED <<session, issued, logins, barred, stale, cookie, store, tab,
                       out, signin, bye, revoked, missed>>
    BY <1>3 DEF InsertFails
  <2>2. ref' = [u \in Tabs |-> IF ref[u].step = "issued" /\ ref[u].child = i
                               THEN [ref[u] EXCEPT !.step = "busy", !.child = 0] ELSE ref[u]]
    BY <1>3 DEF InsertFails
  <2>3. \A u \in Tabs :
          /\ ref'[u] \in RefreshRecords /\ RefreshFits(ref'[u])
          /\ \/ ref'[u] = ref[u]
             \/ /\ ref'[u].child = 0 /\ ref'[u].presented = ref[u].presented
                /\ ref[u].child = i
    <3> TAKE u \in Tabs
    <3> DEFINE r1 == [ref[u] EXCEPT !.step = "busy"]
               r2 == [r1 EXCEPT !.child = 0]
    <3>1. Meets(u) BY MeetsThem
    <3>2. CASE ref[u].step = "issued" /\ ref[u].child = i
      <4>1. r1 \in RefreshRecords /\ r1.step = "busy" /\ r1.presented = ref[u].presented
        BY <3>1 DEF Meets, RefreshRecords
      <4>2. /\ r2 \in RefreshRecords /\ r2.step = "busy" /\ r2.presented = ref[u].presented
            /\ r2.child = 0
        <5> HIDE DEF r1
        <5> QED BY <4>1 DEF RefreshRecords, TokenOrNone
      <4>3. ref'[u] = r2 BY <2>2, <3>2
      <4>4. ref[u].presented = 0 BY <3>1, <3>2 DEF Meets, RefreshFits
      <4> HIDE DEF r2
      <4>5. QED BY <3>2, <4>2, <4>3, <4>4 DEF RefreshFits
    <3>3. CASE ~(ref[u].step = "issued" /\ ref[u].child = i)
      BY <2>2, <3>1, <3>3 DEF Meets
    <3>4. QED BY <3>2, <3>3
  <2>4. DOMAIN ref' = Tabs /\ ref' = [u \in Tabs |-> ref'[u]] BY <2>2
  <2>5. PlainTypes' BY <2>1 DEF SInv, PlainTypes
  <2> HIDE <2>2
  <2>6. \A j \in Tokens : /\ Lost(j) => Lost(j)'
                          /\ Active(j) => Active(j)' \/ Lost(j)'
                          /\ status[j] = "live" => status'[j] = "live" \/ Lost(j)'
    BY <1>1, <2>1 DEF Active, Lost, SInv, CookieInv, TokenTypes
  <2>7. ChangesStatus
    BY <1>1, <2>1, <2>3, <2>4, <2>6
    DEF ChangesStatus, Lost, SInv, CookieInv, TokenTypes, StepsFit
  <2>8. QED BY <2>5, <2>7
<1>4. QED BY <1>2, <1>3

-----------------------------------------------------------------------------
LEMMA RefreshServerKeeps ==
    ASSUME SInv, NEW t \in Tabs, RefreshServer(t) PROVE SInv'
<1>1. UNCHANGED <<logins, barred, stale, cookie, store, tab, out, signin, bye, history>>
  BY DEF RefreshServer
<1>2. PlainTypes' BY <1>1 DEF SInv, PlainTypes, history
<1>3. CASE /\ UNCHANGED <<status, session, issued>>
           /\ \E s \in {"reused", "refused"} :
                ref' = [ref EXCEPT ![t].step = s, ![t].presented = 0]
  <2>1. PICK s \in {"reused", "refused"} :
               ref' = [ref EXCEPT ![t].step = s, ![t].presented = 0]
    BY <1>3
  <2>2. MovesTokens(t) BY <1>1, <1>3, <2>1, RefusalMoves DEF RefreshServer, history
  <2>3. QED BY <1>2, <2>2, MovesKeep DEF SInv
<1>4. CASE Rotates(t, ref[t].presented, issued + 1)
  <2>1. PICK c, n : c = ref[t].presented /\ n = issued + 1 OBVIOUS
  <2>2. Rotates(t, c, n) BY <1>4, <2>1
  <2>3. QED BY <1>2, <2>2, RotationKeeps DEF SInv
<1>5. QED
  BY <1>1, <1>3, <1>4 DEF RefreshServer, Rotates, RefreshOf, history

LEMMA LogoutServerKeeps ==
    ASSUME IInv, SInv, NEW t \in Tabs, LogoutServer(t) PROVE SInv'
<1>1. /\ UNCHANGED <<session, issued, logins, barred, stale, cookie, store, tab,
                     ref, signin, bye, faults, orphaned>>
      /\ \/ RevokeRows({out[t].presented} \cap Tokens)
         \/ UNCHANGED <<status, revoked, missed>>
      /\ \E s \in {"accepted", "rejected"} :
            out' = [out EXCEPT ![t] = [IdleLogout EXCEPT !.step = s]]
  BY DEF LogoutServer
<1>2. \A s \in {"accepted", "rejected"} : [IdleLogout EXCEPT !.step = s] \in LogoutRecords
  BY DEF IdleLogout, LogoutRecords, TokenOrNone
<1>3. PlainTypes' BY <1>1, <1>2 DEF SInv, PlainTypes
<1>4. CASE UNCHANGED <<status, revoked, missed>>
  BY <1>1, <1>3, <1>4
  DEF SInv, CookieInv, TokenTypes, StepsFit, RefreshFits, AllIssued, HeldWereIssued, OneHome,
      InTransit, RotationInTransit, LoginInTransit, Delivered, Lost, Active, Holds, HeldBy,
      CookieFollowsRotation
<1>5. CASE RevokeRows({out[t].presented} \cap Tokens)
  <2>1. {out[t].presented} \cap Tokens \in SUBSET Tokens OBVIOUS
  <2>2. ChangesStatus BY <1>1, <1>5, <2>1, RevokeChanges
  <2>3. QED BY <1>3, <2>2, StatusKeeps DEF SInv
<1>6. QED BY <1>1, <1>4, <1>5

\* The steps that touch no tab.
LEMMA AdminKeeps ==
    ASSUME IInv, SInv, RevokeAll \/ RestrictUser \/ Restore \/ AccessExpires PROVE SInv'
<1>1. CASE RevokeAll \/ RestrictUser
  <2>1. /\ RevokeRows(Tokens) /\ barred' \in {barred, TRUE}
        /\ UNCHANGED <<session, issued, logins, stale, cookie, store, tab, ref,
                       out, signin, bye, faults, orphaned>>
    BY <1>1 DEF RevokeAll, RestrictUser
  <2>2. Tokens \in SUBSET Tokens OBVIOUS
  <2>3. ChangesStatus BY <2>1, <2>2, RevokeChanges
  <2>4. barred' \in BOOLEAN BY <2>1 DEF SInv, PlainTypes
  <2>5. PlainTypes' BY <2>1, <2>4 DEF SInv, PlainTypes
  <2>6. QED BY <2>3, <2>5, StatusKeeps DEF SInv
<1>2. CASE Restore \/ AccessExpires
  <2>1. /\ UNCHANGED <<status, session, issued, logins, cookie, store, tab, ref, out,
                       signin, bye, history>>
        /\ barred' \in {barred, FALSE}
        /\ stale' = stale \/ (stale < issued /\ stale' = stale + 1)
    BY <1>2 DEF Restore, AccessExpires, server
  <2>2. barred' \in BOOLEAN BY <2>1 DEF SInv, PlainTypes
  <2>3. stale' \in 0..MaxTokens
    BY <2>1 DEF SInv, PlainTypes, CookieInv, TokenTypes
  <2>4. PlainTypes' BY <2>1, <2>2, <2>3 DEF SInv, PlainTypes, history
  <2>5. CookieInv'
    BY <2>1
    DEF SInv, CookieInv, TokenTypes, StepsFit, RefreshFits, AllIssued, HeldWereIssued, OneHome,
        InTransit, RotationInTransit, LoginInTransit, Delivered, Lost, Active, Holds, HeldBy,
        CookieFollowsRotation, history
  <2>6. QED BY <2>4, <2>5 DEF SInv
<1>3. QED BY <1>1, <1>2

LEMMA SInvInit == Init => SInv
<1> SUFFICES ASSUME Init PROVE SInv OBVIOUS
<1>1. PlainTypes /\ TokenTypes /\ StepsFit /\ AllIssued /\ HeldWereIssued
  BY TInvInit, TypesSplit DEF TInv
<1>2. \A b \in Browsers, i \in Tokens : ~Holds(b, i)
  BY DEF Init, Holds, HeldBy, IdleRefresh, Tokens
<1>3. InTransit
  BY DEF Init, InTransit, RotationInTransit, LoginInTransit, IdleRefresh
<1>4. CookieFollowsRotation BY DEF Init, CookieFollowsRotation
<1>5. QED BY <1>1, <1>2, <1>3, <1>4 DEF SInv, CookieInv, OneHome

LEMMA SInvNext == IInv /\ SInv /\ [Next]_vars => SInv'
<1> SUFFICES ASSUME IInv, SInv, [Next]_vars PROVE SInv'
  OBVIOUS
<1>1. CASE UNCHANGED vars
  BY <1>1
  DEF SInv, PlainTypes, CookieInv, TokenTypes, StepsFit, RefreshFits, AllIssued, HeldWereIssued,
      OneHome, InTransit, RotationInTransit, LoginInTransit, Delivered, Lost, Active, Holds,
      HeldBy, CookieFollowsRotation, vars, server, history
<1>2. ASSUME NEW t \in Tabs,
             LoginAnswer(t) \/ LoginLost(t) \/ Reload(t) \/ StartRefresh(t)
               \/ RefreshAnswer(t) \/ RefreshFails(t) \/ Resend(t)
               \/ Logout(t) \/ LogoutDone(t) \/ ReceiveLogout(t)
      PROVE  SInv'
  <2>1. PlainTypes' /\ MovesTokens(t)
    BY <1>2, LoginAnswerMoves, LoginLostMoves, ReloadMoves, StartRefreshMoves,
       RefreshAnswerMoves, RefreshFailsMoves, ResendMoves, LogoutMoves
  <2>2. CookieInv' BY <2>1, MovesKeep DEF SInv
  <2>3. QED BY <2>1, <2>2 DEF SInv
<1>3. ASSUME NEW t \in Tabs, LoginServer(t) \/ RefreshServer(t) \/ LogoutServer(t)
      PROVE  SInv'
  BY <1>3, LoginServerKeeps, RefreshServerKeeps, LogoutServerKeeps
<1>4. ASSUME NEW i \in Tokens, InsertToken(i) \/ InsertFails(i) PROVE SInv'
  BY <1>4, InsertChanges, StatusKeeps DEF SInv
<1>5. CASE RevokeAll \/ RestrictUser \/ Restore \/ AccessExpires
  BY <1>5, AdminKeeps
<1>6. QED BY <1>1, <1>2, <1>3, <1>4, <1>5 DEF Next

LEMMA CookieInvariant == Spec => []SInv
  BY Invariant, SInvInit, SInvNext, PTL DEF Spec

\* Every variable keeps its type, whatever the tabs, the server and the faults do.
THEOREM TypesHold == Spec => []TypeOK
<1>1. SInv => TypeOK BY TypesSplit DEF SInv, CookieInv
<1>2. QED BY <1>1, CookieInvariant, PTL

\* The tabs of a browser never rotate the session away from one another: while nothing
\* is lost and nobody ends it, the cookie is accepted, or its successor is on its way
\* to a tab of that browser (refreshToken, setRefreshCookie, refreshAccessToken).
THEOREM CookieKeepsUp == Spec => []CookieFollowsRotation
<1>1. SInv => CookieFollowsRotation BY DEF SInv, CookieInv
<1>2. QED BY <1>1, CookieInvariant, PTL
-----------------------------------------------------------------------------
(* The credentials of an account *)

User == [id : DrawnOrNone, hash : Secrets, salt : DrawnOrNone, wrap : Wraps,
         pek : DrawnOrNone, code : DrawnOrNone, google : BOOLEAN,
         on : BOOLEAN, secret : DrawnOrNone]
Temp == [for : {"none", "2fa", "recover"}, id : DrawnOrNone,
         key : DrawnOrNone, code : DrawnOrNone]
Req == [at : Steps, id : DrawnOrNone, pw : Secrets, n : DrawnOrNone, key : DrawnOrNone,
        code : DrawnOrNone, count : 0..MaxLoginAttempts, right : BOOLEAN, two : BOOLEAN,
        factor : BOOLEAN, on : BOOLEAN]
Session == [id : DrawnOrNone, key : DrawnOrNone, spared : BOOLEAN]

LEMMA InitTyped == AccountsInit => AccountsTypeOK
<1> SUFFICES ASSUME AccountsInit PROVE AccountsTypeOK OBVIOUS
<1>1. 0 \in DrawnOrNone /\ 1 \in DrawnOrNone /\ 1 \in Drawn
  BY AccountsAssumption DEF DrawnOrNone, Drawn
<1>2. NoUser \in User /\ NoTemp \in Temp /\ Idle \in Req
  BY <1>1, AccountsAssumption DEF NoUser, NoTemp, Idle, FreshHandler, User, Temp, Req, Wrap, Wraps, Secrets, Steps
<1>3. user \in User
  BY <1>1, <1>2 DEF AccountsInit, User, Wrap, Wraps, Secrets
<1>4. sessions \subseteq Session
<2>1. CASE user.id = 0 BY <2>1 DEF AccountsInit
<2>2. CASE user.id # 0 BY <1>1, <2>2 DEF AccountsInit, Session
<2> QED BY <2>1, <2>2
<1> QED BY <1>1, <1>2, <1>3, <1>4 DEF AccountsInit, AccountsTypeOK, User, Temp, Req, Session

Typed ==
    /\ user \in User /\ failures \in Nat /\ locked \in BOOLEAN /\ suspended \in BOOLEAN
    /\ temp \in [Drawn -> Temp] /\ req \in [Requests -> Req]
    /\ sessions \subseteq Session
    /\ uses \in [Drawn -> Nat] /\ drawn \in DrawnOrNone

LEMMA TypedIsTypeOK == Typed <=> AccountsTypeOK
  BY DEF Typed, AccountsTypeOK, User, Temp, Req, Session


LEMMA Numbers ==
    /\ Drawn \subseteq DrawnOrNone /\ 0 \in DrawnOrNone
    /\ Drawn \subseteq Nat /\ DrawnOrNone \subseteq Nat
  BY AccountsAssumption DEF Drawn, DrawnOrNone

LEMMA FreshIs ==
    ASSUME NEW step \in Steps, NEW id \in DrawnOrNone, NEW on \in BOOLEAN
    PROVE  LET q == FreshHandler(step, id, on)
           IN  q \in Req /\ q.at = step /\ q.id = id /\ q.on = on /\ ~q.two /\ ~q.factor
  BY Numbers, AccountsAssumption DEF FreshHandler, Req, Secrets

LEMMA IdleIs ==
    /\ Idle \in Req /\ NoTemp \in Temp /\ NoTemp.for = "none"
    /\ Idle.at = "idle" /\ ~Idle.on /\ ~Idle.two /\ ~Idle.factor
<1>1. NoTemp \in Temp /\ NoTemp.for = "none" BY Numbers DEF NoTemp, Temp
<1>2. "idle" \in Steps /\ 0 \in DrawnOrNone /\ FALSE \in BOOLEAN BY Numbers DEF Steps
<1>3. LET q == FreshHandler("idle", 0, FALSE)
      IN  q \in Req /\ q.at = "idle" /\ q.on = FALSE /\ ~q.two /\ ~q.factor
  BY <1>2, FreshIs
<1> QED BY <1>1, <1>3 DEF Idle

LEMMA HandlerIs ==
    ASSUME Typed, NEW step \in Steps, NEW id \in DrawnOrNone
    PROVE  LET q == Handler(step, id)
           IN  q \in Req /\ q.at = step /\ q.id = id /\ ~q.two /\ ~q.factor
               /\ q.on = (user.id # 0 /\ user.on)
<1> DEFINE on == user.id # 0 /\ user.on
<1>1. on \in BOOLEAN OBVIOUS
<1>2. Handler(step, id) = FreshHandler(step, id, on) BY DEF Handler
<1> HIDE DEF on
<1>3. LET q == FreshHandler(step, id, on)
      IN  q \in Req /\ q.at = step /\ q.id = id /\ q.on = on /\ ~q.two /\ ~q.factor
  BY <1>1, FreshIs
<1>4. LET q == Handler(step, id)
      IN  q \in Req /\ q.at = step /\ q.id = id /\ q.on = on /\ ~q.two /\ ~q.factor
  BY <1>2, <1>3
<1> QED BY <1>4 DEF on

LEMMA WithStep ==
    ASSUME NEW q \in Req, NEW step \in Steps
    PROVE  LET x == [q EXCEPT !.at = step]
           IN  x \in Req /\ x.at = step /\ x.two = q.two /\ x.on = q.on
  BY DEF Req

-----------------------------------------------------------------------------
(* The invariant *)

\* The row opens with the password beside it, and without an account there is
\* no second factor, nor a secret for one.
RowOpens ==
    /\ user.pek = user.id /\ user.wrap = Wrap(user.hash, user.salt, user.id)
    /\ user.id = 0 => ~user.on /\ user.secret = 0

\* A handler that is to store a key has the one of its account, and one that sets
\* up the second factor has an account; one that has seen the second factor on all
\* the time will ask for it, or has.
Fits(q, on) ==
    /\ q.at \in {"change", "token", "complete"} => q.key = q.id
    /\ q.at \in {"setup", "enable"} => q.id # 0
    /\ q.on => on
    /\ q.on /\ q.at \in {"count", "compare", "lock", "clear", "unlock"} => q.two
    /\ q.on /\ q.at = "mint" => q.factor

\* A challenge that waits was drawn and not yet taken, and the key in it is the
\* one of its account.
Waits(t) ==
    /\ temp[t].for # "none" => t <= drawn
    /\ temp[t].for # "none" \/ t > drawn => uses[t] = 0
    /\ temp[t].for = "recover" => temp[t].key = temp[t].id

\* The failures there are and those that may be added to them.
Comparing == {r \in Requests : req[r].at = "compare"}
Guesses == failures + Cardinality(Comparing) < MaxLoginAttempts + Cardinality(Requests)

AccountsInv ==
    /\ Typed /\ RowOpens /\ Guesses
    /\ \A r \in Requests : Fits(req[r], user.on)
    /\ \A s \in sessions : s.id # 0 /\ s.key = s.id /\ ~s.spared
    /\ \A t \in Drawn : Waits(t) /\ uses[t] <= 1

LEMMA IInvImplies ==
    AccountsInv => AccountsTypeOK /\ KeysAgree /\ SecondFactorEverywhere /\ ChallengesUsedOnce /\ GuessesBounded
<1> SUFFICES ASSUME AccountsInv
             PROVE  AccountsTypeOK /\ KeysAgree /\ SecondFactorEverywhere /\ ChallengesUsedOnce /\ GuessesBounded
  OBVIOUS
<1>1. AccountsTypeOK BY TypedIsTypeOK DEF AccountsInv
<1>2. KeysAgree BY DEF AccountsInv, RowOpens, KeysAgree
<1>3. SecondFactorEverywhere BY DEF AccountsInv, SecondFactorEverywhere
<1>4. ChallengesUsedOnce BY DEF AccountsInv, ChallengesUsedOnce
<1>5. GuessesBounded
  <2>1. IsFiniteSet(Comparing) /\ IsFiniteSet(Requests)
    BY AccountsAssumption, FS_Subset DEF Comparing
  <2>2. Cardinality(Comparing) \in Nat /\ Cardinality(Requests) \in Nat
    BY <2>1, FS_CardinalityType
  <2> QED BY <2>2, AccountsAssumption DEF AccountsInv, Typed, Guesses, GuessesBounded
<1> QED BY <1>1, <1>2, <1>3, <1>4, <1>5

LEMMA AccountsInitHolds == AccountsInit => AccountsInv
<1> SUFFICES ASSUME AccountsInit PROVE AccountsInv OBVIOUS
<1>1. Typed BY InitTyped, TypedIsTypeOK
<1>2. RowOpens BY DEF AccountsInit, RowOpens, NoUser, Wrap
<1>3. \A r \in Requests : req[r] = Idle BY DEF AccountsInit
<1>4. \A r \in Requests : Fits(req[r], user.on)
  BY <1>3, IdleIs DEF Fits
<1>5. Guesses
  <2>1. Comparing = {} BY <1>3, IdleIs DEF Comparing
  <2>2. Cardinality(Comparing) = 0 BY <2>1, FS_EmptySet
  <2>3. Cardinality(Requests) \in Nat BY AccountsAssumption, FS_CardinalityType
  <2> QED BY <2>2, <2>3, AccountsAssumption DEF AccountsInit, Guesses
<1>6. \A s \in sessions : s.id # 0 /\ s.key = s.id /\ ~s.spared BY DEF AccountsInit
<1>7. \A t \in Drawn : Waits(t) /\ uses[t] <= 1
  BY IdleIs DEF AccountsInit, Waits
<1> QED BY <1>1, <1>2, <1>4, <1>5, <1>6, <1>7 DEF AccountsInv

-----------------------------------------------------------------------------
(* What a step does to each part of the state *)

\* The step of one request: a state that fits, and a look at the password only
\* when the failures allow it.
Moves(r) ==
    \E q \in Req :
        /\ req' = [req EXCEPT ![r] = q]
        /\ Fits(q, user'.on)
        /\ q.at = "compare" => failures' = failures /\ failures < MaxLoginAttempts

RowStays == user' \in User /\ RowOpens' /\ (user.on => user'.on)

\* Only a password that was compared adds a failure.
FailuresStay(r) ==
    /\ failures' \in Nat /\ locked' \in BOOLEAN /\ suspended' \in BOOLEAN
    /\ failures' <= failures \/ (failures' = failures + 1 /\ req[r].at = "compare")

SessionsStay == sessions' \subseteq Session /\ \A s \in sessions' : s.id # 0 /\ s.key = s.id /\ ~s.spared

TempStays ==
    /\ temp' \in [Drawn -> Temp] /\ uses' \in [Drawn -> Nat] /\ drawn' \in DrawnOrNone
    /\ \A t \in Drawn : Waits(t)' /\ uses'[t] <= 1

LEMMA SameRow == ASSUME AccountsInv, UNCHANGED user PROVE RowStays
  BY DEF AccountsInv, Typed, RowStays, RowOpens

LEMMA SameSessions == ASSUME AccountsInv, UNCHANGED sessions PROVE SessionsStay
  BY DEF AccountsInv, Typed, SessionsStay

LEMMA SameFailures ==
    ASSUME AccountsInv, NEW r \in Requests, UNCHANGED <<failures, suspended>>, locked' \in BOOLEAN
    PROVE  FailuresStay(r)
<1>1. failures' \in Nat /\ failures' <= failures BY DEF AccountsInv, Typed
<1>2. suspended' \in BOOLEAN BY DEF AccountsInv, Typed
<1>3. failures' <= failures \/ (failures' = failures + 1 /\ req[r].at = "compare") BY <1>1
<1> QED BY <1>1, <1>2, <1>3 DEF FailuresStay

LEMMA SameTemp ==
    ASSUME AccountsInv, UNCHANGED <<temp, uses>>, drawn' = drawn \/ \E n \in Drawn : Draw(n)
    PROVE  TempStays
<1>1. drawn \in Nat /\ Drawn \subseteq Nat BY Numbers DEF AccountsInv, Typed
<1>2. drawn' \in DrawnOrNone /\ drawn' \in Nat /\ drawn <= drawn'
  BY <1>1, Numbers DEF Draw, AccountsInv, Typed
<1> QED BY <1>1, <1>2 DEF AccountsInv, Typed, TempStays, Waits

\* A request that moves leaves the others as they fit, and the guesses bounded.
LEMMA MovesKeeps ==
    ASSUME AccountsInv, NEW r \in Requests, Moves(r),
           RowStays, FailuresStay(r), SessionsStay, TempStays
    PROVE  AccountsInv'
<1>1. PICK q \in Req : /\ req' = [req EXCEPT ![r] = q]
                       /\ Fits(q, user'.on)
                       /\ q.at = "compare" => failures' = failures /\ failures < MaxLoginAttempts
  BY DEF Moves
<1>2. req' \in [Requests -> Req] BY <1>1 DEF AccountsInv, Typed
<1>3. Typed' BY <1>2 DEF Typed, RowStays, FailuresStay, SessionsStay, TempStays
<1>4. \A o \in Requests : req'[o] = IF o = r THEN q ELSE req[o]
  BY <1>1 DEF AccountsInv, Typed
<1>5. \A o \in Requests : Fits(req'[o], user'.on)
  <2> SUFFICES ASSUME NEW o \in Requests PROVE Fits(req'[o], user'.on) OBVIOUS
  <2>1. CASE o = r BY <2>1, <1>1, <1>4
  <2>2. CASE o # r
    <3>1. req'[o] = req[o] /\ Fits(req[o], user.on) BY <2>2, <1>4 DEF AccountsInv
    <3> QED BY <3>1 DEF Fits, RowStays
  <2> QED BY <2>1, <2>2
<1>6. Guesses'
  <2>1. IsFiniteSet(Requests) /\ IsFiniteSet(Comparing) /\ IsFiniteSet(Comparing')
    BY AccountsAssumption, FS_Subset DEF Comparing
  <2>2. /\ Cardinality(Requests) \in Nat /\ Cardinality(Comparing) \in Nat
        /\ Cardinality(Comparing') \in Nat
    BY <2>1, FS_CardinalityType
  <2>3. CASE q.at = "compare"
    <3>1. Cardinality(Comparing') <= Cardinality(Requests)
      BY <2>1, FS_Subset DEF Comparing
    <3> QED BY <3>1, <2>2, <2>3, <1>1, AccountsAssumption DEF Guesses, AccountsInv, Typed
  <2>4. CASE q.at # "compare"
    <3>1. Comparing' = Comparing \ {r} BY <1>4, <2>4 DEF Comparing
    <3>2. CASE r \in Comparing
      <4>1. Cardinality(Comparing') = Cardinality(Comparing) - 1
        BY <3>1, <3>2, <2>1, FS_RemoveElement
      <4> QED BY <4>1, <2>2, AccountsAssumption DEF Guesses, AccountsInv, Typed, FailuresStay
    <3>3. CASE r \notin Comparing
      <4>1. Comparing' = Comparing BY <3>1, <3>3
      <4>2. failures' <= failures BY <3>3 DEF FailuresStay, Comparing
      <4> QED BY <4>1, <4>2, <2>2, AccountsAssumption DEF Guesses, AccountsInv, Typed, FailuresStay
    <3> QED BY <3>2, <3>3
  <2> QED BY <2>3, <2>4
<1> QED BY <1>3, <1>5, <1>6 DEF AccountsInv, RowStays, SessionsStay, TempStays

\* The ways in which a request moves.
LEMMA MovesTo ==
    ASSUME NEW r \in Requests, NEW q \in Req, req' = [req EXCEPT ![r] = q],
           Fits(q, user'.on), q.at # "compare"
    PROVE  Moves(r)
  BY DEF Moves

LEMMA Ends == ASSUME NEW r \in Requests, End(r) PROVE Moves(r)
  BY IdleIs DEF End, Fits, Moves

LEMMA Stays ==
    ASSUME AccountsInv, NEW r \in Requests, req[r].at # "compare", UNCHANGED <<req, user>>
    PROVE  Moves(r)
<1>1. req' = [req EXCEPT ![r] = req[r]] /\ req[r] \in Req BY DEF AccountsInv, Typed
<1>2. Fits(req[r], user'.on) BY DEF AccountsInv
<1> QED BY <1>1, <1>2, MovesTo

LEMMA Goes ==
    ASSUME AccountsInv, NEW r \in Requests, NEW step \in {"lock", "clear", "unlock", "ginsert", "raced"},
           Goto(r, step), UNCHANGED user,
           step \in {"lock", "clear", "unlock"} => req[r].at \in {"compare", "clear"}
    PROVE  Moves(r)
<1> DEFINE q == [req[r] EXCEPT !.at = step]
<1>1. req[r] \in Req /\ step \in Steps /\ Fits(req[r], user.on) BY DEF AccountsInv, Typed, Steps
<1>2. q \in Req /\ q.at = step /\ q.two = req[r].two /\ q.on = req[r].on
  BY <1>1, WithStep
<1>3. req' = [req EXCEPT ![r] = q] BY DEF Goto
<1> HIDE DEF q
<1>4. Fits(q, user'.on) BY <1>1, <1>2 DEF Fits
<1> QED BY <1>2, <1>3, <1>4, MovesTo

\* A handler begins: it has seen of the second factor what there is of it.
LEMMA Begins ==
    ASSUME AccountsInv, NEW r \in Requests, NEW q \in Req, Begin(r, q), user'.on = user.on,
           q.on = (user.id # 0 /\ user.on), q.at \notin {"compare", "mint"},
           q.at = "count" => q.two = user.on,
           q.at \notin {"lock", "clear", "unlock"},
           q.at \in {"change", "token", "complete"} => q.key = q.id,
           q.at \in {"setup", "enable"} => q.id # 0
    PROVE  Moves(r)
<1>1. Fits(q, user'.on) BY DEF Fits
<1> QED BY <1>1, MovesTo DEF Begin

-----------------------------------------------------------------------------
(* Every action keeps the invariant *)

LEMMA LoginKeepsAccount ==
    ASSUME AccountsInv, NEW r \in Requests, SubmitLogin(r) PROVE AccountsInv'
<1> DEFINE h == Handler("count", user.id)
<1>1. Moves(r)
  <2>1. PICK p \in Passwords :
            Begin(r, [h EXCEPT !.pw = p, !.two = user.on, !.right = (p = user.hash)])
    BY DEF SubmitLogin, LoginUser
  <2>2. h \in Req /\ h.at = "count" /\ h.on = (user.id # 0 /\ user.on)
    BY HandlerIs DEF AccountsInv, Typed, User, Steps
  <2> DEFINE two == user.on
             right == p = user.hash
             q == [h EXCEPT !.pw = p, !.two = two, !.right = right]
  <2>3. p \in Secrets /\ two \in BOOLEAN /\ right \in BOOLEAN
    BY DEF Secrets, AccountsInv, Typed, User
  <2>4. Begin(r, q) BY <2>1
  <2> HIDE DEF h, two, right
  <2>5. q \in Req /\ q.at = "count" /\ q.on = h.on /\ q.two = two
    BY <2>2, <2>3 DEF Req
  <2> HIDE DEF q
  <2>6. user'.on = user.on BY DEF SubmitLogin, LoginUser
  <2>7. q.two = user.on /\ q.on = (user.id # 0 /\ user.on) BY <2>2, <2>5 DEF two
  <2> QED BY <2>4, <2>5, <2>6, <2>7, Begins
<1>2. UNCHANGED <<user, temp, sessions, uses, failures, suspended>> /\ locked' = locked
  BY DEF SubmitLogin, LoginUser
<1>3. locked' \in BOOLEAN /\ (drawn' = drawn \/ \E n \in Drawn : Draw(n)) BY <1>2 DEF SubmitLogin, LoginUser, AccountsInv, Typed
<1>4. RowStays /\ SessionsStay /\ TempStays /\ FailuresStay(r)
  BY <1>2, <1>3, SameRow, SameSessions, SameTemp, SameFailures
<1> QED BY <1>1, <1>4, MovesKeeps

LEMMA CountKeeps ==
    ASSUME AccountsInv, NEW r \in Requests, CountFailures(r) PROVE AccountsInv'
<1>1. Moves(r)
  <2>1. CASE failures >= MaxLoginAttempts BY <2>1, Ends DEF CountFailures
  <2>2. CASE ~(failures >= MaxLoginAttempts)
    <3> DEFINE q == [req[r] EXCEPT !.at = "compare", !.count = failures]
    <3>1. req' = [req EXCEPT ![r] = q] /\ req[r].at = "count" BY <2>2 DEF CountFailures
    <3>2. req[r] \in Req /\ Fits(req[r], user.on) /\ failures \in 0..MaxLoginAttempts
          /\ failures < MaxLoginAttempts /\ "compare" \in Steps
      BY <2>2, AccountsAssumption DEF AccountsInv, Typed, Steps
    <3>3. q \in Req /\ q.at = "compare" /\ q.two = req[r].two /\ q.on = req[r].on
      BY <3>2 DEF Req
    <3> HIDE DEF q
    <3>4. user' = user /\ failures' = failures BY DEF CountFailures
    <3>5. Fits(q, user'.on) BY <3>1, <3>2, <3>3, <3>4 DEF Fits
    <3> QED BY <3>1, <3>2, <3>3, <3>4, <3>5 DEF Moves
  <2> QED BY <2>1, <2>2
<1>2. UNCHANGED <<user, temp, sessions, uses, failures, suspended, drawn>> BY DEF CountFailures
<1>3. locked' \in BOOLEAN BY DEF CountFailures, AccountsInv, Typed
<1>4. RowStays /\ SessionsStay /\ TempStays /\ FailuresStay(r)
  BY <1>2, <1>3, SameRow, SameSessions, SameTemp, SameFailures
<1> QED BY <1>1, <1>4, MovesKeeps

LEMMA CompareKeeps ==
    ASSUME AccountsInv, NEW r \in Requests, ComparePassword(r) PROVE AccountsInv'
<1>1. Moves(r)
  <2>1. user' = user /\ req[r].at = "compare" BY DEF ComparePassword
  <2>2. Goto(r, "clear") \/ Goto(r, "lock") \/ End(r) BY DEF ComparePassword
  <2> QED BY <2>1, <2>2, Goes, Ends
<1>2. UNCHANGED <<user, temp, sessions, uses, locked, suspended, drawn>> BY DEF ComparePassword
<1>3. RowStays /\ SessionsStay /\ TempStays BY <1>2, SameRow, SameSessions, SameTemp
<1>4. FailuresStay(r)
  <2>1. failures' \in Nat /\ (failures' <= failures \/ failures' = failures + 1)
    BY DEF ComparePassword, AccountsInv, Typed
  <2>2. locked' \in BOOLEAN /\ suspended' \in BOOLEAN BY <1>2 DEF AccountsInv, Typed
  <2>3. req[r].at = "compare" BY DEF ComparePassword
  <2> QED BY <2>1, <2>2, <2>3 DEF FailuresStay
<1> QED BY <1>1, <1>3, <1>4, MovesKeeps

LEMMA LockKeeps ==
    ASSUME AccountsInv, NEW r \in Requests, LockAccount(r) PROVE AccountsInv'
<1>1. Moves(r) BY Ends DEF LockAccount
<1>2. UNCHANGED <<user, temp, sessions, uses, failures, suspended, drawn>> BY DEF LockAccount
<1>3. locked' \in BOOLEAN BY DEF LockAccount, AccountsInv, Typed
<1>4. RowStays /\ SessionsStay /\ TempStays /\ FailuresStay(r)
  BY <1>2, <1>3, SameRow, SameSessions, SameTemp, SameFailures
<1> QED BY <1>1, <1>4, MovesKeeps

LEMMA ClearKeeps ==
    ASSUME AccountsInv, NEW r \in Requests, ClearFailures(r) PROVE AccountsInv'
<1>1. Moves(r) BY Goes DEF ClearFailures
<1>2. UNCHANGED <<user, temp, sessions, uses, locked, suspended, drawn>> BY DEF ClearFailures
<1>3. RowStays /\ SessionsStay /\ TempStays BY <1>2, SameRow, SameSessions, SameTemp
<1>4. FailuresStay(r)
  <2>1. failures' \in Nat /\ (failures' <= failures \/ (failures' = failures + 1 /\ req[r].at = "compare"))
    BY DEF ClearFailures, AccountsInv, Typed
  <2>2. locked' \in BOOLEAN /\ suspended' \in BOOLEAN BY <1>2 DEF AccountsInv, Typed
  <2> QED BY <2>1, <2>2 DEF FailuresStay
<1> QED BY <1>1, <1>3, <1>4, MovesKeeps

\* The second factor that was on all the time was on when the row was read.
LEMMA UnlockKeeps ==
    ASSUME AccountsInv, NEW r \in Requests, Unlock(r) PROVE AccountsInv'
<1>1. Moves(r)
  <2> DEFINE step == Proceed(req[r].two)
             q == [req[r] EXCEPT !.at = step]
  <2>1. step \in Steps /\ step \in {"challenge", "mint"} /\ (req[r].two => step = "challenge")
    BY DEF Proceed, Steps
  <2>2. req[r] \in Req /\ Fits(req[r], user.on) /\ user' = user /\ req[r].at = "unlock"
    BY DEF AccountsInv, Typed, Unlock
  <2>3. req' = [req EXCEPT ![r] = q] BY DEF Unlock
  <2> HIDE DEF step
  <2>4. q \in Req /\ q.at = step /\ q.on = req[r].on BY <2>1, <2>2, WithStep
  <2> HIDE DEF q
  <2>5. Fits(q, user'.on) BY <2>1, <2>2, <2>4 DEF Fits
  <2> QED BY <2>1, <2>3, <2>4, <2>5, MovesTo
<1>2. UNCHANGED <<user, temp, sessions, uses, failures, suspended, drawn>> BY DEF Unlock
<1>3. locked' \in BOOLEAN BY DEF Unlock, AccountsInv, Typed
<1>4. RowStays /\ SessionsStay /\ TempStays /\ FailuresStay(r)
  BY <1>2, <1>3, SameRow, SameSessions, SameTemp, SameFailures
<1> QED BY <1>1, <1>4, MovesKeeps
LEMMA NewRow ==
    ASSUME NEW n \in Drawn, NEW hash \in Secrets, NEW byGoogle \in BOOLEAN,
           user' = NewAccount(n, hash, byGoogle)
    PROVE  user' \in User /\ RowOpens'
<1>1. Wrap(hash, n, n) \in Wraps BY Numbers DEF Wrap, Wraps
<1>2. user'.wrap = Wrap(hash, n, n) /\ user'.hash = hash /\ user'.salt = n
      /\ user'.id = n /\ user'.pek = n /\ n # 0
  BY DEF NewAccount, Drawn
<1>3. user' \in User BY <1>1, Numbers DEF NewAccount, User
<1> QED BY <1>2, <1>3 DEF RowOpens

LEMMA RegistrationKeeps ==
    ASSUME AccountsInv, NEW r \in Requests, SubmitRegistration(r) PROVE AccountsInv'
<1>1. PICK p \in Passwords, n \in Drawn :
        /\ Draw(n)
        /\ IF user.id = 0
           THEN /\ user' = NewAccount(n, p, FALSE)
                /\ Begin(r, [Handler("mint", n) EXCEPT !.pw = p])
           ELSE req[r].at = "idle" /\ UNCHANGED <<user, req>>
        /\ UNCHANGED <<failures, locked, suspended, temp, sessions, uses>>
  BY DEF SubmitRegistration, RegisterUser
<1>2. Moves(r) /\ RowStays
  <2>1. CASE user.id = 0
    <3> DEFINE h == Handler("mint", n)
               q == [h EXCEPT !.pw = p]
    <3>1. ~user.on BY <2>1 DEF AccountsInv, RowOpens
    <3>2. h \in Req /\ h.at = "mint" /\ ~h.on
      <4>1. "mint" \in Steps /\ n \in DrawnOrNone /\ Typed BY Numbers DEF Steps, AccountsInv
      <4>2. h \in Req /\ h.at = "mint" /\ h.on = (user.id # 0 /\ user.on)
        BY <4>1, HandlerIs
      <4> QED BY <2>1, <4>2
    <3>3. req' = [req EXCEPT ![r] = q] BY <1>1, <2>1 DEF Begin
    <3> HIDE DEF h
    <3>4. q \in Req /\ q.at = "mint" /\ ~q.on BY <3>2 DEF Req, Secrets
    <3> HIDE DEF q
    <3>5. Fits(q, user'.on) BY <3>4 DEF Fits
    <3>6. Moves(r) BY <3>3, <3>4, <3>5, MovesTo
    <3>7. user' \in User /\ RowOpens' BY <1>1, <2>1, NewRow DEF Secrets
    <3> QED BY <3>1, <3>6, <3>7 DEF RowStays
  <2>2. CASE user.id # 0 BY <1>1, <2>2, Stays, SameRow
  <2> QED BY <2>1, <2>2
<1>3. SessionsStay /\ TempStays /\ FailuresStay(r)
  <2>1. UNCHANGED <<failures, locked, suspended, temp, sessions, uses>> BY <1>1
  <2>2. locked' \in BOOLEAN BY <2>1 DEF AccountsInv, Typed
  <2> QED BY <1>1, <2>1, <2>2, SameSessions, SameTemp, SameFailures
<1> QED BY <1>2, <1>3, MovesKeeps

LEMMA GoogleByEmailKeeps ==
    ASSUME AccountsInv, NEW r \in Requests, GoogleByEmail(r) PROVE AccountsInv'
<1>1. RowStays
  <2>1. user \in User /\ RowOpens /\ user' = [user EXCEPT !.google = TRUE]
    BY DEF GoogleByEmail, AccountsInv, Typed
  <2> QED BY <2>1 DEF RowStays, RowOpens, User
<1>2. Moves(r)
  <2> DEFINE step == Proceed(user.on)
             q == Handler(step, user.id)
  <2>1. /\ step \in Steps /\ step \in {"challenge", "mint"}
        /\ user.on => step = "challenge"
    BY DEF Proceed, Steps
  <2>2. Begin(r, q) BY DEF GoogleByEmail
  <2> HIDE DEF step
  <2>3. q \in Req /\ q.at = step /\ q.on = (user.id # 0 /\ user.on)
    BY <2>1, HandlerIs DEF AccountsInv, Typed, User
  <2> HIDE DEF q
  <2>4. user.on => user'.on BY <1>1 DEF RowStays
  <2>5. Fits(q, user'.on) BY <2>1, <2>3, <2>4 DEF Fits
  <2> QED BY <2>1, <2>2, <2>3, <2>5, MovesTo DEF Begin
<1>3. UNCHANGED <<failures, locked, suspended, temp, sessions, uses, drawn>> BY DEF GoogleByEmail
<1>4. locked' \in BOOLEAN BY <1>3 DEF AccountsInv, Typed
<1> QED BY <1>1, <1>2, <1>3, <1>4, SameSessions, SameTemp, SameFailures, MovesKeeps

LEMMA GoogleNewAddressKeeps ==
    ASSUME AccountsInv, NEW r \in Requests, GoogleNewAddress(r) PROVE AccountsInv'
<1>1. Moves(r)
  <2> DEFINE q == Handler("bygoogle", 0)
  <2>1. q \in Req /\ q.at = "bygoogle" /\ q.on = (user.id # 0 /\ user.on)
    BY HandlerIs, Numbers DEF Steps, AccountsInv
  <2>2. Begin(r, q) /\ user' = user BY DEF GoogleNewAddress
  <2> HIDE DEF q
  <2> QED BY <2>1, <2>2, Begins
<1>2. UNCHANGED <<user, temp, sessions, uses, failures, suspended, locked>> BY DEF GoogleNewAddress
<1>3. locked' \in BOOLEAN /\ (drawn' = drawn \/ \E n \in Drawn : Draw(n)) BY DEF GoogleNewAddress, AccountsInv, Typed
<1>4. RowStays /\ SessionsStay /\ TempStays /\ FailuresStay(r)
  BY <1>2, <1>3, SameRow, SameSessions, SameTemp, SameFailures
<1> QED BY <1>1, <1>4, MovesKeeps

LEMMA GoesOnMoves ==
    ASSUME AccountsInv, NEW r \in Requests, GoesOnWithRow(r), UNCHANGED user PROVE Moves(r)
<1>1. CASE suspended BY <1>1, Ends DEF GoesOnWithRow, End
<1>2. CASE ~suspended
  <2> DEFINE step == Proceed(user.on)
             q == [req[r] EXCEPT !.at = step, !.id = user.id]
  <2>1. /\ step \in Steps /\ step \in {"challenge", "mint"}
        /\ user.on => step = "challenge"
    BY DEF Proceed, Steps
  <2>2. req[r] \in Req /\ Fits(req[r], user.on) /\ user.id \in DrawnOrNone
    BY DEF AccountsInv, Typed, User
  <2>3. req' = [req EXCEPT ![r] = q] BY <1>2 DEF GoesOnWithRow
  <2> HIDE DEF step
  <2>4. q \in Req /\ q.at = step /\ q.on = req[r].on BY <2>1, <2>2 DEF Req
  <2> HIDE DEF q
  <2>5. Fits(q, user'.on) BY <2>1, <2>2, <2>4 DEF Fits
  <2> QED BY <2>1, <2>3, <2>4, <2>5, MovesTo
<1> QED BY <1>1, <1>2

LEMMA GoogleByIdKeeps ==
    ASSUME AccountsInv, NEW r \in Requests, GoogleById(r) PROVE AccountsInv'
<1>1. Moves(r)
  <2>1. user' = user /\ (GoesOnWithRow(r) \/ Goto(r, "ginsert")) BY DEF GoogleById
  <2> QED BY <2>1, GoesOnMoves, Goes
<1>2. UNCHANGED <<user, temp, sessions, uses, failures, suspended, locked>> BY DEF GoogleById
<1>3. locked' \in BOOLEAN /\ (drawn' = drawn \/ \E n \in Drawn : Draw(n)) BY DEF GoogleById, AccountsInv, Typed
<1>4. RowStays /\ SessionsStay /\ TempStays /\ FailuresStay(r)
  BY <1>2, <1>3, SameRow, SameSessions, SameTemp, SameFailures
<1> QED BY <1>1, <1>4, MovesKeeps

LEMMA GoogleRacedKeeps ==
    ASSUME AccountsInv, NEW r \in Requests, GoogleRaced(r) PROVE AccountsInv'
<1>1. Moves(r)
  <2>1. user' = user /\ (GoesOnWithRow(r) \/ End(r)) BY DEF GoogleRaced
  <2> QED BY <2>1, GoesOnMoves, Ends
<1>2. UNCHANGED <<user, temp, sessions, uses, failures, suspended, locked>> BY DEF GoogleRaced
<1>3. locked' \in BOOLEAN /\ (drawn' = drawn \/ \E n \in Drawn : Draw(n)) BY DEF GoogleRaced, AccountsInv, Typed
<1>4. RowStays /\ SessionsStay /\ TempStays /\ FailuresStay(r)
  BY <1>2, <1>3, SameRow, SameSessions, SameTemp, SameFailures
<1> QED BY <1>1, <1>4, MovesKeeps

LEMMA GoogleInsertKeeps ==
    ASSUME AccountsInv, NEW r \in Requests, GoogleInsert(r) PROVE AccountsInv'
<1>1. Moves(r) /\ RowStays
  <2>1. CASE user.id = 0
    <3>1. PICK n \in Drawn :
            /\ user' = NewAccount(n, Unguessable, TRUE)
            /\ req' = [req EXCEPT ![r].at = "mint", ![r].id = n]
      BY <2>1 DEF GoogleInsert
    <3> DEFINE q == [req[r] EXCEPT !.at = "mint", !.id = n]
    <3>2. ~user.on /\ req[r] \in Req /\ Fits(req[r], user.on) /\ n \in DrawnOrNone
      BY <2>1, Numbers DEF AccountsInv, Typed, RowOpens
    <3>3. req' = [req EXCEPT ![r] = q] BY <3>1
    <3>4. q \in Req /\ q.at = "mint" /\ q.on = req[r].on BY <3>2 DEF Req, Steps
    <3> HIDE DEF q
    <3>5. Fits(q, user'.on) BY <3>2, <3>4 DEF Fits
    <3>6. Moves(r) BY <3>3, <3>4, <3>5, MovesTo
    <3>7. user' \in User /\ RowOpens' BY <3>1, NewRow DEF Secrets
    <3> QED BY <3>2, <3>6, <3>7 DEF RowStays
  <2>2. CASE user.id # 0
    <3>1. Goto(r, "raced") /\ user' = user BY <2>2 DEF GoogleInsert
    <3> QED BY <3>1, Goes, SameRow
  <2> QED BY <2>1, <2>2
<1>2. UNCHANGED <<temp, sessions, uses, failures, suspended, locked>>
      /\ (drawn' = drawn \/ \E n \in Drawn : Draw(n))
  BY DEF GoogleInsert
<1>3. locked' \in BOOLEAN BY <1>2 DEF AccountsInv, Typed
<1>4. SessionsStay /\ TempStays /\ FailuresStay(r)
  BY <1>2, <1>3, SameSessions, SameTemp, SameFailures
<1> QED BY <1>1, <1>4, MovesKeeps

\* A challenge is put under a fresh number, taken, or forgotten.
LEMMA PutTemp ==
    ASSUME AccountsInv, NEW t \in Drawn, Draw(t), NEW x \in Temp,
           x.for = "recover" => x.key = x.id, temp' = [temp EXCEPT ![t] = x], uses' = uses
    PROVE  TempStays
<1>1. drawn \in Nat /\ Drawn \subseteq Nat /\ t = drawn + 1 /\ drawn' = t /\ t \in DrawnOrNone
  BY Numbers DEF Draw, AccountsInv, Typed
<1>2. temp' \in [Drawn -> Temp] /\ uses' \in [Drawn -> Nat] /\ drawn' \in DrawnOrNone
  BY <1>1 DEF AccountsInv, Typed
<1>3. \A u \in Drawn : temp'[u] = IF u = t THEN x ELSE temp[u] BY DEF AccountsInv, Typed
<1>4. \A u \in Drawn : Waits(u)' /\ uses'[u] <= 1
  <2> SUFFICES ASSUME NEW u \in Drawn PROVE Waits(u)' /\ uses'[u] <= 1 OBVIOUS
  <2>1. Waits(u) /\ uses[u] <= 1 /\ uses[u] \in Nat BY DEF AccountsInv, Typed
  <2>2. CASE u = t
    <3>1. uses[t] = 0 BY <1>1, <2>1, <2>2 DEF Waits
    <3> QED BY <1>1, <1>3, <2>2, <3>1 DEF Waits
  <2>3. CASE u # t BY <1>1, <1>3, <2>1, <2>3 DEF Waits
  <2> QED BY <2>2, <2>3
<1> QED BY <1>2, <1>4 DEF TempStays

LEMMA ForgetTemp ==
    ASSUME AccountsInv, NEW t \in Drawn, temp' = [temp EXCEPT ![t] = NoTemp],
           uses' = uses \/ (uses' = [uses EXCEPT ![t] = @ + 1] /\ temp[t].for # "none"),
           drawn' = drawn \/ \E n \in Drawn : Draw(n)
    PROVE  TempStays
<1>1. drawn \in Nat /\ Drawn \subseteq Nat BY Numbers DEF AccountsInv, Typed
<1>2. drawn' \in DrawnOrNone /\ drawn' \in Nat /\ drawn <= drawn'
  BY <1>1, Numbers DEF Draw, AccountsInv, Typed
<1>3. temp' \in [Drawn -> Temp] /\ uses' \in [Drawn -> Nat] BY IdleIs DEF AccountsInv, Typed
<1>4. \A u \in Drawn : temp'[u] = IF u = t THEN NoTemp ELSE temp[u] BY DEF AccountsInv, Typed
<1>5. \A u \in Drawn : u # t => uses'[u] = uses[u] BY DEF AccountsInv, Typed
<1>6. uses'[t] = uses[t] \/ (uses'[t] = uses[t] + 1 /\ temp[t].for # "none") BY DEF AccountsInv, Typed
<1>7. \A u \in Drawn : Waits(u)' /\ uses'[u] <= 1
  <2> SUFFICES ASSUME NEW u \in Drawn PROVE Waits(u)' /\ uses'[u] <= 1 OBVIOUS
  <2>1. Waits(u) /\ uses[u] <= 1 /\ uses[u] \in Nat BY DEF AccountsInv, Typed
  <2>2. CASE u = t
    <3>1. temp'[t] = NoTemp BY <1>4
    <3>2. t > drawn' => uses'[t] = 0 BY <1>1, <1>2, <1>6, <2>1, <2>2 DEF Waits
    <3>3. uses'[t] <= 1 BY <1>6, <2>1, <2>2 DEF Waits
    <3> QED BY <3>1, <3>2, <3>3, <2>2, IdleIs DEF Waits
  <2>3. CASE u # t BY <1>1, <1>2, <1>4, <1>5, <2>1, <2>3 DEF Waits
  <2> QED BY <2>2, <2>3
<1> QED BY <1>2, <1>3, <1>7 DEF TempStays

LEMMA ChallengeKeeps ==
    ASSUME AccountsInv, NEW r \in Requests, Challenge(r) PROVE AccountsInv'
<1>1. PICK t \in Drawn :
        /\ Draw(t)
        /\ temp' = [temp EXCEPT ![t] = [NoTemp EXCEPT !.for = "2fa", !.id = req[r].id]]
  BY DEF Challenge
<1> DEFINE x == [NoTemp EXCEPT !.for = "2fa", !.id = req[r].id]
<1>2. req[r].id \in DrawnOrNone BY DEF AccountsInv, Typed, Req
<1>3. x \in Temp /\ x.for = "2fa" BY <1>2, Numbers DEF NoTemp, Temp
<1>4. UNCHANGED <<user, failures, locked, suspended, sessions, uses>> /\ End(r) BY DEF Challenge
<1>5. TempStays
  <2> temp' = [temp EXCEPT ![t] = x] BY <1>1
  <2> HIDE DEF x
  <2> QED BY <1>1, <1>3, <1>4, PutTemp
<1>6. locked' \in BOOLEAN BY <1>4 DEF AccountsInv, Typed
<1> QED BY <1>4, <1>5, <1>6, Ends, SameRow, SameSessions, SameFailures, MovesKeeps

LEMMA CodeKeeps ==
    ASSUME AccountsInv, NEW r \in Requests, SubmitCode(r) PROVE AccountsInv'
<1>1. PICK t \in Drawn, c \in 0..drawn :
        /\ TakeTemp(t, "2fa")
        /\ Begin(r, [Handler("code", temp[t].id) EXCEPT !.code = c])
        /\ UNCHANGED <<user, failures, locked, suspended, sessions, drawn>>
  BY DEF SubmitCode, VerifyChallenge
<1>2. Moves(r)
  <2> DEFINE h == Handler("code", temp[t].id)
             q == [h EXCEPT !.code = c]
  <2>1. temp[t].id \in DrawnOrNone /\ c \in DrawnOrNone /\ "code" \in Steps /\ Typed
    <3>1. temp[t].id \in DrawnOrNone /\ Typed BY DEF AccountsInv, Typed, Temp
    <3>2. c \in DrawnOrNone BY AccountsAssumption DEF AccountsInv, Typed, DrawnOrNone
    <3> QED BY <3>1, <3>2 DEF Steps
  <2>2. h \in Req /\ h.at = "code" /\ h.on = (user.id # 0 /\ user.on) BY <2>1, HandlerIs
  <2>3. Begin(r, q) /\ user'.on = user.on BY <1>1
  <2> HIDE DEF h
  <2>4. q \in Req /\ q.at = "code" /\ q.on = h.on BY <2>1, <2>2 DEF Req
  <2> HIDE DEF q
  <2> QED BY <2>2, <2>3, <2>4, Begins
<1>3. TempStays BY <1>1, ForgetTemp DEF TakeTemp
<1>4. locked' \in BOOLEAN BY <1>1 DEF AccountsInv, Typed
<1> QED BY <1>1, <1>2, <1>3, <1>4, SameRow, SameSessions, SameFailures, MovesKeeps

LEMMA VerifyKeeps ==
    ASSUME AccountsInv, NEW r \in Requests, VerifyCode(r) PROVE AccountsInv'
<1>1. Moves(r)
  <2> DEFINE q == [req[r] EXCEPT !.at = "mint", !.factor = TRUE]
  <2>1. req' = [req EXCEPT ![r] = q] \/ End(r) BY DEF VerifyCode
  <2>2. user' = user /\ req[r] \in Req /\ Fits(req[r], user.on) BY DEF AccountsInv, Typed, VerifyCode
  <2>3. q \in Req /\ q.at = "mint" /\ q.factor /\ q.on = req[r].on BY <2>2 DEF Req, Steps
  <2> HIDE DEF q
  <2>4. Fits(q, user'.on) BY <2>2, <2>3 DEF Fits
  <2> QED BY <2>1, <2>3, <2>4, MovesTo, Ends
<1>2. UNCHANGED <<user, temp, sessions, uses, failures, suspended, locked>> BY DEF VerifyCode
<1>3. locked' \in BOOLEAN /\ (drawn' = drawn \/ \E n \in Drawn : Draw(n)) BY DEF VerifyCode, AccountsInv, Typed
<1>4. RowStays /\ SessionsStay /\ TempStays /\ FailuresStay(r)
  BY <1>2, <1>3, SameRow, SameSessions, SameTemp, SameFailures
<1> QED BY <1>1, <1>4, MovesKeeps

\* A session gets the key of its account, whichever way it opens it, and has not
\* been spared the second factor.
LEMMA MintKeeps ==
    ASSUME AccountsInv, NEW r \in Requests, Mint(r) PROVE AccountsInv'
<1>1. UNCHANGED <<user, failures, locked, suspended, temp, uses, drawn>> /\ End(r) BY DEF Mint
<1>2. locked' \in BOOLEAN BY <1>1 DEF AccountsInv, Typed
<1>3. SessionsStay
  <2> DEFINE n == [id |-> user.id, key |-> HeldKey(req[r]), spared |-> req[r].on /\ ~req[r].factor]
  <2>1. sessions' \subseteq sessions \/ (user.id # 0 /\ sessions' \subseteq sessions \cup {n})
    BY DEF Mint
  <2>2. HeldKey(req[r]) = user.id
    BY DEF HeldKey, VerifiedKey, PasswordKey, GoogleKey, AccountsInv, RowOpens, Wrap
  <2>3. n.id = user.id /\ n.key = HeldKey(req[r]) /\ n.spared = (req[r].on /\ ~req[r].factor)
    OBVIOUS
  <2>4. ~n.spared BY <2>3 DEF Mint, AccountsInv, Fits
  <2>5. n \in Session
    <3>1. user.id \in DrawnOrNone /\ (req[r].on /\ ~req[r].factor) \in BOOLEAN
      BY DEF AccountsInv, Typed, User
    <3> QED BY <2>2, <3>1 DEF Session
  <2> HIDE DEF n
  <2> QED BY <2>1, <2>2, <2>3, <2>4, <2>5 DEF SessionsStay, AccountsInv, Typed
<1> QED BY <1>1, <1>2, <1>3, Ends, SameRow, SameTemp, SameFailures, MovesKeeps
LEMMA PasswordKeeps ==
    ASSUME AccountsInv, NEW r \in Requests, SubmitPassword(r) PROVE AccountsInv'
<1>1. Moves(r)
  <2>1. PICK s \in sessions, p \in Passwords, n \in Drawn :
            Begin(r, NewPassword(Handler("change", s.id), p, n, s.key))
    BY DEF SubmitPassword, ChangePassword
  <2> DEFINE h == Handler("change", s.id)
             q == NewPassword(h, p, n, s.key)
  <2>2. s.id \in DrawnOrNone /\ s.key = s.id /\ Typed BY DEF AccountsInv, Typed, Session
  <2>3. h \in Req /\ h.at = "change" /\ h.id = s.id /\ h.on = (user.id # 0 /\ user.on)
    BY <2>2, HandlerIs DEF Steps
  <2>4. Begin(r, q) /\ user'.on = user.on BY <2>1 DEF SubmitPassword, ChangePassword
  <2> HIDE DEF h
  <2>5. q \in Req /\ q.at = "change" /\ q.on = h.on /\ q.id = h.id /\ q.key = s.key
    BY <2>2, <2>3, Numbers DEF Req, NewPassword, Secrets
  <2> HIDE DEF q
  <2> QED BY <2>2, <2>3, <2>4, <2>5, Begins
<1>2. UNCHANGED <<user, temp, sessions, uses, failures, suspended, locked>> BY DEF SubmitPassword, ChangePassword
<1>3. locked' \in BOOLEAN /\ (drawn' = drawn \/ \E n \in Drawn : Draw(n)) BY DEF SubmitPassword, ChangePassword, AccountsInv, Typed
<1>4. RowStays /\ SessionsStay /\ TempStays /\ FailuresStay(r)
  BY <1>2, <1>3, SameRow, SameSessions, SameTemp, SameFailures
<1> QED BY <1>1, <1>4, MovesKeeps

LEMMA RekeyIs ==
    ASSUME NEW u \in User, NEW q \in Req
    PROVE  LET v == Rekey(u, q)
           IN  v \in User /\ v.id = u.id /\ v.pek = u.pek /\ v.on = u.on /\ v.secret = u.secret
               /\ v.wrap = Wrap(v.hash, v.salt, q.key)
<1>1. Wrap(q.pw, q.n, q.key) \in Wraps BY DEF Wrap, Wraps, Req
<1> DEFINE w == Wrap(q.pw, q.n, q.key)
           v == [u EXCEPT !.hash = q.pw, !.salt = q.n, !.wrap = w]
<1>2. v = Rekey(u, q) BY DEF Rekey
<1>3. w \in Wraps BY <1>1
<1> HIDE DEF w
<1>4. v \in User /\ v.id = u.id /\ v.pek = u.pek /\ v.on = u.on /\ v.secret = u.secret
      /\ v.wrap = w /\ v.hash = q.pw /\ v.salt = q.n
  BY <1>3 DEF User, Req
<1> QED BY <1>2, <1>4 DEF w

\* What is stored for an account is its own key, under the salt stored with it.
LEMMA ChangeKeeps ==
    ASSUME AccountsInv, NEW r \in Requests, ChangeCommit(r) PROVE AccountsInv'
<1>1. RowStays
  <2>1. CASE user.id = req[r].id
    <3>1. user \in User /\ req[r] \in Req /\ RowOpens BY DEF AccountsInv, Typed
    <3>2. req[r].key = user.id BY <2>1 DEF AccountsInv, Fits, ChangeCommit
    <3>3. user' = Rekey(user, req[r]) BY <2>1 DEF ChangeCommit
    <3>4. user' \in User /\ user'.id = user.id /\ user'.pek = user.pek /\ user'.on = user.on
          /\ user'.secret = user.secret
          /\ user'.wrap = Wrap(user'.hash, user'.salt, req[r].key)
      BY <3>1, <3>3, RekeyIs
    <3> QED BY <3>1, <3>2, <3>4 DEF RowStays, RowOpens
  <2>2. CASE user.id # req[r].id BY <2>2, SameRow DEF ChangeCommit
  <2> QED BY <2>1, <2>2
<1>2. UNCHANGED <<failures, locked, suspended, temp, sessions, uses, drawn>> /\ End(r)
  BY DEF ChangeCommit
<1>3. locked' \in BOOLEAN BY <1>2 DEF AccountsInv, Typed
<1> QED BY <1>1, <1>2, <1>3, Ends, SameSessions, SameTemp, SameFailures, MovesKeeps

LEMMA CompleteCommitKeeps ==
    ASSUME AccountsInv, NEW r \in Requests, CompleteCommit(r) PROVE AccountsInv'
<1>1. RowStays
  <2>1. CASE user.id = req[r].id
    <3> DEFINE v == Rekey(user, req[r])
    <3>1. user \in User /\ req[r] \in Req /\ RowOpens BY DEF AccountsInv, Typed
    <3>2. req[r].key = user.id BY <2>1 DEF AccountsInv, Fits, CompleteCommit
    <3>3. user' = [v EXCEPT !.pek = req[r].key, !.code = req[r].n] BY <2>1 DEF CompleteCommit
    <3>4. v \in User /\ v.id = user.id /\ v.on = user.on /\ v.secret = user.secret
          /\ v.wrap = Wrap(v.hash, v.salt, req[r].key)
      BY <3>1, RekeyIs
    <3> HIDE DEF v
    <3>5. /\ user' \in User /\ user'.id = v.id /\ user'.pek = req[r].key /\ user'.on = v.on
          /\ user'.wrap = v.wrap /\ user'.hash = v.hash /\ user'.salt = v.salt
          /\ user'.secret = v.secret
      BY <3>1, <3>3, <3>4 DEF User, Req
    <3> QED BY <3>1, <3>2, <3>4, <3>5 DEF RowStays, RowOpens
  <2>2. CASE user.id # req[r].id BY <2>2, SameRow DEF CompleteCommit
  <2> QED BY <2>1, <2>2
<1>2. UNCHANGED <<failures, locked, suspended, temp, sessions, uses, drawn>> /\ End(r)
  BY DEF CompleteCommit
<1>3. locked' \in BOOLEAN BY <1>2 DEF AccountsInv, Typed
<1> QED BY <1>1, <1>2, <1>3, Ends, SameSessions, SameTemp, SameFailures, MovesKeeps

LEMMA RecoveryCodeKeeps ==
    ASSUME AccountsInv, NEW r \in Requests, SubmitRecoveryCode(r) PROVE AccountsInv'
<1>1. Moves(r)
  <2>1. PICK c \in 1..drawn :
            c = user.code /\ Begin(r, [Handler("token", user.id) EXCEPT !.key = user.pek, !.code = c])
    BY DEF SubmitRecoveryCode, RecoverAccount
  <2> DEFINE h == Handler("token", user.id)
             q == [h EXCEPT !.key = user.pek, !.code = user.code]
  <2>2. /\ user.id \in DrawnOrNone /\ user.pek \in DrawnOrNone /\ user.code \in DrawnOrNone
        /\ user.pek = user.id /\ Typed
    BY DEF AccountsInv, Typed, User, RowOpens
  <2>3. h \in Req /\ h.at = "token" /\ h.id = user.id /\ h.on = (user.id # 0 /\ user.on)
    BY <2>2, HandlerIs DEF Steps
  <2>4. Begin(r, q) /\ user'.on = user.on BY <2>1 DEF SubmitRecoveryCode, RecoverAccount
  <2> HIDE DEF h
  <2>5. q \in Req /\ q.at = "token" /\ q.on = h.on /\ q.id = h.id /\ q.key = user.pek
    BY <2>2, <2>3 DEF Req
  <2> HIDE DEF q
  <2> QED BY <2>2, <2>3, <2>4, <2>5, Begins
<1>2. UNCHANGED <<user, temp, sessions, uses, failures, suspended, locked>> BY DEF SubmitRecoveryCode, RecoverAccount
<1>3. locked' \in BOOLEAN /\ (drawn' = drawn \/ \E n \in Drawn : Draw(n)) BY DEF SubmitRecoveryCode, RecoverAccount, AccountsInv, Typed
<1>4. RowStays /\ SessionsStay /\ TempStays /\ FailuresStay(r)
  BY <1>2, <1>3, SameRow, SameSessions, SameTemp, SameFailures
<1> QED BY <1>1, <1>4, MovesKeeps

LEMMA TokenKeeps ==
    ASSUME AccountsInv, NEW r \in Requests, RecoverToken(r) PROVE AccountsInv'
<1>1. PICK t \in Drawn :
        /\ Draw(t)
        /\ temp' = [temp EXCEPT ![t] = [for |-> "recover", id |-> req[r].id,
                                       key |-> req[r].key, code |-> req[r].code]]
  BY DEF RecoverToken
<1> DEFINE x == [for |-> "recover", id |-> req[r].id, key |-> req[r].key, code |-> req[r].code]
<1>2. x \in Temp /\ x.key = x.id
  <2>1. req[r] \in Req /\ req[r].key = req[r].id BY DEF AccountsInv, Typed, Fits, RecoverToken
  <2> QED BY <2>1 DEF Req, Temp
<1>3. UNCHANGED <<user, failures, locked, suspended, sessions, uses>> /\ End(r) BY DEF RecoverToken
<1>4. TempStays
  <2> temp' = [temp EXCEPT ![t] = x] BY <1>1
  <2> HIDE DEF x
  <2> QED BY <1>1, <1>2, <1>3, PutTemp
<1>5. locked' \in BOOLEAN BY <1>3 DEF AccountsInv, Typed
<1> QED BY <1>3, <1>4, <1>5, Ends, SameRow, SameSessions, SameFailures, MovesKeeps

LEMMA NewPasswordKeeps ==
    ASSUME AccountsInv, NEW r \in Requests, SubmitNewPassword(r) PROVE AccountsInv'
<1>1. PICK t \in Drawn, p \in Passwords, n \in Drawn :
        /\ TakeTemp(t, "recover") /\ Draw(n)
        /\ Begin(r, [NewPassword(Handler("complete", temp[t].id), p, n, temp[t].key)
                     EXCEPT !.code = temp[t].code])
        /\ UNCHANGED <<user, failures, locked, suspended, sessions>>
  BY DEF SubmitNewPassword, Complete
<1>2. Moves(r)
  <2> DEFINE h == Handler("complete", temp[t].id)
             w == NewPassword(h, p, n, temp[t].key)
             q == [w EXCEPT !.code = temp[t].code]
  <2>1. /\ temp[t].id \in DrawnOrNone /\ temp[t].key \in DrawnOrNone
        /\ temp[t].code \in DrawnOrNone /\ Typed
    BY DEF AccountsInv, Typed, Temp
  <2>2. temp[t].key = temp[t].id BY <1>1 DEF TakeTemp, AccountsInv, Waits
  <2>3. h \in Req /\ h.at = "complete" /\ h.id = temp[t].id /\ h.on = (user.id # 0 /\ user.on)
    BY <2>1, HandlerIs DEF Steps
  <2>4. Begin(r, q) /\ user'.on = user.on BY <1>1
  <2> HIDE DEF h
  <2>5. w \in Req /\ w.at = "complete" /\ w.on = h.on /\ w.id = h.id /\ w.key = temp[t].key
    BY <2>1, <2>3, Numbers DEF Req, NewPassword, Secrets
  <2> HIDE DEF w
  <2>6. q \in Req /\ q.at = "complete" /\ q.on = w.on /\ q.id = w.id /\ q.key = w.key
    BY <2>1, <2>5 DEF Req
  <2> HIDE DEF q
  <2> QED BY <2>2, <2>3, <2>4, <2>5, <2>6, Begins
<1>3. TempStays BY <1>1, ForgetTemp DEF TakeTemp
<1>4. locked' \in BOOLEAN BY <1>1 DEF AccountsInv, Typed
<1> QED BY <1>1, <1>2, <1>3, <1>4, SameRow, SameSessions, SameFailures, MovesKeeps
LEMMA SetupKeeps ==
    ASSUME AccountsInv, NEW r \in Requests, StartSetup(r) PROVE AccountsInv'
<1>1. Moves(r)
  <2>1. PICK s \in sessions, n \in Drawn : Begin(r, [Handler("setup", s.id) EXCEPT !.n = n])
    BY DEF StartSetup, Generate2FASecret
  <2> DEFINE h == Handler("setup", s.id)
             q == [h EXCEPT !.n = n]
  <2>2. s.id \in DrawnOrNone /\ s.id # 0 /\ Typed BY DEF AccountsInv, Typed, Session
  <2>3. h \in Req /\ h.at = "setup" /\ h.id = s.id /\ h.on = (user.id # 0 /\ user.on)
    BY <2>2, HandlerIs DEF Steps
  <2>4. Begin(r, q) /\ user'.on = user.on BY <2>1 DEF StartSetup, Generate2FASecret
  <2> HIDE DEF h
  <2>5. q \in Req /\ q.at = "setup" /\ q.on = h.on /\ q.id = h.id BY <2>3, Numbers DEF Req
  <2> HIDE DEF q
  <2> QED BY <2>2, <2>3, <2>4, <2>5, Begins
<1>2. UNCHANGED <<user, temp, sessions, uses, failures, suspended, locked>> BY DEF StartSetup, Generate2FASecret
<1>3. locked' \in BOOLEAN /\ (drawn' = drawn \/ \E n \in Drawn : Draw(n)) BY DEF StartSetup, Generate2FASecret, AccountsInv, Typed
<1>4. RowStays /\ SessionsStay /\ TempStays /\ FailuresStay(r)
  BY <1>2, <1>3, SameRow, SameSessions, SameTemp, SameFailures
<1> QED BY <1>1, <1>4, MovesKeeps

LEMMA SetupCommitKeeps ==
    ASSUME AccountsInv, NEW r \in Requests, SetupCommit(r) PROVE AccountsInv'
<1>1. RowStays
  <2>1. CASE user.id = req[r].id
    <3>1. user \in User /\ req[r] \in Req /\ RowOpens /\ req[r].id # 0
      BY DEF AccountsInv, Typed, Fits, SetupCommit
    <3>2. user' = [user EXCEPT !.secret = req[r].n] BY <2>1 DEF SetupCommit
    <3> QED BY <2>1, <3>1, <3>2 DEF RowStays, RowOpens, User, Req
  <2>2. CASE user.id # req[r].id BY <2>2, SameRow DEF SetupCommit
  <2> QED BY <2>1, <2>2
<1>2. UNCHANGED <<failures, locked, suspended, temp, sessions, uses, drawn>> /\ End(r)
  BY DEF SetupCommit
<1>3. locked' \in BOOLEAN BY <1>2 DEF AccountsInv, Typed
<1> QED BY <1>1, <1>2, <1>3, Ends, SameSessions, SameTemp, SameFailures, MovesKeeps

LEMMA ConfirmKeeps ==
    ASSUME AccountsInv, NEW r \in Requests, ConfirmSetup(r) PROVE AccountsInv'
<1>1. Moves(r)
  <2>1. PICK s \in sessions : Begin(r, Handler("enable", s.id))
    BY DEF ConfirmSetup, Verify2FASetup
  <2> DEFINE q == Handler("enable", s.id)
  <2>2. s.id \in DrawnOrNone /\ s.id # 0 /\ Typed BY DEF AccountsInv, Typed, Session
  <2>3. q \in Req /\ q.at = "enable" /\ q.id = s.id /\ q.on = (user.id # 0 /\ user.on)
    BY <2>2, HandlerIs DEF Steps
  <2>4. Begin(r, q) /\ user'.on = user.on BY <2>1 DEF ConfirmSetup, Verify2FASetup
  <2> HIDE DEF q
  <2> QED BY <2>2, <2>3, <2>4, Begins
<1>2. UNCHANGED <<user, temp, sessions, uses, failures, suspended, locked>> BY DEF ConfirmSetup, Verify2FASetup
<1>3. locked' \in BOOLEAN /\ (drawn' = drawn \/ \E n \in Drawn : Draw(n)) BY DEF ConfirmSetup, Verify2FASetup, AccountsInv, Typed
<1>4. RowStays /\ SessionsStay /\ TempStays /\ FailuresStay(r)
  BY <1>2, <1>3, SameRow, SameSessions, SameTemp, SameFailures
<1> QED BY <1>1, <1>4, MovesKeeps

LEMMA EnableKeeps ==
    ASSUME AccountsInv, NEW r \in Requests, EnableCommit(r) PROVE AccountsInv'
<1>1. RowStays
  <2>1. CASE user.id = req[r].id
    <3>1. user \in User /\ req[r] \in Req /\ RowOpens /\ req[r].id # 0
      BY DEF AccountsInv, Typed, Fits, EnableCommit
    <3>2. user' = [user EXCEPT !.on = TRUE] BY <2>1 DEF EnableCommit
    <3> QED BY <2>1, <3>1, <3>2 DEF RowStays, RowOpens, User, Req
  <2>2. CASE user.id # req[r].id BY <2>2, SameRow DEF EnableCommit
  <2> QED BY <2>1, <2>2
<1>2. UNCHANGED <<failures, locked, suspended, temp, sessions, uses, drawn>> /\ End(r)
  BY DEF EnableCommit
<1>3. locked' \in BOOLEAN BY <1>2 DEF AccountsInv, Typed
<1> QED BY <1>1, <1>2, <1>3, Ends, SameSessions, SameTemp, SameFailures, MovesKeeps

LEMMA SwitchOffKeeps ==
    ASSUME AccountsInv, NEW r \in Requests, SwitchOff(r) PROVE AccountsInv'
<1>1. Moves(r)
  <2>1. PICK s \in sessions : Begin(r, Handler("disable", s.id))
    BY DEF SwitchOff, Disable2FA
  <2> DEFINE q == Handler("disable", s.id)
  <2>2. s.id \in DrawnOrNone /\ Typed BY DEF AccountsInv, Typed, Session
  <2>3. q \in Req /\ q.at = "disable" /\ q.on = (user.id # 0 /\ user.on)
    BY <2>2, HandlerIs DEF Steps
  <2>4. Begin(r, q) /\ user'.on = user.on BY <2>1 DEF SwitchOff, Disable2FA
  <2> HIDE DEF q
  <2> QED BY <2>2, <2>3, <2>4, Begins
<1>2. UNCHANGED <<user, temp, sessions, uses, failures, suspended, locked>> BY DEF SwitchOff, Disable2FA
<1>3. locked' \in BOOLEAN /\ (drawn' = drawn \/ \E n \in Drawn : Draw(n)) BY DEF SwitchOff, Disable2FA, AccountsInv, Typed
<1>4. RowStays /\ SessionsStay /\ TempStays /\ FailuresStay(r)
  BY <1>2, <1>3, SameRow, SameSessions, SameTemp, SameFailures
<1> QED BY <1>1, <1>4, MovesKeeps

LEMMA CrashKeeps ==
    ASSUME AccountsInv, NEW r \in Requests, Crash(r) PROVE AccountsInv'
<1>1. Moves(r) BY Ends DEF Crash
<1>2. UNCHANGED <<user, temp, sessions, uses, failures, suspended, locked>> BY DEF Crash
<1>3. locked' \in BOOLEAN /\ (drawn' = drawn \/ \E n \in Drawn : Draw(n)) BY DEF Crash, AccountsInv, Typed
<1>4. RowStays /\ SessionsStay /\ TempStays /\ FailuresStay(r)
  BY <1>2, <1>3, SameRow, SameSessions, SameTemp, SameFailures
<1> QED BY <1>1, <1>4, MovesKeeps

\* What no request does, or what changes all of them: none begins to compare.
LEMMA RestKeeps ==
    ASSUME AccountsInv, user' \in User, RowOpens', SessionsStay, TempStays,
           failures' \in Nat, failures' <= failures, locked' \in BOOLEAN, suspended' \in BOOLEAN,
           req' \in [Requests -> Req],
           \A r \in Requests : Fits(req'[r], user'.on),
           \A r \in Requests : req'[r].at = "compare" => req[r].at = "compare"
    PROVE  AccountsInv'
<1>1. Typed' BY DEF Typed, SessionsStay, TempStays
<1>2. Guesses'
  <2>1. Comparing' \subseteq Comparing BY DEF Comparing
  <2>2. IsFiniteSet(Requests) /\ IsFiniteSet(Comparing)
    BY AccountsAssumption, FS_Subset DEF Comparing
  <2>3. Cardinality(Comparing') <= Cardinality(Comparing) /\ IsFiniteSet(Comparing')
    BY <2>1, <2>2, FS_Subset
  <2>4. /\ Cardinality(Comparing') \in Nat /\ Cardinality(Comparing) \in Nat
        /\ Cardinality(Requests) \in Nat
    BY <2>2, <2>3, FS_CardinalityType
  <2> QED BY <2>3, <2>4, AccountsAssumption DEF AccountsInv, Typed, Guesses
<1> QED BY <1>1, <1>2 DEF AccountsInv, SessionsStay, TempStays

\* When the second factor is switched off, no request has seen it on all the time.
LEMMA SwitchedOffIs ==
    ASSUME NEW rs \in [Requests -> Req], req' = SwitchedOff(rs), NEW on \in BOOLEAN,
           \A r \in Requests : Fits(rs[r], on)
    PROVE  /\ req' \in [Requests -> Req]
           /\ \A r \in Requests : Fits(req'[r], FALSE) /\ req'[r].at = rs[r].at
<1>1. \A r \in Requests : /\ req'[r] = [rs[r] EXCEPT !.on = FALSE]
                          /\ rs[r] \in Req
  BY DEF SwitchedOff
<1>2. \A q \in Req : LET x == [q EXCEPT !.on = FALSE]
                     IN  x \in Req /\ x.at = q.at /\ ~x.on /\ x.key = q.key /\ x.id = q.id
  BY DEF Req
<1>3. \A r \in Requests : /\ req'[r] \in Req /\ req'[r].at = rs[r].at /\ ~req'[r].on
                          /\ req'[r].key = rs[r].key /\ req'[r].id = rs[r].id
  <2>1. SUFFICES ASSUME NEW r \in Requests
        PROVE  /\ req'[r] \in Req /\ req'[r].at = rs[r].at /\ ~req'[r].on
               /\ req'[r].key = rs[r].key /\ req'[r].id = rs[r].id
    OBVIOUS
  <2>2. PICK q \in Req : q = rs[r]
    BY <1>1
  <2>3. req'[r] = [q EXCEPT !.on = FALSE]
    BY <1>1, <2>2
  <2> QED
    BY ONLY <1>2, <2>2, <2>3
<1>4. req' = [r \in Requests |-> req'[r]] BY DEF SwitchedOff
<1>5. req' \in [Requests -> Req] BY <1>3, <1>4
<1>6. \A r \in Requests : Fits(req'[r], FALSE) BY <1>3 DEF Fits
<1> QED BY <1>3, <1>5, <1>6

LEMMA DisableKeeps ==
    ASSUME AccountsInv, NEW r \in Requests, DisableCommit(r) PROVE AccountsInv'
<1>1. UNCHANGED <<failures, locked, suspended, temp, sessions, uses, drawn>> BY DEF DisableCommit
<1>2. SessionsStay /\ TempStays BY <1>1, SameSessions, SameTemp
<1>3. /\ failures' \in Nat /\ failures' <= failures BY <1>1 DEF AccountsInv, Typed
<1>4. locked' \in BOOLEAN /\ suspended' \in BOOLEAN BY <1>1 DEF AccountsInv, Typed
<1>5. CASE user.id = req[r].id
  <2> DEFINE rs == [req EXCEPT ![r] = Idle]
  <2>1. user' = [user EXCEPT !.on = FALSE, !.secret = 0] /\ req' = SwitchedOff(rs)
    BY <1>5 DEF DisableCommit
  <2>2. user \in User /\ RowOpens /\ user.on \in BOOLEAN BY DEF AccountsInv, Typed, User
  <2>3. user' \in User /\ RowOpens' /\ user'.on = FALSE BY <2>1, <2>2, Numbers DEF User, RowOpens
  <2>4. rs \in [Requests -> Req] BY IdleIs DEF AccountsInv, Typed
  <2>5. \A o \in Requests : rs[o] = IF o = r THEN Idle ELSE req[o] BY DEF AccountsInv, Typed
  <2>6. \A o \in Requests : Fits(rs[o], user.on) BY <2>5, IdleIs DEF AccountsInv, Fits
  <2>7. \A o \in Requests : rs[o].at = "compare" => req[o].at = "compare" BY <2>5, IdleIs
  <2> HIDE DEF rs
  <2>8. /\ req' \in [Requests -> Req]
        /\ \A o \in Requests : Fits(req'[o], FALSE) /\ req'[o].at = rs[o].at
    BY <2>1, <2>2, <2>4, <2>6, SwitchedOffIs
  <2> QED BY <1>2, <1>3, <1>4, <2>3, <2>7, <2>8, RestKeeps
<1>6. CASE user.id # req[r].id
  <2>1. End(r) /\ user' = user BY <1>6 DEF DisableCommit
  <2> QED BY <1>1, <1>2, <1>4, <2>1, Ends, SameRow, SameFailures, MovesKeeps
<1> QED BY <1>5, <1>6

LEMMA DeleteKeeps == ASSUME AccountsInv, DeleteUser PROVE AccountsInv'
<1>1. UNCHANGED <<temp, sessions, uses, drawn>> /\ user' = NoUser /\ req' = SwitchedOff(req)
      /\ failures' = 0 /\ locked' = FALSE /\ suspended' = FALSE
  BY DEF DeleteUser
<1>2. SessionsStay /\ TempStays BY <1>1, SameSessions, SameTemp
<1>3. user' \in User /\ RowOpens' /\ user'.on = FALSE
  BY <1>1, Numbers DEF NoUser, User, Wrap, Wraps, Secrets, RowOpens
<1>4. req \in [Requests -> Req] /\ user.on \in BOOLEAN /\ \A r \in Requests : Fits(req[r], user.on)
  BY DEF AccountsInv, Typed, User
<1>5. /\ req' \in [Requests -> Req]
      /\ \A r \in Requests : Fits(req'[r], FALSE) /\ req'[r].at = req[r].at
  BY <1>1, <1>4, SwitchedOffIs
<1>6. failures' \in Nat /\ failures' <= failures BY <1>1 DEF AccountsInv, Typed
<1> QED BY <1>1, <1>2, <1>3, <1>5, <1>6, RestKeeps

\* An admin acts, or time passes.
LEMMA TimeKeeps ==
    ASSUME AccountsInv, SetSuspended \/ WindowPasses \/ TempExpires PROVE AccountsInv'
<1>1. UNCHANGED <<user, req, sessions, uses, drawn>>
  BY DEF SetSuspended, WindowPasses, TempExpires
<1>2. RowStays /\ SessionsStay BY <1>1, SameRow, SameSessions
<1>3. TempStays
  <2>1. temp' = temp \/ \E t \in Drawn : temp' = [temp EXCEPT ![t] = NoTemp]
    BY DEF SetSuspended, WindowPasses, TempExpires
  <2> QED BY <1>1, <2>1, SameTemp, ForgetTemp
<1>4. failures' \in Nat /\ failures' <= failures
  BY DEF SetSuspended, WindowPasses, TempExpires, AccountsInv, Typed
<1>5. locked' \in BOOLEAN /\ suspended' \in BOOLEAN
  BY DEF SetSuspended, WindowPasses, TempExpires, AccountsInv, Typed
<1>6. req' \in [Requests -> Req] /\ \A r \in Requests : req'[r] = req[r] /\ Fits(req'[r], user'.on)
  BY <1>1 DEF AccountsInv, Typed
<1> QED BY <1>2, <1>3, <1>4, <1>5, <1>6, RestKeeps DEF RowStays

LEMMA StutterKeeps == ASSUME AccountsInv, UNCHANGED accountVars PROVE AccountsInv'
<1>1. UNCHANGED <<user, req, sessions, uses, drawn, temp, failures, locked, suspended>> BY DEF accountVars
<1>2. RowStays /\ SessionsStay /\ TempStays BY <1>1, SameRow, SameSessions, SameTemp
<1>3. failures' \in Nat /\ failures' <= failures BY <1>1 DEF AccountsInv, Typed
<1>4. locked' \in BOOLEAN /\ suspended' \in BOOLEAN BY <1>1 DEF AccountsInv, Typed
<1>5. req' \in [Requests -> Req] /\ \A r \in Requests : req'[r] = req[r] /\ Fits(req'[r], user'.on)
  BY <1>1 DEF AccountsInv, Typed
<1> QED BY <1>2, <1>3, <1>4, <1>5, RestKeeps DEF RowStays

LEMMA StepKeeps == AccountsInv /\ [AccountsNext]_accountVars => AccountsInv'
<1> SUFFICES ASSUME AccountsInv, [AccountsNext]_accountVars PROVE AccountsInv' OBVIOUS
<1>1. CASE UNCHANGED accountVars BY <1>1, StutterKeeps
<1>2. ASSUME NEW r \in Requests,
             \/ SubmitRegistration(r) \/ SubmitLogin(r) \/ CountFailures(r) \/ ComparePassword(r)
             \/ LockAccount(r) \/ ClearFailures(r) \/ Unlock(r)
      PROVE  AccountsInv'
  BY <1>2, RegistrationKeeps, LoginKeepsAccount, CountKeeps, CompareKeeps, LockKeeps, ClearKeeps, UnlockKeeps
<1>3. ASSUME NEW r \in Requests,
             \/ GoogleByEmail(r) \/ GoogleNewAddress(r) \/ GoogleById(r)
             \/ GoogleInsert(r) \/ GoogleRaced(r)
      PROVE  AccountsInv'
  BY <1>3, GoogleByEmailKeeps, GoogleNewAddressKeeps, GoogleByIdKeeps, GoogleInsertKeeps,
     GoogleRacedKeeps
<1>4. ASSUME NEW r \in Requests,
             Challenge(r) \/ SubmitCode(r) \/ VerifyCode(r) \/ Mint(r) \/ Crash(r)
      PROVE  AccountsInv'
  BY <1>4, ChallengeKeeps, CodeKeeps, VerifyKeeps, MintKeeps, CrashKeeps
<1>5. ASSUME NEW r \in Requests,
             \/ SubmitPassword(r) \/ ChangeCommit(r) \/ SubmitRecoveryCode(r) \/ RecoverToken(r)
             \/ SubmitNewPassword(r) \/ CompleteCommit(r)
      PROVE  AccountsInv'
  BY <1>5, PasswordKeeps, ChangeKeeps, RecoveryCodeKeeps, TokenKeeps, NewPasswordKeeps,
     CompleteCommitKeeps
<1>6. ASSUME NEW r \in Requests,
             \/ StartSetup(r) \/ SetupCommit(r) \/ ConfirmSetup(r) \/ EnableCommit(r)
             \/ SwitchOff(r) \/ DisableCommit(r)
      PROVE  AccountsInv'
  BY <1>6, SetupKeeps, SetupCommitKeeps, ConfirmKeeps, EnableKeeps, SwitchOffKeeps, DisableKeeps
<1>7. CASE SetSuspended \/ DeleteUser \/ WindowPasses \/ TempExpires
  BY <1>7, DeleteKeeps, TimeKeeps
<1> QED BY <1>1, <1>2, <1>3, <1>4, <1>5, <1>6, <1>7 DEF AccountsNext

LEMMA Invariance == AccountsSpec => []AccountsInv
  BY AccountsInitHolds, StepKeeps, PTL DEF AccountsSpec

-----------------------------------------------------------------------------
\* The variables keep their types, for any requests, passwords and draws.
THEOREM AccountTypes == AccountsSpec => []AccountsTypeOK
  BY Invariance, IInvImplies, PTL

\* Whatever changes of the password, recoveries, registrations and deletions
\* interleave or stop half way, the row opens with its password to the key of its
\* account, and every client that signed in holds that key.
THEOREM KeysStayTogether == AccountsSpec => []KeysAgree
  BY Invariance, IInvImplies, PTL

\* No way to sign in spares a second factor that was on all the time.
THEOREM SecondFactorIsAsked == AccountsSpec => []SecondFactorEverywhere
  BY Invariance, IInvImplies, PTL

\* No challenge is taken twice.
THEOREM ChallengesAreTakenOnce == AccountsSpec => []ChallengesUsedOnce
  BY Invariance, IInvImplies, PTL

\* Requests at once add no more guesses than there are requests.
THEOREM GuessesStayBounded == AccountsSpec => []GuessesBounded
  BY Invariance, IInvImplies, PTL
=============================================================================

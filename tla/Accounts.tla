------------------------------ MODULE Accounts ------------------------------
(***************************************************************************)
(* The credentials of one e-mail address: its row in users, the failed     *)
(* logins that lock it, the challenges that wait in Redis, and the         *)
(* requests that race for them (services/authService.ts,                   *)
(* passwordService.ts, twoFactorService.ts, redis.ts, routes/auth.ts, with *)
(* what authStore.ts, RecoveryPage.tsx and SecuritySettings.tsx send).     *)
(*                                                                         *)
(* A request is a process; the steps of its handler end at its awaits, and *)
(* a transaction that holds the row is one step.  Whatever is drawn at     *)
(* random (an account id, a salt, a code, a secret, a challenge) is the    *)
(* next number.  The key that encrypts the data of an account has the      *)
(* number of the account.                                                  *)
(* Left out: the cookie and the refresh tokens (Sessions), the cache in    *)
(* front of the restrictions (Restrictions), the limits of the routes, and *)
(* /backfill-pek, which no client calls.                                   *)
(***************************************************************************)
EXTENDS Naturals, FiniteSets

CONSTANTS
    Requests,         \* requests that run at once
    Passwords,        \* passwords of the user, and wrong guesses
    Unguessable,      \* the internalPass of an account made by Google
    MaxLoginAttempts, \* config.MAX_LOGIN_ATTEMPTS
    MaxDrawn          \* bound: random values drawn in a behaviour

ASSUME AccountsAssumption ==
    /\ IsFiniteSet(Requests) /\ Unguessable \notin Passwords
    /\ MaxLoginAttempts \in Nat \ {0} /\ MaxDrawn \in Nat \ {0}

VARIABLES
    user,      \* the row of the address, id 0 when there is none
    failures,  \* its login_failed rows in the window
    locked,    \* users.locked_until lies ahead
    suspended, \* assertUserNotRestricted refuses the user
    temp,      \* Redis: what is stored for each challenge
    req,       \* the handler of each request
    sessions,  \* clients signed in: the account, the key they hold
    uses,      \* history: what was done with each challenge
    drawn      \* random values drawn

accountVars == <<user, failures, locked, suspended, temp, req, sessions, uses, drawn>>

Drawn == 1..MaxDrawn
DrawnOrNone == 0..MaxDrawn
Secrets == Passwords \cup {Unguessable}

\* encryptPEK(key, deriveWrappingKey(password, salt)); by Unguessable it is
\* the key in the clear, which googleLogin stores.
Wrap(password, salt, key) == [by |-> password, salt |-> salt, key |-> key]

NoUser == [id |-> 0, hash |-> Unguessable, salt |-> 0,
           wrap |-> Wrap(Unguessable, 0, 0), pek |-> 0, code |-> 0,
           google |-> FALSE, on |-> FALSE, secret |-> 0]
NoTemp == [for |-> "none", id |-> 0, key |-> 0, code |-> 0]
\* A handler as it begins; on: the second factor is on.
FreshHandler(step, id, on) ==
    [at |-> step, id |-> id, pw |-> Unguessable, n |-> 0, key |-> 0, code |-> 0,
     count |-> 0, right |-> FALSE, two |-> FALSE, factor |-> FALSE, on |-> on]
Idle == FreshHandler("idle", 0, FALSE)

Steps == {"idle", "insert", "count", "compare", "lock", "clear", "unlock",
          "bygoogle", "ginsert", "raced", "challenge", "mint", "code", "change",
          "token", "complete", "setup", "enable", "disable"}

Wraps == [by : Secrets, salt : DrawnOrNone, key : DrawnOrNone]

AccountsTypeOK ==
    /\ user \in [id : DrawnOrNone, hash : Secrets, salt : DrawnOrNone, wrap : Wraps,
                 pek : DrawnOrNone, code : DrawnOrNone, google : BOOLEAN,
                 on : BOOLEAN, secret : DrawnOrNone]
    /\ failures \in Nat /\ locked \in BOOLEAN /\ suspended \in BOOLEAN
    /\ temp \in [Drawn -> [for : {"none", "2fa", "recover"}, id : DrawnOrNone,
                           key : DrawnOrNone, code : DrawnOrNone]]
    /\ req \in [Requests -> [at : Steps, id : DrawnOrNone, pw : Secrets,
                             n : DrawnOrNone, key : DrawnOrNone,
                             code : DrawnOrNone, count : 0..MaxLoginAttempts,
                             right : BOOLEAN, two : BOOLEAN,
                             factor : BOOLEAN, on : BOOLEAN]]
    /\ sessions \subseteq [id : DrawnOrNone, key : DrawnOrNone, spared : BOOLEAN]
    /\ uses \in [Drawn -> Nat] /\ drawn \in DrawnOrNone

\* The address is free, or has an account that a password or Google made,
\* with or without a second factor.
AccountsInit ==
    /\ \E hash \in Secrets, google, on \in BOOLEAN :
        /\ hash = Unguessable => google
        /\ user \in {NoUser,
                     [id |-> 1, hash |-> hash, salt |-> 1, wrap |-> Wrap(hash, 1, 1),
                      pek |-> 1, code |-> 1, google |-> google, on |-> on,
                      secret |-> IF on THEN 1 ELSE 0]}
    /\ failures = 0 /\ locked = FALSE /\ suspended = FALSE
    /\ temp = [t \in Drawn |-> NoTemp]
    /\ req = [r \in Requests |-> Idle]
    /\ sessions = IF user.id = 0 THEN {}
                  ELSE {[id |-> 1, key |-> 1, spared |-> FALSE]}
    /\ uses = [t \in Drawn |-> 0]
    /\ drawn = 1

-----------------------------------------------------------------------------
(* Requests and their steps *)

\* A request begins its handler with the fields of q.
Begin(r, q) == /\ req[r].at = "idle" /\ req' = [req EXCEPT ![r] = q]
Goto(r, step) == req' = [req EXCEPT ![r].at = step]
End(r) == req' = [req EXCEPT ![r] = Idle]
Draw(n) == /\ n = drawn + 1 /\ n <= MaxDrawn /\ drawn' = n

\* What is known of the second factor when a request begins.
Handler(step, id) == FreshHandler(step, id, user.id # 0 /\ user.on)

\* After the first factor: a challenge, or a session.
Proceed(two) == IF two THEN "challenge" ELSE "mint"

\* No request from now on has seen the second factor on all the time.
SwitchedOff(rs) == [r \in Requests |-> [rs[r] EXCEPT !.on = FALSE]]

\* authStore.login opens the wrapped key with the password it has, and falls
\* back on the copy of the server; authStore.register holds the key already.
PasswordKey(password) ==
    IF user.wrap.by = password /\ user.wrap.salt = user.salt
    THEN user.wrap.key ELSE user.pek

\* authStore.googleLogin takes the copy of the server,
GoogleKey == user.pek

\* and so does authStore.verify2FA, whichever way the user came.
VerifiedKey == user.pek

HeldKey(q) == IF q.factor THEN VerifiedKey
              ELSE IF q.pw \in Passwords THEN PasswordKey(q.pw) ELSE GoogleKey

\* generateTokens and the answer: the INSERT fails for a user deleted since.
Mint(r) ==
    /\ req[r].at = "mint"
    /\ sessions' = IF user.id # 0 /\ user.id = req[r].id
                   THEN sessions \cup {[id |-> user.id, key |-> HeldKey(req[r]),
                                        spared |-> req[r].on /\ ~req[r].factor]}
                   ELSE sessions
    /\ End(r)
    /\ UNCHANGED <<user, failures, locked, suspended, temp, uses, drawn>>

\* setTempToken('2fa-login'): the answer asks for the second factor.
Challenge(r) ==
    \E t \in Drawn :
        /\ req[r].at = "challenge" /\ Draw(t)
        /\ temp' = [temp EXCEPT ![t] = [NoTemp EXCEPT !.for = "2fa", !.id = req[r].id]]
        /\ End(r)
        /\ UNCHANGED <<user, failures, locked, suspended, sessions, uses>>

\* The process stops, or a query fails, between two steps.
Crash(r) ==
    /\ req[r].at # "idle" /\ End(r)
    /\ UNCHANGED <<user, failures, locked, suspended, temp, sessions, uses, drawn>>

-----------------------------------------------------------------------------
(* Registration and login with a password *)

\* What authStore.register sends, and the INSERT it becomes: a new salt, a new
\* key wrapped by the password, the copy for the server, a recovery code.
NewAccount(n, hash, byGoogle) ==
    [id |-> n, hash |-> hash, salt |-> n, wrap |-> Wrap(hash, n, n), pek |-> n,
     code |-> n, google |-> byGoogle, on |-> FALSE, secret |-> 0]

\* registerUser: the SELECT ... FOR UPDATE finds no row to lock, the unique
\* index refuses the second of two INSERTs.
RegisterUser(r, p) ==
    \E n \in Drawn :
        /\ Draw(n)
        /\ IF user.id = 0
           THEN /\ user' = NewAccount(n, p, FALSE)
                /\ Begin(r, [Handler("mint", n) EXCEPT !.pw = p])
           ELSE req[r].at = "idle" /\ UNCHANGED <<user, req>>
        /\ UNCHANGED <<failures, locked, suspended, temp, sessions, uses>>

\* RegisterPage and LoginPage, with whatever password the user types.
SubmitRegistration(r) == \E p \in Passwords : RegisterUser(r, p)

\* loginUser reads the row, the restrictions and the lock.
LoginUser(r, p) ==
    /\ user.id # 0 /\ ~suspended /\ ~locked
    /\ Begin(r, [Handler("count", user.id) EXCEPT !.pw = p, !.two = user.on,
                                                 !.right = (p = user.hash)])
    /\ UNCHANGED <<user, failures, locked, suspended, temp, sessions, uses, drawn>>

SubmitLogin(r) == \E p \in Passwords : LoginUser(r, p)

\* Fault: one failure more before the account is locked.
CountOneMore(r) ==
    /\ req[r].at = "count"
    /\ IF failures > MaxLoginAttempts
       THEN End(r) /\ locked' = TRUE
       ELSE /\ req' = [req EXCEPT ![r].at = "compare", ![r].count = failures]
            /\ UNCHANGED locked
    /\ UNCHANGED <<user, failures, suspended, temp, sessions, uses, drawn>>

\* Fault: the failures are read, and the limit is not looked at.
CountWithoutLimit(r) ==
    /\ req[r].at = "count"
    /\ req' = [req EXCEPT ![r].at = "compare", ![r].count = failures]
    /\ UNCHANGED <<user, failures, locked, suspended, temp, sessions, uses, drawn>>

\* The failures in the window are counted before the password is compared.
CountFailures(r) ==
    /\ req[r].at = "count"
    /\ IF failures >= MaxLoginAttempts
       THEN End(r) /\ locked' = (user.id = req[r].id \/ locked)
       ELSE /\ req' = [req EXCEPT ![r].at = "compare", ![r].count = failures]
            /\ UNCHANGED locked
    /\ UNCHANGED <<user, failures, suspended, temp, sessions, uses, drawn>>

\* bcrypt.compare with the hash that was read first; a wrong password is
\* inserted, and the last one allowed goes on to lock the account.
ComparePassword(r) ==
    /\ req[r].at = "compare"
    /\ IF req[r].right
       THEN Goto(r, "clear") /\ UNCHANGED failures
       ELSE /\ IF req[r].count + 1 >= MaxLoginAttempts THEN Goto(r, "lock") ELSE End(r)
            /\ failures' = IF user.id = req[r].id THEN failures + 1 ELSE failures
    /\ UNCHANGED <<user, locked, suspended, temp, sessions, uses, drawn>>

LockAccount(r) ==
    /\ req[r].at = "lock" /\ End(r)
    /\ locked' = (user.id = req[r].id \/ locked)
    /\ UNCHANGED <<user, failures, suspended, temp, sessions, uses, drawn>>

\* A right password deletes the failures ...
ClearFailures(r) ==
    /\ req[r].at = "clear" /\ Goto(r, "unlock")
    /\ failures' = IF user.id = req[r].id THEN 0 ELSE failures
    /\ UNCHANGED <<user, locked, suspended, temp, sessions, uses, drawn>>

\* ... and then the lock, and goes on as two_factor_enabled said at the start.
Unlock(r) ==
    /\ req[r].at = "unlock"
    /\ locked' = (locked /\ user.id # req[r].id)
    /\ req' = [req EXCEPT ![r].at = Proceed(req[r].two)]
    /\ UNCHANGED <<user, failures, suspended, temp, sessions, uses, drawn>>

-----------------------------------------------------------------------------
(* Login with Google, and the second factor *)

\* Fault: the second factor is asked of password logins only.
GoogleSkipsChallenge(r) ==
    /\ user.id # 0 /\ ~suspended
    /\ Begin(r, [Handler("mint", user.id) EXCEPT !.two = user.on])
    /\ user' = [user EXCEPT !.google = TRUE]
    /\ UNCHANGED <<failures, locked, suspended, temp, sessions, uses, drawn>>

\* googleLogin, the transaction that looks for the address: it links the
\* account to Google.  A refused user rolls it back.
GoogleByEmail(r) ==
    /\ user.id # 0 /\ ~suspended
    /\ Begin(r, Handler(Proceed(user.on), user.id))
    /\ user' = [user EXCEPT !.google = TRUE]
    /\ UNCHANGED <<failures, locked, suspended, temp, sessions, uses, drawn>>

GoogleNewAddress(r) ==
    /\ user.id = 0 /\ Begin(r, Handler("bygoogle", 0))
    /\ UNCHANGED <<user, failures, locked, suspended, temp, sessions, uses, drawn>>

\* A login that finds its account late goes on with it, unless it is refused.
GoesOnWithRow(r) ==
    req' = [req EXCEPT ![r] = IF suspended THEN Idle
                              ELSE [req[r] EXCEPT !.at = Proceed(user.on), !.id = user.id]]

\* The look at google_id finds the account another sign-in has just made.
GoogleById(r) ==
    /\ req[r].at = "bygoogle"
    /\ IF user.google THEN GoesOnWithRow(r) ELSE Goto(r, "ginsert")
    /\ UNCHANGED <<user, failures, locked, suspended, temp, sessions, uses, drawn>>

\* The INSERT of a new account, whose key the server draws, or a conflict.
GoogleInsert(r) ==
    /\ req[r].at = "ginsert"
    /\ IF user.id = 0
       THEN \E n \in Drawn : /\ Draw(n)
                             /\ user' = NewAccount(n, Unguessable, TRUE)
                             /\ req' = [req EXCEPT ![r].at = "mint", ![r].id = n]
       ELSE Goto(r, "raced") /\ UNCHANGED <<user, drawn>>
    /\ UNCHANGED <<failures, locked, suspended, temp, sessions, uses>>

\* "Concurrent Google sign-in with the same email": the row of the winner is
\* read without a transaction; when it is gone again, no session comes of it.
GoogleRaced(r) ==
    /\ req[r].at = "raced"
    /\ IF user.id # 0 THEN GoesOnWithRow(r) ELSE End(r)
    /\ UNCHANGED <<user, failures, locked, suspended, temp, sessions, uses, drawn>>

\* Fault: GET in the place of GETDEL.
PeekTemp(t, for) ==
    /\ temp[t].for = for /\ temp' = temp
    /\ uses' = [uses EXCEPT ![t] = @ + 1]

\* getTempToken: whoever reads a challenge takes it (GETDEL).
TakeTemp(t, for) ==
    /\ temp[t].for = for /\ temp' = [temp EXCEPT ![t] = NoTemp]
    /\ uses' = [uses EXCEPT ![t] = @ + 1]

\* POST /2fa/verify with the code of the secret c.
VerifyChallenge(r, t, c) ==
    /\ TakeTemp(t, "2fa")
    /\ Begin(r, [Handler("code", temp[t].id) EXCEPT !.code = c])
    /\ UNCHANGED <<user, failures, locked, suspended, sessions, drawn>>

\* LoginPage; a wrong code is one of another secret.
SubmitCode(r) == \E t \in Drawn, c \in 0..drawn : VerifyChallenge(r, t, c)

\* verify2FALogin: the secret of this moment must have made the code.
VerifyCode(r) ==
    /\ req[r].at = "code"
    /\ IF /\ ~suspended /\ user.id = req[r].id
          /\ user.on /\ user.secret # 0 /\ user.secret = req[r].code
       THEN req' = [req EXCEPT ![r].at = "mint", ![r].factor = TRUE]
       ELSE End(r)
    /\ UNCHANGED <<user, failures, locked, suspended, temp, sessions, uses, drawn>>

-----------------------------------------------------------------------------
(* A new password, by the old one or by the recovery code *)

\* What a client sends for a new password: the key it holds, wrapped anew
\* under a new salt.  The key of the server stays as it is.
NewPassword(q, p, n, key) == [q EXCEPT !.pw = p, !.n = n, !.key = key]

\* POST /change-password: the old password is compared before the transaction.
ChangePassword(r, id, old, p, key) ==
    \E n \in Drawn :
        /\ ~suspended /\ user.id = id /\ old = user.hash /\ Draw(n)
        /\ Begin(r, NewPassword(Handler("change", id), p, n, key))
        /\ UNCHANGED <<user, failures, locked, suspended, temp, sessions, uses>>

\* A signed-in client sends it with the key it holds.  The web client itself
\* stops short of the request: exportKey refuses the keys it has imported.
SubmitPassword(r) ==
    \E s \in sessions, old, p \in Passwords :
        ChangePassword(r, s.id, old, p, s.key)

\* Fault: the new salt is not stored.
RekeyKeepsSalt(u, q) ==
    [u EXCEPT !.hash = q.pw, !.wrap = Wrap(q.pw, q.n, q.key)]

\* The columns of a password are written by one UPDATE.
Rekey(u, q) ==
    [u EXCEPT !.hash = q.pw, !.salt = q.n, !.wrap = Wrap(q.pw, q.n, q.key)]

ChangeCommit(r) ==
    /\ req[r].at = "change" /\ End(r)
    /\ user' = IF user.id = req[r].id THEN Rekey(user, req[r]) ELSE user
    /\ UNCHANGED <<failures, locked, suspended, temp, sessions, uses, drawn>>

\* recoverAccount: the code opens the copy of the key that the server keeps.
RecoverAccount(r, c) ==
    /\ user.id # 0 /\ c = user.code /\ ~suspended
    /\ Begin(r, [Handler("token", user.id) EXCEPT !.key = user.pek, !.code = c])
    /\ UNCHANGED <<user, failures, locked, suspended, temp, sessions, uses, drawn>>

\* RecoveryPage, with any code the user was ever given.
SubmitRecoveryCode(r) == \E c \in 1..drawn : RecoverAccount(r, c)

\* POST /recover stores the key for the second step.
RecoverToken(r) ==
    \E t \in Drawn :
        /\ req[r].at = "token" /\ Draw(t)
        /\ temp' = [temp EXCEPT ![t] = [for |-> "recover", id |-> req[r].id,
                                        key |-> req[r].key, code |-> req[r].code]]
        /\ End(r)
        /\ UNCHANGED <<user, failures, locked, suspended, sessions, uses>>

\* POST /recover/complete takes the challenge before anything can fail.
Complete(r, t, p) ==
    \E n \in Drawn :
        /\ TakeTemp(t, "recover") /\ Draw(n)
        /\ Begin(r, [NewPassword(Handler("complete", temp[t].id), p, n, temp[t].key)
                     EXCEPT !.code = temp[t].code])
        /\ UNCHANGED <<user, failures, locked, suspended, sessions>>

\* RecoveryPage wraps the key it was given with the new password.
SubmitNewPassword(r) == \E t \in Drawn, p \in Passwords : Complete(r, t, p)

\* Its transaction, which also rotates the recovery code.
CompleteCommit(r) ==
    /\ req[r].at = "complete" /\ End(r)
    /\ user' = IF user.id = req[r].id
               THEN [Rekey(user, req[r]) EXCEPT !.pek = req[r].key, !.code = req[r].n]
               ELSE user
    /\ UNCHANGED <<failures, locked, suspended, temp, sessions, uses, drawn>>

-----------------------------------------------------------------------------
(* The second factor of a signed-in user *)

\* generate2FASecret: the check and the UPDATE are two queries.
Generate2FASecret(r, id) ==
    \E n \in Drawn :
        /\ ~suspended /\ user.id = id /\ ~user.on /\ Draw(n)
        /\ Begin(r, [Handler("setup", id) EXCEPT !.n = n])
        /\ UNCHANGED <<user, failures, locked, suspended, temp, sessions, uses>>

StartSetup(r) == \E s \in sessions : Generate2FASecret(r, s.id)

SetupCommit(r) ==
    /\ req[r].at = "setup" /\ End(r)
    /\ user' = IF user.id = req[r].id THEN [user EXCEPT !.secret = req[r].n] ELSE user
    /\ UNCHANGED <<failures, locked, suspended, temp, sessions, uses, drawn>>

\* verify2FASetup with the code of the secret c, likewise.
Verify2FASetup(r, id, c) ==
    /\ ~suspended /\ user.id = id /\ ~user.on /\ user.secret # 0 /\ user.secret = c
    /\ Begin(r, Handler("enable", id))
    /\ UNCHANGED <<user, failures, locked, suspended, temp, sessions, uses, drawn>>

ConfirmSetup(r) == \E s \in sessions, c \in 1..drawn : Verify2FASetup(r, s.id, c)

EnableCommit(r) ==
    /\ req[r].at = "enable" /\ End(r)
    /\ user' = IF user.id = req[r].id THEN [user EXCEPT !.on = TRUE] ELSE user
    /\ UNCHANGED <<failures, locked, suspended, temp, sessions, uses, drawn>>

\* disable2FA with the code of the secret c.
Disable2FA(r, id, c) ==
    /\ ~suspended /\ user.id = id /\ user.on /\ user.secret # 0 /\ user.secret = c
    /\ Begin(r, Handler("disable", id))
    /\ UNCHANGED <<user, failures, locked, suspended, temp, sessions, uses, drawn>>

SwitchOff(r) == \E s \in sessions, c \in 1..drawn : Disable2FA(r, s.id, c)

DisableCommit(r) ==
    /\ req[r].at = "disable"
    /\ IF user.id = req[r].id
       THEN /\ user' = [user EXCEPT !.on = FALSE, !.secret = 0]
            /\ req' = SwitchedOff([req EXCEPT ![r] = Idle])
       ELSE End(r) /\ UNCHANGED user
    /\ UNCHANGED <<failures, locked, suspended, temp, sessions, uses, drawn>>

-----------------------------------------------------------------------------
(* Admins, and time *)

\* suspendUser, banUser, restoreUser, and the end of a suspension.
SetSuspended ==
    /\ user.id # 0 /\ suspended' = ~suspended
    /\ UNCHANGED <<user, failures, locked, temp, req, sessions, uses, drawn>>

\* deleteUser: the row and what hangs on it.
DeleteUser ==
    /\ user.id # 0 /\ user' = NoUser
    /\ failures' = 0 /\ locked' = FALSE /\ suspended' = FALSE
    /\ req' = SwitchedOff(req)
    /\ UNCHANGED <<temp, sessions, uses, drawn>>

\* LOGIN_WINDOW_MINUTES pass: a failure leaves the window, or the lock ends.
WindowPasses ==
    /\ \/ failures > 0 /\ failures' = failures - 1 /\ UNCHANGED locked
       \/ locked /\ locked' = FALSE /\ UNCHANGED failures
    /\ UNCHANGED <<user, suspended, temp, req, sessions, uses, drawn>>

\* Five minutes pass: Redis forgets a challenge.
TempExpires ==
    /\ \E t \in Drawn : temp[t] # NoTemp /\ temp' = [temp EXCEPT ![t] = NoTemp]
    /\ UNCHANGED <<user, failures, locked, suspended, req, sessions, uses, drawn>>

-----------------------------------------------------------------------------
AccountsNext ==
    \/ \E r \in Requests :
        \/ SubmitRegistration(r) \/ SubmitLogin(r) \/ CountFailures(r) \/ ComparePassword(r)
        \/ LockAccount(r) \/ ClearFailures(r) \/ Unlock(r)
        \/ GoogleByEmail(r) \/ GoogleNewAddress(r) \/ GoogleById(r)
        \/ GoogleInsert(r) \/ GoogleRaced(r)
        \/ Challenge(r) \/ SubmitCode(r) \/ VerifyCode(r) \/ Mint(r)
        \/ SubmitPassword(r) \/ ChangeCommit(r)
        \/ SubmitRecoveryCode(r) \/ RecoverToken(r)
        \/ SubmitNewPassword(r) \/ CompleteCommit(r)
        \/ StartSetup(r) \/ SetupCommit(r) \/ ConfirmSetup(r) \/ EnableCommit(r)
        \/ SwitchOff(r) \/ DisableCommit(r) \/ Crash(r)
    \/ SetSuspended \/ DeleteUser \/ WindowPasses \/ TempExpires

AccountsSpec == AccountsInit /\ [][AccountsNext]_accountVars

-----------------------------------------------------------------------------
(* Properties *)

\* However password changes, recoveries and deletions interleave, the row
\* opens: its wrapped key opens with the password and the salt beside it, to
\* the key the account was made with, and so does the copy of the server; and
\* every client that signed in holds that key (changePassword,
\* /recover/complete, generateTokens, authStore.login).
KeysAgree ==
    /\ user.id # 0 => /\ user.pek = user.id
                      /\ user.wrap = Wrap(user.hash, user.salt, user.id)
    /\ \A s \in sessions : s.key = s.id

\* "2FA must apply on every auth path, including Google" (authService.ts): a
\* request during which the second factor was on from beginning to end gets
\* no session without a code.
SecondFactorEverywhere == \A s \in sessions : ~s.spared

\* "concurrent retries cannot mint two token pairs from one 2FA challenge"
\* (verify2FALogin), nor one recovery set two passwords.
ChallengesUsedOnce == \A t \in Drawn : uses[t] <= 1

\* Within a window no more wrong passwords are compared than the limit, and
\* one for each request that counted the failures at the same time as others
\* (loginUser).
GuessesBounded == failures + 1 <= MaxLoginAttempts + Cardinality(Requests)
=============================================================================

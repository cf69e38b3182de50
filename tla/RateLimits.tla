----------------------------- MODULE RateLimits -----------------------------
(***************************************************************************)
(* The limits on the requests of one client, counted under one key of      *)
(* Redis (middleware/rateLimiter.ts, adminRateLimit.ts), the list of       *)
(* blocked addresses (ipBlocker.ts) and what the admin does to both        *)
(* (adminSecurityService.ts).  Every call to Redis is a step, and may fail *)
(* before or after Redis has carried it out.                               *)
(***************************************************************************)
EXTENDS Naturals

CONSTANTS
    Calls,      \* requests of the client at once
    Methods,    \* the kinds of request that share the key
    Limit,      \* the limit of each kind
    MaxCounter, \* bound: requests counted in a window
    MaxErrors   \* bound: calls to Redis that fail

ASSUME RateLimitsAssumption ==
    Methods # {} /\ Limit \in [Methods -> Nat \ {0}] /\ MaxCounter \in Nat /\ MaxErrors \in Nat

VARIABLES
    counter,   \* the value of the key, 0 when there is none
    expires,   \* the key has a time to live
    call,      \* the limiter of each request
    admitted,  \* history: requests of each kind counted in this window and let through
    errors,    \* failed calls to Redis
    endless,   \* history: an EXPIRE was lost
    blockedIp, \* the address is in admin:blocked_ips
    block,     \* the admin's last request to block it
    wiped      \* history: the cache was cleared since that request began

limitVars == <<counter, expires, call, admitted, errors, endless, blockedIp, block, wiped>>

\* old: the window in which the request was counted is over.
CallRecord(at, m, current) == [at |-> at, method |-> m, current |-> current, old |-> FALSE]
Resting == CallRecord("idle", CHOOSE m \in Methods : TRUE, 0)

RateLimitsTypeOK ==
    /\ counter \in 0..MaxCounter /\ expires \in BOOLEAN
    /\ call \in [Calls -> [at : {"idle", "expire", "decide"}, method : Methods,
                           current : 0..MaxCounter, old : BOOLEAN]]
    /\ admitted \in [Methods -> 0..MaxCounter]
    /\ errors \in 0..MaxErrors /\ endless \in BOOLEAN /\ wiped \in BOOLEAN
    /\ blockedIp \in BOOLEAN /\ block \in {"idle", "hset", "told", "failed"}

RateLimitsInit ==
    /\ counter = 0 /\ expires = FALSE /\ call = [r \in Calls |-> Resting]
    /\ admitted = [m \in Methods |-> 0] /\ errors = 0 /\ endless = FALSE
    /\ blockedIp = FALSE /\ block = "idle" /\ wiped = FALSE

\* The step after INCR: only the first request of a window dates the key.
AfterIncr(current) == IF current = 1 THEN "expire" ELSE "decide"

\* ipBlocker: the address is not on the list.
AddressPasses == ~blockedIp

\* INCR counts and answers at once.
Incr(r) ==
    \E m \in Methods :
        /\ call[r].at = "idle" /\ AddressPasses
        /\ counter < MaxCounter
        /\ counter' = counter + 1
        /\ call' = [call EXCEPT ![r] = CallRecord(AfterIncr(counter + 1), m, counter + 1)]
        /\ UNCHANGED <<expires, admitted, errors, endless, blockedIp, block, wiped>>

\* EXPIRE does nothing to a key that is gone.
SetExpiry(r) ==
    /\ call[r].at = "expire"
    /\ call' = [call EXCEPT ![r].at = "decide"]
    /\ expires' = (counter > 0)
    /\ UNCHANGED <<counter, admitted, errors, endless, blockedIp, block, wiped>>

\* The limits of the admin routes differ for reads and writes, the key is one.
OverLimit(r) == call[r].current > Limit[call[r].method]

\* A request beyond the limit gets 429.
Decide(r) ==
    /\ call[r].at = "decide"
    /\ call' = [call EXCEPT ![r] = Resting]
    /\ admitted' = IF OverLimit(r) \/ call[r].old THEN admitted
                   ELSE [admitted EXCEPT ![call[r].method] = @ + 1]
    /\ UNCHANGED <<counter, expires, errors, endless, blockedIp, block, wiped>>

\* Redis fails after INCR has counted, or the server stops: the limiter lets the
\* request through.  A lost EXPIRE leaves a key that no later request dates.
RedisFails(r) ==
    /\ call[r].at # "idle" /\ errors < MaxErrors
    /\ errors' = errors + 1
    /\ \E done \in BOOLEAN :
        /\ expires' = (expires \/ (call[r].at = "expire" /\ done /\ counter > 0))
        /\ endless' = (endless \/ (call[r].at = "expire" /\ ~done))
    /\ call' = [call EXCEPT ![r] = Resting]
    /\ UNCHANGED <<counter, admitted, blockedIp, block, wiped>>

\* A new window, or a key that was deleted.
ForgetWindow ==
    /\ counter' = 0 /\ expires' = FALSE
    /\ admitted' = [m \in Methods |-> 0]
    /\ call' = [r \in Calls |-> [call[r] EXCEPT !.old = (call[r].at # "idle")]]

\* The time to live is over.
KeyExpires ==
    /\ expires /\ ForgetWindow
    /\ UNCHANGED <<errors, endless, blockedIp, block, wiped>>

\* A command to Redis fails, and the admin is told.
BlockFails == errors < MaxErrors /\ errors' = errors + 1 /\ block' = "failed"

\* POST /admin/security/block-ip, first half: SADD.
BlockIp ==
    /\ block \in {"idle", "told", "failed"}
    /\ \/ blockedIp' = TRUE /\ block' = "hset" /\ errors' = errors
       \/ BlockFails /\ blockedIp' \in {blockedIp, TRUE}
    /\ UNCHANGED <<counter, expires, call, admitted, endless>> /\ wiped' = FALSE

\* Second half: HSET of the reason.  When it fails the admin is told that the
\* block failed, and the address is blocked all the same.
RecordReason ==
    /\ block = "hset"
    /\ \/ block' = "told" /\ errors' = errors
       \/ BlockFails
    /\ UNCHANGED <<counter, expires, call, admitted, endless, blockedIp, wiped>>

\* POST /admin/debug/cache/clear with a pattern that takes in every key: the limits
\* go, and the list of blocked addresses with them.
ClearRedisCache ==
    /\ ForgetWindow /\ blockedIp' = FALSE /\ wiped' = TRUE
    /\ UNCHANGED <<errors, endless, block>>

RateLimitsNext ==
    \/ \E r \in Calls : Incr(r) \/ SetExpiry(r) \/ Decide(r) \/ RedisFails(r)
    \/ KeyExpires \/ BlockIp \/ RecordReason \/ ClearRedisCache

RateLimitsSpec == RateLimitsInit /\ [][RateLimitsNext]_limitVars

\* No window lets more requests of a kind through than the limit of that kind,
\* however the requests overlap and whichever kinds share the key: INCR counts
\* and answers in one step.  Requests let through because Redis failed are not
\* counted.
LimitHolds == \A m \in Methods : admitted[m] <= Limit[m]

\* A key that counts has a time to live, or a request is about to give it one;
\* only a lost EXPIRE leaves a client out for good.
KeyIsDated ==
    counter > 0 => expires \/ endless \/ \E r \in Calls : call[r].at = "expire"

\* When the admin is told that an address is blocked, it is, until an admin
\* clears the cache
\* (adminSecurityService.ts 107-109: a silent failure would tell the admin the
\* address was blocked while the blocker keeps letting it through).
ToldBlocked == block = "told" => blockedIp \/ wiped
=============================================================================

---------------------------- MODULE Restrictions ----------------------------
(***************************************************************************)
(* The restriction of one user by an admin, and the cache that the checks  *)
(* of the user's requests go through (services/userRestrictions.ts, with   *)
(* suspendUser, banUser and restoreUser of adminUserService.ts).           *)
(* The clock counts fractions of CACHE_TTL_MS.                             *)
(***************************************************************************)
EXTENDS Naturals

CONSTANTS
    Checks,   \* requests of the user that are checked at once
    TTL,      \* CACHE_TTL_MS in ticks
    MaxClock  \* bound: ticks in a behaviour

ASSUME RestrictionsAssumption == TTL \in Nat \ {0} /\ MaxClock \in Nat

VARIABLES
    clock,
    restricted,  \* an unlifted row of user_restrictions
    since,       \* when it was committed
    console,     \* the admin's request: between its commit and the cache
    cache,       \* the entry of the user in restrictionCache
    check,       \* assertUserNotRestricted of each request
    slipped      \* history: a request begun TTL after the commit got through

restrictionVars == <<clock, restricted, since, console, cache, check, slipped>>

Empty == [held |-> FALSE, checkedAt |-> 0, restricted |-> FALSE]
Waiting == [at |-> "idle", now |-> 0, restricted |-> FALSE]

RestrictionsTypeOK ==
    /\ clock \in 0..MaxClock /\ since \in 0..MaxClock
    /\ restricted \in BOOLEAN /\ slipped \in BOOLEAN
    /\ console \in {"idle", "invalidate"}
    /\ cache \in [held : BOOLEAN, checkedAt : 0..MaxClock, restricted : BOOLEAN]
    /\ check \in [Checks -> [at : {"idle", "query", "answer"}, now : 0..MaxClock,
                             restricted : BOOLEAN]]

RestrictionsInit ==
    /\ clock = 0 /\ restricted = FALSE /\ since = 0 /\ console = "idle"
    /\ cache = Empty /\ check = [r \in Checks |-> Waiting] /\ slipped = FALSE

\* The outcome of a check that began at time now.
Outcome(found, now) ==
    slipped' = (slipped \/ (~found /\ restricted /\ since + TTL <= now))

\* A request is checked against an entry that is young enough ...
CheckCached(r) ==
    /\ check[r].at = "idle"
    /\ cache.held /\ clock - cache.checkedAt < TTL
    /\ Outcome(cache.restricted, clock)
    /\ UNCHANGED <<clock, restricted, since, console, cache, check>>

\* ... or asks the database, having looked at the clock first.
CheckMisses(r) ==
    /\ check[r].at = "idle"
    /\ ~(cache.held /\ clock - cache.checkedAt < TTL)
    /\ check' = [check EXCEPT ![r] = [Waiting EXCEPT !.at = "query", !.now = clock]]
    /\ UNCHANGED <<clock, restricted, since, console, cache, slipped>>

\* getActiveRestrictions: the SELECT runs, its answer is on its way.
ReadRestrictions(r) ==
    /\ check[r].at = "query"
    /\ check' = [check EXCEPT ![r].at = "answer", ![r].restricted = restricted]
    /\ UNCHANGED <<clock, restricted, since, console, cache, slipped>>

\* Fault: the entry is dated when the answer arrives.
FillDatedLate(r) ==
    /\ check[r].at = "answer"
    /\ cache' = [held |-> TRUE, checkedAt |-> clock, restricted |-> check[r].restricted]
    /\ Outcome(check[r].restricted, check[r].now)
    /\ check' = [check EXCEPT ![r] = Waiting]
    /\ UNCHANGED <<clock, restricted, since, console>>

\* The answer fills the cache, even when the entry was invalidated meanwhile.
FillCache(r) ==
    /\ check[r].at = "answer"
    /\ cache' = [held |-> TRUE, checkedAt |-> check[r].now,
                 restricted |-> check[r].restricted]
    /\ Outcome(check[r].restricted, check[r].now)
    /\ check' = [check EXCEPT ![r] = Waiting]
    /\ UNCHANGED <<clock, restricted, since, console>>

\* POST /admin/users/:userId/suspend and /ban: the transaction commits.
RestrictUser ==
    /\ console = "idle" /\ console' = "invalidate"
    /\ restricted' = TRUE /\ since' = IF restricted THEN since ELSE clock
    /\ UNCHANGED <<clock, cache, check, slipped>>

\* POST /admin/users/:userId/restore.
LiftRestriction ==
    /\ console = "idle" /\ restricted
    /\ console' = "invalidate" /\ restricted' = FALSE
    /\ UNCHANGED <<clock, since, cache, check, slipped>>

\* invalidateRestrictionCache, after the commit.
Invalidate ==
    /\ console = "invalidate" /\ console' = "idle" /\ cache' = Empty
    /\ UNCHANGED <<clock, restricted, since, check, slipped>>

\* expires_at is reached: nothing invalidates the cache.
RestrictionExpires ==
    /\ restricted /\ restricted' = FALSE
    /\ UNCHANGED <<clock, since, console, cache, check, slipped>>

\* The server restarts: the cache and the requests are gone.
RestartServer ==
    /\ cache' = Empty /\ check' = [r \in Checks |-> Waiting] /\ console' = "idle"
    /\ UNCHANGED <<clock, restricted, since, slipped>>

Tick ==
    /\ clock < MaxClock /\ clock' = clock + 1
    /\ UNCHANGED <<restricted, since, console, cache, check, slipped>>

RestrictionsNext ==
    \/ \E r \in Checks :
        CheckCached(r) \/ CheckMisses(r) \/ ReadRestrictions(r) \/ FillCache(r)
    \/ RestrictUser \/ LiftRestriction \/ Invalidate \/ RestrictionExpires
    \/ RestartServer \/ Tick

RestrictionsSpec == RestrictionsInit /\ [][RestrictionsNext]_restrictionVars

\* A restriction bites within CACHE_TTL_MS, whatever reads were under way when
\* it was committed, and whether or not the cache was invalidated: no request
\* that begins later is let through (assertUserNotRestricted takes the time
\* before it asks the database).
RestrictionBites == ~slipped
=============================================================================

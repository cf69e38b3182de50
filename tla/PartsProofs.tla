----------------------------- MODULE PartsProofs -----------------------------
(***************************************************************************)
(* The parts that share no state with others: restrictions, the limits of  *)
(* one client, the logs, the console of the admins, imports, migrations,   *)
(* the log of a group, rooms, budgets, reports, notifications,             *)
(* the division of expenses and transfers.  Every part has an inductive    *)
(* invariant of its own, for all values of its constants.                  *)
(***************************************************************************)
EXTENDS Restrictions, RateLimits, AdminConsole, Migrations, Diagnostics, BlobMigrations,
        Imports, LogChain, Budgets, Reports, Rooms, Inbox, Splits, Transfers,
        FoldLemmas, SequenceTheorems

-----------------------------------------------------------------------------
(* Restrictions of users                                                   *)

\* The types of the variables, without the bound on the clock.
RestrictionsTyped ==
    /\ clock \in Nat /\ since \in Nat
    /\ restricted \in BOOLEAN
    /\ cache \in [held : BOOLEAN, checkedAt : Nat, restricted : BOOLEAN]
    /\ check \in [Checks -> [at : {"idle", "query", "answer"}, now : Nat, restricted : BOOLEAN]]

\* Nothing is dated in the future.
NothingAhead ==
    /\ since <= clock /\ cache.checkedAt <= clock
    /\ \A r \in Checks : check[r].now <= clock

\* An answer or an entry that missed the restriction in force was asked for
\* before it was committed.
MissedEarlier ==
    restricted =>
        /\ cache.held /\ ~cache.restricted => cache.checkedAt <= since
        /\ \A r \in Checks :
            check[r].at = "answer" /\ ~check[r].restricted => check[r].now <= since

RestrictionsInv == RestrictionsTyped /\ NothingAhead /\ MissedEarlier /\ ~slipped

CacheEntries == [held : BOOLEAN, checkedAt : Nat, restricted : BOOLEAN]
CheckStates == [at : {"idle", "query", "answer"}, now : Nat, restricted : BOOLEAN]

\* What an empty cache and a check that has not begun are.
LEMMA BlankIs ==
    /\ Empty \in CacheEntries /\ ~Empty.held /\ Empty.checkedAt = 0
    /\ Waiting \in CheckStates /\ Waiting.at = "idle" /\ Waiting.now = 0
  BY DEF Empty, Waiting, CacheEntries, CheckStates

LEMMA RestrictionsStart == RestrictionsInit => RestrictionsInv
  <1> SUFFICES ASSUME RestrictionsInit PROVE RestrictionsInv
    OBVIOUS
  <1>1. ~restricted /\ restricted \in BOOLEAN /\ ~slipped
    BY DEF RestrictionsInit
  <1>2. RestrictionsTyped /\ NothingAhead
    BY <1>1, BlankIs DEF RestrictionsInit, RestrictionsTyped, NothingAhead, CacheEntries, CheckStates
  <1> QED
    BY <1>1, <1>2 DEF RestrictionsInv, MissedEarlier

\* A check that finds nothing, asked for no later than the restriction, is not a slip.
LEMMA EarlyIsNoSlip ==
    ASSUME NEW found \in BOOLEAN, NEW now \in Nat, RestrictionsInv, Outcome(found, now),
           restricted /\ ~found => now < since + TTL
    PROVE  ~slipped'
  <1>1. ~(~found /\ restricted /\ since + TTL <= now)
    BY RestrictionsAssumption DEF RestrictionsInv, RestrictionsTyped
  <1> QED
    BY <1>1, Zenon DEF Outcome, RestrictionsInv

LEMMA CachedKeeps ==
    ASSUME RestrictionsInv, NEW r \in Checks, CheckCached(r) PROVE RestrictionsInv'
  <1>1. restricted /\ ~cache.restricted => clock < since + TTL
    BY RestrictionsAssumption DEF CheckCached, RestrictionsInv, RestrictionsTyped, NothingAhead, MissedEarlier
  <1>2. cache.restricted \in BOOLEAN /\ clock \in Nat
    BY DEF RestrictionsInv, RestrictionsTyped
  <1>3. ~slipped'
    BY <1>1, <1>2, EarlyIsNoSlip DEF CheckCached
  <1> QED
    BY <1>3 DEF CheckCached, RestrictionsInv, RestrictionsTyped, NothingAhead, MissedEarlier

LEMMA MissKeeps ==
    ASSUME RestrictionsInv, NEW r \in Checks, CheckMisses(r) PROVE RestrictionsInv'
  <1> DEFINE starts == [Waiting EXCEPT !.at = "query"]
             asks == [starts EXCEPT !.now = clock]
  <1>1. starts \in CheckStates /\ starts.at = "query"
    BY BlankIs DEF CheckStates
  <1> HIDE DEF starts
  <1>2. asks \in CheckStates /\ asks.at = "query" /\ asks.now = clock
    BY <1>1 DEF CheckStates, RestrictionsInv, RestrictionsTyped
  <1>3. check' = [check EXCEPT ![r] = asks] /\ UNCHANGED <<clock, restricted, since, cache, slipped>>
    BY DEF CheckMisses, starts
  <1> HIDE DEF asks
  <1> QED
    BY <1>2, <1>3 DEF RestrictionsInv, RestrictionsTyped, NothingAhead, MissedEarlier, CheckStates

LEMMA ReadKeeps ==
    ASSUME RestrictionsInv, NEW r \in Checks, ReadRestrictions(r) PROVE RestrictionsInv'
  BY DEF ReadRestrictions, RestrictionsInv, RestrictionsTyped, NothingAhead, MissedEarlier

LEMMA FillKeeps ==
    ASSUME RestrictionsInv, NEW r \in Checks, FillCache(r) PROVE RestrictionsInv'
  <1>1. check[r].restricted \in BOOLEAN /\ check[r].now \in Nat
    BY DEF RestrictionsInv, RestrictionsTyped
  <1>2. restricted /\ ~check[r].restricted => check[r].now < since + TTL
    BY <1>1, RestrictionsAssumption DEF FillCache, RestrictionsInv, RestrictionsTyped, MissedEarlier
  <1>3. ~slipped'
    BY <1>1, <1>2, EarlyIsNoSlip DEF FillCache
  <1>4. cache' \in CacheEntries /\ cache'.checkedAt = check[r].now
    BY <1>1 DEF FillCache, CacheEntries
  <1>5. ~cache'.restricted <=> ~check[r].restricted
    BY <1>1, Zenon DEF FillCache
  <1>6. /\ check' = [check EXCEPT ![r] = Waiting] /\ check[r].at = "answer"
        /\ UNCHANGED <<clock, restricted, since>>
    BY DEF FillCache
  <1>7. RestrictionsTyped'
    BY <1>4, <1>6, BlankIs DEF RestrictionsInv, RestrictionsTyped, CacheEntries, CheckStates
  <1>8. NothingAhead'
    BY <1>4, <1>6, BlankIs DEF RestrictionsInv, RestrictionsTyped, NothingAhead, CheckStates
  <1>9. MissedEarlier'
    BY <1>4, <1>5, <1>6, BlankIs DEF RestrictionsInv, RestrictionsTyped, NothingAhead, MissedEarlier, CheckStates
  <1> QED
    BY <1>3, <1>7, <1>8, <1>9 DEF RestrictionsInv

LEMMA RestrictKeeps == RestrictionsInv /\ RestrictUser => RestrictionsInv'
  BY DEF RestrictUser, RestrictionsInv, RestrictionsTyped, NothingAhead, MissedEarlier

LEMMA LiftKeeps == RestrictionsInv /\ (LiftRestriction \/ RestrictionExpires) => RestrictionsInv'
  <1> SUFFICES ASSUME RestrictionsInv, LiftRestriction \/ RestrictionExpires PROVE RestrictionsInv'
    OBVIOUS
  <1>1. ~restricted' /\ restricted' \in BOOLEAN /\ UNCHANGED <<clock, since, cache, check, slipped>>
    BY DEF LiftRestriction, RestrictionExpires
  <1> QED
    BY <1>1 DEF RestrictionsInv, RestrictionsTyped, NothingAhead, MissedEarlier

LEMMA ForgetKeeps == RestrictionsInv /\ (Invalidate \/ RestartServer) => RestrictionsInv'
  BY BlankIs DEF Invalidate, RestartServer, RestrictionsInv, RestrictionsTyped, NothingAhead, MissedEarlier, CacheEntries, CheckStates

LEMMA TickKeeps == RestrictionsInv /\ Tick => RestrictionsInv'
  BY DEF Tick, RestrictionsInv, RestrictionsTyped, NothingAhead, MissedEarlier

LEMMA RestrictionsSteps == RestrictionsInv /\ [RestrictionsNext]_restrictionVars => RestrictionsInv'
  <1> SUFFICES ASSUME RestrictionsInv, [RestrictionsNext]_restrictionVars PROVE RestrictionsInv'
    OBVIOUS
  <1>1. CASE \E r \in Checks :
            CheckCached(r) \/ CheckMisses(r) \/ ReadRestrictions(r) \/ FillCache(r)
    BY <1>1, CachedKeeps, MissKeeps, ReadKeeps, FillKeeps
  <1>2. CASE RestrictUser \/ LiftRestriction \/ RestrictionExpires
    BY <1>2, RestrictKeeps, LiftKeeps
  <1>3. CASE Invalidate \/ RestartServer \/ Tick
    BY <1>3, ForgetKeeps, TickKeeps
  <1>4. CASE UNCHANGED restrictionVars
    BY <1>4 DEF restrictionVars, RestrictionsInv, RestrictionsTyped, NothingAhead, MissedEarlier
  <1> QED
    BY <1>1, <1>2, <1>3, <1>4 DEF RestrictionsNext

\* No request that begins CACHE_TTL_MS after a restriction was committed gets
\* through, whatever the cache held and whichever reads were under way: the check
\* takes the time before it asks the database (assertUserNotRestricted).
THEOREM RestrictionsBite == RestrictionsSpec => []RestrictionBites
  <1>1. RestrictionsInv => RestrictionBites
    BY DEF RestrictionsInv, RestrictionBites
  <1> QED
    BY <1>1, RestrictionsStart, RestrictionsSteps, PTL DEF RestrictionsSpec

-----------------------------------------------------------------------------
(* Rate limits and blocks                                                  *)

\* A request that this window has counted and not yet let through or refused.
Pending(r) == call[r].at # "idle" /\ ~call[r].old
\* The answers of INCR within a limit that no such request carries.
SpentNumbers(n) == {k \in 1..counter : k <= n /\ \A r \in Calls : Pending(r) => call[r].current # k}

CallStates == [at : {"idle", "expire", "decide"}, method : Methods \cup {Resting.method},
               current : 0..MaxCounter, old : BOOLEAN]

LimitsTyped ==
    /\ counter \in 0..MaxCounter /\ expires \in BOOLEAN
    /\ call \in [Calls -> CallStates]
    /\ \A r \in Calls : call[r].at # "idle" => call[r].method \in Methods
    /\ admitted \in [Methods -> Nat]

\* INCR gives each of them a number of its own.
OwnNumbers ==
    \A r \in Calls : Pending(r) =>
        /\ call[r].current \in 1..counter
        /\ \A s \in Calls \ {r} : Pending(s) => call[s].current # call[r].current

\* Who was let through has used up a number within the limit.
WithinSpent == \A m \in Methods : admitted[m] <= Cardinality(SpentNumbers(Limit[m]))

BlockIsKept == block \in {"hset", "told"} => blockedIp \/ wiped

LimitsInv == LimitsTyped /\ OwnNumbers /\ WithinSpent /\ KeyIsDated /\ BlockIsKept

LEMMA RestingIs ==
    Resting.at = "idle" /\ Resting.current = 0 /\ ~Resting.old /\ Resting \in CallStates
  <1>1. PICK k : k = CHOOSE m \in Methods : TRUE
    OBVIOUS
  <1>2. Resting = [at |-> "idle", method |-> k, current |-> 0, old |-> FALSE]
    BY <1>1 DEF Resting, CallRecord
  <1>3. 0 \in 0..MaxCounter
    BY RateLimitsAssumption
  <1> QED
    BY <1>2, <1>3 DEF CallStates

LEMMA PartOfRange ==
    ASSUME NEW n \in Nat, NEW S, S \subseteq 1..n
    PROVE  IsFiniteSet(S) /\ Cardinality(S) \in Nat /\ Cardinality(S) <= n
  <1>1. IsFiniteSet(1..n) /\ Cardinality(1..n) = n
    BY FS_Interval
  <1> QED
    BY <1>1, FS_Subset, FS_CardinalityType

LEMMA SpentIsFinite ==
    ASSUME counter \in Nat, NEW n \in Nat
    PROVE  IsFiniteSet(SpentNumbers(n)) /\ Cardinality(SpentNumbers(n)) \in Nat /\ Cardinality(SpentNumbers(n)) <= n
  <1>1. SpentNumbers(n) \subseteq 1..n
    BY DEF SpentNumbers
  <1> QED
    BY <1>1, PartOfRange

LEMMA LimitsStart == RateLimitsInit => LimitsInv
  <1> SUFFICES ASSUME RateLimitsInit PROVE LimitsInv
    OBVIOUS
  <1>1. LimitsTyped
    <2>1. counter \in 0..MaxCounter /\ admitted \in [Methods -> Nat]
      BY RateLimitsAssumption DEF RateLimitsInit
    <2>2. expires \in BOOLEAN
      BY Zenon DEF RateLimitsInit
    <2>3. call \in [Calls -> CallStates] /\ \A r \in Calls : call[r].at = "idle"
      BY RestingIs DEF RateLimitsInit
    <2> QED
      BY <2>1, <2>2, <2>3 DEF LimitsTyped
  <1>2. OwnNumbers
    BY RestingIs DEF RateLimitsInit, OwnNumbers, Pending
  <1>3. WithinSpent
    <2>1. \A m \in Methods : Limit[m] \in Nat /\ admitted[m] = 0 /\ counter \in Nat
      BY RateLimitsAssumption DEF RateLimitsInit
    <2> QED
      BY <2>1, SpentIsFinite DEF WithinSpent
  <1> QED
    BY <1>1, <1>2, <1>3 DEF RateLimitsInit, LimitsInv, KeyIsDated, BlockIsKept

\* A request that leaves the limiter gives its number back, or has used it up.
LEMMA CallEnds ==
    ASSUME LimitsInv, NEW r \in Calls, call' = [call EXCEPT ![r] = Resting], counter' = counter
    PROVE  /\ call' \in [Calls -> CallStates]
           /\ \A s \in Calls : call'[s].at # "idle" => call'[s].method \in Methods
           /\ OwnNumbers'
           /\ \A n \in Nat : SpentNumbers(n) \subseteq SpentNumbers(n)'
           /\ \A n \in Nat : Pending(r) /\ call[r].current <= n =>
                    SpentNumbers(n)' = SpentNumbers(n) \cup {call[r].current} /\ call[r].current \notin SpentNumbers(n)
  <1>1. /\ call'[r] = Resting
        /\ \A s \in Calls \ {r} : call'[s] = call[s]
    BY DEF LimitsInv, LimitsTyped
  <1>2. /\ ~Pending(r)' /\ \A s \in Calls \ {r} : Pending(s)' <=> Pending(s)
    BY <1>1, RestingIs DEF Pending
  <1>3. /\ call' \in [Calls -> CallStates]
    BY RestingIs DEF LimitsInv, LimitsTyped
  <1>4. \A s \in Calls : call'[s].at # "idle" => call'[s].method \in Methods
    BY <1>1, RestingIs DEF LimitsInv, LimitsTyped
  <1>5. OwnNumbers'
    BY <1>1, <1>2 DEF LimitsInv, OwnNumbers
  <1>6. \A n \in Nat : SpentNumbers(n) \subseteq SpentNumbers(n)'
    BY <1>1, <1>2 DEF SpentNumbers
  <1>7. ASSUME NEW n \in Nat, Pending(r), call[r].current <= n
        PROVE  SpentNumbers(n)' = SpentNumbers(n) \cup {call[r].current} /\ call[r].current \notin SpentNumbers(n)
    <2>1. call[r].current \in 1..counter
          /\ \A s \in Calls \ {r} : Pending(s) => call[s].current # call[r].current
      BY <1>7 DEF LimitsInv, OwnNumbers
    <2> QED
      BY <1>1, <1>2, <1>7, <2>1 DEF SpentNumbers
  <1> QED
    BY <1>3, <1>4, <1>5, <1>6, <1>7
\* INCR: the new number is pending, so none is spent.
LEMMA IncrKeeps == ASSUME LimitsInv, NEW r \in Calls, Incr(r) PROVE LimitsInv'
  <1>1. PICK m \in Methods :
        /\ call[r].at = "idle" /\ counter < MaxCounter /\ counter' = counter + 1
        /\ call' = [call EXCEPT ![r] = CallRecord(AfterIncr(counter + 1), m, counter + 1)]
        /\ UNCHANGED <<expires, admitted, errors, endless, blockedIp, block, wiped>>
    BY DEF Incr
  <1>2. counter \in Nat /\ counter' \in 0..MaxCounter /\ counter + 1 \in 1..counter'
    BY <1>1, RateLimitsAssumption DEF LimitsInv, LimitsTyped
  <1>3. PICK new : new = CallRecord(AfterIncr(counter + 1), m, counter + 1)
    OBVIOUS
  <1>4. /\ new.at \in {"expire", "decide"} /\ new.method = m /\ new.current = counter + 1 /\ ~new.old
        /\ new \in CallStates /\ (counter = 0 => new.at = "expire")
    BY <1>1, <1>2, <1>3 DEF CallRecord, AfterIncr, CallStates
  <1>5. call' = [call EXCEPT ![r] = new]
    BY <1>1, <1>3
  <1>6. /\ call' \in [Calls -> CallStates] /\ call'[r] = new
        /\ \A s \in Calls \ {r} : call'[s] = call[s]
    BY <1>4, <1>5 DEF LimitsInv, LimitsTyped
  <1>7. ~Pending(r) /\ Pending(r)' /\ \A s \in Calls \ {r} : Pending(s)' <=> Pending(s)
    BY <1>1, <1>4, <1>6 DEF Pending
  <1>8. LimitsTyped'
    BY <1>1, <1>2, <1>4, <1>6 DEF LimitsInv, LimitsTyped
  <1>9. OwnNumbers'
    <2>1. \A s \in Calls \ {r} : Pending(s) => call'[s].current \in 1..counter
      BY <1>6 DEF LimitsInv, OwnNumbers
    <2>2. call'[r].current = counter + 1
      BY <1>4, <1>6
    <2>3. \A s \in Calls \ {r} : Pending(s) =>
            call'[s].current \in 1..counter' /\ call'[s].current # call'[r].current
      BY <1>1, <1>2, <2>1, <2>2
    <2>4. \A s \in Calls \ {r} : Pending(s) =>
            \A t \in Calls \ {r, s} : Pending(t) => call'[t].current # call'[s].current
      BY <1>6 DEF LimitsInv, OwnNumbers
    <2> QED
      BY <1>2, <1>7, <2>2, <2>3, <2>4 DEF OwnNumbers
  <1>10. WithinSpent'
    <2>1. \A n \in Nat : SpentNumbers(n)' = SpentNumbers(n)
      BY <1>1, <1>2, <1>4, <1>6, <1>7 DEF SpentNumbers
    <2> QED
      BY <1>1, <2>1, RateLimitsAssumption DEF LimitsInv, WithinSpent
  <1>11. KeyIsDated'
    <2>1. counter = 0 => call'[r].at = "expire"
      BY <1>4, <1>6
    <2>2. \A s \in Calls : call[s].at = "expire" => call'[s].at = "expire"
      BY <1>1, <1>6
    <2> QED
      BY <1>1, <1>2, <2>1, <2>2 DEF LimitsInv, KeyIsDated
  <1>12. BlockIsKept'
    BY <1>1 DEF LimitsInv, BlockIsKept
  <1> QED
    BY <1>8, <1>9, <1>10, <1>11, <1>12 DEF LimitsInv

LEMMA SetExpiryKeeps == ASSUME LimitsInv, NEW r \in Calls, SetExpiry(r) PROVE LimitsInv'
  <1> DEFINE decides == [call[r] EXCEPT !.at = "decide"]
  <1>1. /\ call[r].at = "expire" /\ expires' = (counter > 0)
        /\ UNCHANGED <<counter, admitted, errors, endless, blockedIp, block, wiped>>
    BY DEF SetExpiry
  <1>2. call' = [call EXCEPT ![r] = decides]
    BY DEF SetExpiry, LimitsInv, LimitsTyped
  <1>3. /\ decides \in CallStates /\ decides.at = "decide" /\ decides.current = call[r].current
        /\ decides.method = call[r].method /\ (decides.old <=> call[r].old)
    BY DEF LimitsInv, LimitsTyped, CallStates
  <1> HIDE DEF decides
  <1>4. /\ call' \in [Calls -> CallStates] /\ call'[r] = decides
        /\ \A s \in Calls \ {r} : call'[s] = call[s]
    BY <1>2, <1>3 DEF LimitsInv, LimitsTyped
  <1>5. \A s \in Calls : (Pending(s)' <=> Pending(s)) /\ call'[s].current = call[s].current
    BY <1>1, <1>3, <1>4 DEF Pending
  <1>6. LimitsTyped'
    <2>1. expires' \in BOOLEAN
      BY <1>1
    <2>2. counter' \in 0..MaxCounter /\ admitted' \in [Methods -> Nat]
      BY <1>1 DEF LimitsInv, LimitsTyped
    <2>3. \A s \in Calls : call'[s].at # "idle" => call'[s].method \in Methods
      BY <1>1, <1>3, <1>4 DEF LimitsInv, LimitsTyped
    <2> QED
      BY <1>4, <2>1, <2>2, <2>3 DEF LimitsTyped
  <1>7. OwnNumbers'
    BY <1>1, <1>5 DEF LimitsInv, OwnNumbers
  <1>8. WithinSpent'
    <2>1. \A n \in Nat : SpentNumbers(n)' = SpentNumbers(n)
      BY <1>1, <1>5 DEF SpentNumbers
    <2> QED
      BY <1>1, <2>1, RateLimitsAssumption DEF LimitsInv, WithinSpent
  <1>9. KeyIsDated' /\ BlockIsKept'
    BY <1>1 DEF LimitsInv, KeyIsDated, BlockIsKept
  <1> QED
    BY <1>6, <1>7, <1>8, <1>9 DEF LimitsInv

\* Numbers that come back break no limit.
LEMMA FewerSpent ==
    ASSUME LimitsInv, \A n \in Nat : SpentNumbers(n) \subseteq SpentNumbers(n)', UNCHANGED <<counter, admitted>>
    PROVE  WithinSpent'
  <1> SUFFICES ASSUME NEW m \in Methods PROVE admitted'[m] <= Cardinality(SpentNumbers(Limit[m])')
    BY DEF WithinSpent
  <1>1. Limit[m] \in Nat /\ counter \in Nat
        /\ admitted[m] \in Nat /\ admitted[m] <= Cardinality(SpentNumbers(Limit[m]))
    BY RateLimitsAssumption DEF LimitsInv, LimitsTyped, WithinSpent
  <1>2. SpentNumbers(Limit[m])' \subseteq 1..counter
    BY DEF SpentNumbers
  <1>3. IsFiniteSet(SpentNumbers(Limit[m])') /\ Cardinality(SpentNumbers(Limit[m])') \in Nat
    BY <1>1, <1>2, PartOfRange
  <1>4. Cardinality(SpentNumbers(Limit[m])) \in Nat
        /\ Cardinality(SpentNumbers(Limit[m])) <= Cardinality(SpentNumbers(Limit[m])')
    BY <1>1, <1>3, SpentIsFinite, FS_Subset
  <1> QED
    BY <1>1, <1>3, <1>4

LEMMA DecideKeeps == ASSUME LimitsInv, NEW r \in Calls, Decide(r) PROVE LimitsInv'
  <1>1. /\ call[r].at = "decide" /\ call' = [call EXCEPT ![r] = Resting]
        /\ UNCHANGED <<counter, expires, errors, endless, blockedIp, block, wiped>>
        /\ admitted' = IF OverLimit(r) \/ call[r].old THEN admitted
                       ELSE [admitted EXCEPT ![call[r].method] = @ + 1]
    BY DEF Decide
  <1>2. /\ call' \in [Calls -> CallStates] /\ OwnNumbers'
        /\ \A s \in Calls : call'[s].at # "idle" => call'[s].method \in Methods
        /\ \A n \in Nat : SpentNumbers(n) \subseteq SpentNumbers(n)'
        /\ \A n \in Nat : Pending(r) /\ call[r].current <= n =>
              SpentNumbers(n)' = SpentNumbers(n) \cup {call[r].current} /\ call[r].current \notin SpentNumbers(n)
    BY <1>1, CallEnds
  <1>3. call[r].method \in Methods /\ call[r].current \in Nat
    BY <1>1 DEF LimitsInv, LimitsTyped, CallStates
  <1>4. LimitsTyped'
    BY <1>1, <1>2, <1>3 DEF LimitsInv, LimitsTyped
  <1>5. WithinSpent'
    <2> SUFFICES ASSUME NEW m \in Methods PROVE admitted'[m] <= Cardinality(SpentNumbers(Limit[m])')
      BY DEF WithinSpent
    <2>1. Limit[m] \in Nat /\ counter \in Nat /\ counter' \in Nat
          /\ admitted[m] \in Nat /\ admitted[m] <= Cardinality(SpentNumbers(Limit[m]))
      BY <1>1, RateLimitsAssumption DEF LimitsInv, LimitsTyped, WithinSpent
    <2>2. IsFiniteSet(SpentNumbers(Limit[m])) /\ Cardinality(SpentNumbers(Limit[m])) \in Nat
      BY <2>1, SpentIsFinite
    <2>3. IsFiniteSet(SpentNumbers(Limit[m])') /\ Cardinality(SpentNumbers(Limit[m])') \in Nat
      <3>1. SpentNumbers(Limit[m])' \subseteq 1..counter'
        BY DEF SpentNumbers
      <3> QED
        BY <2>1, <3>1, PartOfRange
    <2>4. Cardinality(SpentNumbers(Limit[m])) <= Cardinality(SpentNumbers(Limit[m])')
      BY <1>2, <2>1, <2>3, FS_Subset
    <2>5. CASE admitted'[m] = admitted[m]
      BY <2>1, <2>2, <2>3, <2>4, <2>5
    <2>6. CASE admitted'[m] # admitted[m]
      <3>1. ~OverLimit(r) /\ ~call[r].old /\ m = call[r].method /\ admitted'[m] = admitted[m] + 1
        <4>1. ~(OverLimit(r) \/ call[r].old)
          BY <1>1, <2>6, Zenon
        <4>2. admitted' = [admitted EXCEPT ![call[r].method] = @ + 1]
          BY <1>1, <4>1
        <4> QED
          BY <1>3, <2>6, <4>1, <4>2 DEF LimitsInv, LimitsTyped
      <3>2. Pending(r) /\ call[r].current <= Limit[m]
        BY <1>1, <1>3, <2>1, <3>1 DEF Pending, OverLimit
      <3>3. /\ SpentNumbers(Limit[m])' = SpentNumbers(Limit[m]) \cup {call[r].current}
            /\ call[r].current \notin SpentNumbers(Limit[m])
        BY <1>2, <2>1, <3>2
      <3>4. Cardinality(SpentNumbers(Limit[m])') = Cardinality(SpentNumbers(Limit[m])) + 1
        BY <2>2, <3>3, FS_AddElement
      <3> QED
        BY <2>1, <2>2, <3>1, <3>4
    <2> QED
      BY <2>5, <2>6
  <1>6. KeyIsDated'
    BY <1>1 DEF LimitsInv, LimitsTyped, KeyIsDated
  <1>7. BlockIsKept'
    BY <1>1 DEF LimitsInv, BlockIsKept
  <1> QED
    BY <1>2, <1>4, <1>5, <1>6, <1>7 DEF LimitsInv
LEMMA RedisFailsKeeps == ASSUME LimitsInv, NEW r \in Calls, RedisFails(r) PROVE LimitsInv'
  <1>1. /\ call[r].at # "idle" /\ call' = [call EXCEPT ![r] = Resting]
        /\ UNCHANGED <<counter, admitted, blockedIp, block, wiped>>
    BY DEF RedisFails
  <1>2. PICK done \in BOOLEAN :
        /\ expires' = (expires \/ (call[r].at = "expire" /\ done /\ counter > 0))
        /\ endless' = (endless \/ (call[r].at = "expire" /\ ~done))
    BY DEF RedisFails
  <1>3. /\ call' \in [Calls -> CallStates] /\ OwnNumbers'
        /\ \A s \in Calls : call'[s].at # "idle" => call'[s].method \in Methods
        /\ \A n \in Nat : SpentNumbers(n) \subseteq SpentNumbers(n)'
    BY <1>1, CallEnds
  <1>4. LimitsTyped'
    <2>1. expires' \in BOOLEAN
      BY <1>2
    <2> QED
      BY <1>1, <1>3, <2>1 DEF LimitsInv, LimitsTyped
  <1>5. WithinSpent'
    BY <1>1, <1>3, FewerSpent
  <1>6. KeyIsDated'
    <2>1. ASSUME counter' > 0, ~expires', ~endless' PROVE \E s \in Calls : call'[s].at = "expire"
      <3>1. ~expires /\ ~endless /\ call[r].at # "expire" /\ counter > 0
        BY <1>1, <1>2, <2>1
      <3>2. PICK s \in Calls : call[s].at = "expire"
        BY <3>1 DEF LimitsInv, KeyIsDated
      <3> QED
        BY <1>1, <3>1, <3>2 DEF LimitsInv, LimitsTyped
    <2> QED
      BY <2>1 DEF KeyIsDated
  <1>7. BlockIsKept'
    BY <1>1 DEF LimitsInv, BlockIsKept
  <1> QED
    BY <1>3, <1>4, <1>5, <1>6, <1>7 DEF LimitsInv

\* What a new window forgets.
LEMMA WindowKeeps ==
    ASSUME LimitsInv, ForgetWindow PROVE LimitsTyped' /\ OwnNumbers' /\ WithinSpent' /\ KeyIsDated'
  <1> DEFINE aside(r) == [call[r] EXCEPT !.old = (call[r].at # "idle")]
  <1>1. /\ counter' = 0 /\ ~expires' /\ expires' \in BOOLEAN /\ admitted' = [m \in Methods |-> 0]
        /\ call' = [r \in Calls |-> aside(r)]
    BY DEF ForgetWindow
  <1>2. \A r \in Calls : /\ aside(r) \in CallStates /\ aside(r).at = call[r].at
                         /\ aside(r).method = call[r].method
                         /\ aside(r).old <=> call[r].at # "idle"
    BY DEF LimitsInv, LimitsTyped, CallStates
  <1> HIDE DEF aside
  <1>3. LimitsTyped'
    BY <1>1, <1>2, RateLimitsAssumption DEF LimitsInv, LimitsTyped
  <1>4. \A r \in Calls : ~Pending(r)'
    BY <1>1, <1>2 DEF Pending
  <1>5. OwnNumbers' /\ KeyIsDated'
    BY <1>1, <1>4 DEF OwnNumbers, KeyIsDated
  <1>6. WithinSpent'
    <2> SUFFICES ASSUME NEW m \in Methods PROVE admitted'[m] <= Cardinality(SpentNumbers(Limit[m])')
      BY DEF WithinSpent
    <2>1. SpentNumbers(Limit[m])' \subseteq 1..0
      BY <1>1 DEF SpentNumbers
    <2>2. Cardinality(SpentNumbers(Limit[m])') \in Nat
      BY <2>1, PartOfRange
    <2> QED
      BY <1>1, <2>2
  <1> QED
    BY <1>3, <1>5, <1>6

\* The list of addresses, and its reason.
LEMMA BlockKeeps == LimitsInv /\ (BlockIp \/ RecordReason) => LimitsInv'
  <1> SUFFICES ASSUME LimitsInv, BlockIp \/ RecordReason PROVE LimitsInv'
    OBVIOUS
  <1>1. UNCHANGED <<counter, expires, call, admitted, endless>>
    BY DEF BlockIp, RecordReason
  <1>2. LimitsTyped' /\ OwnNumbers' /\ KeyIsDated'
    BY <1>1 DEF LimitsInv, LimitsTyped, OwnNumbers, Pending, KeyIsDated
  <1>3. WithinSpent'
    <2>1. \A n \in Nat : SpentNumbers(n)' = SpentNumbers(n)
      BY <1>1 DEF SpentNumbers, Pending
    <2> QED
      BY <1>1, <2>1, RateLimitsAssumption DEF LimitsInv, WithinSpent
  <1>4. BlockIsKept'
    BY DEF BlockIp, RecordReason, BlockFails, LimitsInv, BlockIsKept
  <1> QED
    BY <1>2, <1>3, <1>4 DEF LimitsInv

LEMMA ForgetsKeep == LimitsInv /\ (KeyExpires \/ ClearRedisCache) => LimitsInv'
  <1> SUFFICES ASSUME LimitsInv, KeyExpires \/ ClearRedisCache PROVE LimitsInv'
    OBVIOUS
  <1>1. BlockIsKept'
    BY DEF KeyExpires, ClearRedisCache, LimitsInv, BlockIsKept
  <1> QED
    BY <1>1, WindowKeeps DEF KeyExpires, ClearRedisCache, LimitsInv

LEMMA LimitsSteps == LimitsInv /\ [RateLimitsNext]_limitVars => LimitsInv'
  <1> SUFFICES ASSUME LimitsInv, [RateLimitsNext]_limitVars PROVE LimitsInv'
    OBVIOUS
  <1>1. CASE UNCHANGED limitVars
    <2>1. \A n \in Nat : SpentNumbers(n)' = SpentNumbers(n)
      BY <1>1 DEF limitVars, SpentNumbers, Pending
    <2>2. WithinSpent'
      BY <1>1, <2>1, RateLimitsAssumption DEF LimitsInv, WithinSpent, limitVars
    <2> QED
      BY <1>1, <2>2 DEF limitVars, LimitsInv, LimitsTyped, OwnNumbers, Pending, KeyIsDated, BlockIsKept
  <1> QED
    BY <1>1, IncrKeeps, SetExpiryKeeps, DecideKeeps, RedisFailsKeeps, ForgetsKeep, BlockKeeps
    DEF RateLimitsNext

LEMMA LimitsSafe == LimitsInv => LimitHolds /\ KeyIsDated /\ ToldBlocked
  <1> SUFFICES ASSUME LimitsInv PROVE LimitHolds /\ KeyIsDated /\ ToldBlocked
    OBVIOUS
  <1>1. ASSUME NEW m \in Methods PROVE admitted[m] <= Limit[m]
    <2>1. Limit[m] \in Nat /\ counter \in Nat /\ admitted[m] \in Nat
          /\ admitted[m] <= Cardinality(SpentNumbers(Limit[m]))
      BY RateLimitsAssumption DEF LimitsInv, LimitsTyped, WithinSpent
    <2>2. Cardinality(SpentNumbers(Limit[m])) \in Nat /\ Cardinality(SpentNumbers(Limit[m])) <= Limit[m]
      BY <2>1, SpentIsFinite
    <2> QED
      BY <2>1, <2>2
  <1> QED
    BY <1>1 DEF LimitsInv, LimitHolds, ToldBlocked, BlockIsKept

-----------------------------------------------------------------------------
(* The console of the admins                                               *)

WorkStates == [at : {"none", "read", "locked", "toggle", "selected", "cool"}, old : BOOLEAN, new : BOOLEAN]

AdminTyped == /\ AdminTypeOK /\ changeLog \in Seq(Changes) /\ Len(changeLog) <= MaxChanges
              /\ work \in [Admins -> WorkStates] /\ IsFiniteSet(Admins)

\* Who holds the row has written it, and is alone with it.
LockHolderWrote ==
    \A a \in Admins : work[a].at = "locked" =>
        /\ setting = work[a].new /\ ~toggled
        /\ \A b \in Admins : work[b].at = "locked" => a = b

Cooling == {a \in Admins : work[a].at = "cool"}
Seated == {a \in Admins : seat[a] = "on"}

ConfigInv == AdminTyped /\ LockHolderWrote /\ LogNamesTheValue
AlertsInv == AdminTyped /\ recent + Cardinality(Cooling) <= Cardinality(Admins)
SeatsInv == AdminTyped /\ SeatsCounted

LEMMA Workless == NoWork \in WorkStates /\ NoWork.at = "none"
  BY DEF NoWork, WorkStates

LEMMA BoundedLog ==
    ASSUME NEW s, s \in Seq(Changes), Len(s) <= MaxChanges
    PROVE  s \in BoundedSeq(Changes, MaxChanges)
  <1>1. Len(s) \in 0..MaxChanges /\ s \in [1..Len(s) -> Changes]
    BY LenProperties, AdminAssumption
  <1> QED
    BY <1>1 DEF BoundedSeq, SeqOf

LEMMA AdminStart == AdminInit => ConfigInv /\ AlertsInv /\ SeatsInv
  <1> SUFFICES ASSUME AdminInit PROVE ConfigInv /\ AlertsInv /\ SeatsInv
    OBVIOUS
  <1>1. changeLog \in Seq(Changes) /\ Len(changeLog) = 0 /\ changeLog = <<>>
    BY EmptySeq DEF AdminInit
  <1>2. /\ changeLog \in BoundedSeq(Changes, MaxChanges) /\ Len(changeLog) <= MaxChanges
    <2>1. Len(changeLog) <= MaxChanges
      BY <1>1, AdminAssumption
    <2> QED
      BY <1>1, <2>1, BoundedLog
  <1>3. setting \in BOOLEAN /\ toggled \in BOOLEAN /\ fired \in BOOLEAN /\ shown \in [Admins -> BOOLEAN]
    BY Zenon DEF AdminInit
  <1>4. rule \in {"none", "on", "off"} /\ recent = 0 /\ connectedAdmins = 0
        /\ seat \in [Admins -> {"off", "on", "refused"}] /\ \A a \in Admins : seat[a] = "off"
    BY DEF AdminInit
  <1>5. work \in [Admins -> WorkStates] /\ \A a \in Admins : work[a].at = "none"
    BY Workless DEF AdminInit
  <1>6. AdminTyped
    <2>1. recent \in 0..MaxChanges /\ connectedAdmins \in 0..MaxSeats
      BY <1>4, AdminAssumption
    <2>2. \A a \in Admins : work[a].at \in {"none", "read", "locked", "toggle", "selected", "cool"}
      BY <1>5
    <2> QED
      BY <1>1, <1>2, <1>3, <1>4, <1>5, <2>1, <2>2, AdminAssumption, Zenon DEF AdminTyped, AdminTypeOK
  <1>7. Cooling = {} /\ Seated = {}
    BY <1>4, <1>5 DEF Cooling, Seated
  <1>8. Cardinality(Cooling) = 0 /\ Cardinality(Seated) = 0 /\ Cardinality(Admins) \in Nat
    BY <1>7, FS_EmptySet, FS_CardinalityType, AdminAssumption
  <1>9. LockHolderWrote /\ LogNamesTheValue
    BY <1>1, <1>5 DEF LockHolderWrote, LogNamesTheValue
  <1>10. SeatsCounted
    BY <1>4, <1>8 DEF SeatsCounted, Seated
  <1> QED
    BY <1>4, <1>6, <1>8, <1>9, <1>10 DEF ConfigInv, AlertsInv, SeatsInv

-----------------------------------------------------------------------------
\* The work of one admin changes.
LEMMA WorkIsSet ==
    ASSUME AdminTyped, NEW a \in Admins, NEW w \in WorkStates, work' = [work EXCEPT ![a] = w]
    PROVE  /\ work' \in [Admins -> WorkStates] /\ work'[a] = w
           /\ \A b \in Admins \ {a} : work'[b] = work[b]
  BY DEF AdminTyped

LEMMA WorkGoes ==
    ASSUME AdminTyped, NEW a \in Admins,
           NEW at \in {"none", "read", "locked", "toggle", "selected", "cool"}, Goes(a, at)
    PROVE  /\ work' \in [Admins -> WorkStates] /\ work'[a].at = at
           /\ work'[a].new = work[a].new /\ work'[a].old = work[a].old
           /\ \A b \in Admins \ {a} : work'[b] = work[b]
  <1> DEFINE w == [work[a] EXCEPT !.at = at]
  <1>1. w \in WorkStates /\ w.at = at /\ w.new = work[a].new /\ w.old = work[a].old
    BY DEF AdminTyped, WorkStates
  <1>2. work' = [work EXCEPT ![a] = w]
    BY DEF Goes, AdminTyped
  <1> HIDE DEF w
  <1> QED
    BY <1>1, <1>2, WorkIsSet

\* A step in which nobody takes or gives up the row.
LEMMA SameButWork ==
    ASSUME ConfigInv, NEW a \in Admins, work' \in [Admins -> WorkStates],
           work[a].at # "locked", work'[a].at # "locked", \A b \in Admins \ {a} : work'[b] = work[b],
           shown' \in [Admins -> BOOLEAN], UNCHANGED <<setting, changeLog, toggled, alertVars, seatVars>>
    PROVE  ConfigInv'
  <1>1. AdminTyped'
    BY DEF ConfigInv, AdminTyped, AdminTypeOK, alertVars, seatVars, WorkStates
  <1>2. LockHolderWrote'
    BY DEF ConfigInv, LockHolderWrote
  <1>3. LogNamesTheValue'
    BY DEF ConfigInv, LogNamesTheValue, Last
  <1> QED
    BY <1>1, <1>2, <1>3 DEF ConfigInv

LEMMA ReadOldKeeps == ASSUME ConfigInv, NEW a \in Admins, ReadOldValue(a) PROVE ConfigInv'
  <1>1. PICK v \in BOOLEAN : work' = [work EXCEPT ![a] = [at |-> "read", old |-> setting, new |-> v]]
    BY DEF ReadOldValue
  <1>2. UNCHANGED <<setting, changeLog, toggled, shown, alertVars, seatVars>> /\ work[a].at = "none"
    BY DEF ReadOldValue, Free
  <1> DEFINE w == [at |-> "read", old |-> setting, new |-> v]
  <1>3. w \in WorkStates /\ w.at = "read"
    BY DEF WorkStates, ConfigInv, AdminTyped, AdminTypeOK
  <1> HIDE DEF w
  <1>4. /\ work' \in [Admins -> WorkStates] /\ work'[a].at = "read"
        /\ \A b \in Admins \ {a} : work'[b] = work[b]
    BY <1>1, <1>3, WorkIsSet DEF ConfigInv, w
  <1>5. shown' \in [Admins -> BOOLEAN]
    BY <1>2 DEF ConfigInv, AdminTyped, AdminTypeOK
  <1> QED
    BY <1>2, <1>4, <1>5, SameButWork

LEMMA PressKeeps == ASSUME ConfigInv, NEW a \in Admins, PressToggle(a) PROVE ConfigInv'
  <1>1. /\ work' = [work EXCEPT ![a] = [at |-> "toggle", old |-> FALSE, new |-> ~shown[a]]]
        /\ UNCHANGED <<setting, changeLog, toggled, shown, alertVars, seatVars>> /\ work[a].at = "none"
    BY DEF PressToggle, Free
  <1> DEFINE w == [at |-> "toggle", old |-> FALSE, new |-> ~shown[a]]
  <1>2. w \in WorkStates /\ w.at = "toggle"
    BY DEF WorkStates
  <1> HIDE DEF w
  <1>3. /\ work' \in [Admins -> WorkStates] /\ work'[a].at = "toggle"
        /\ \A b \in Admins \ {a} : work'[b] = work[b]
    BY <1>1, <1>2, WorkIsSet DEF ConfigInv, w
  <1> QED
    BY <1>1, <1>3, SameButWork DEF ConfigInv, AdminTyped, AdminTypeOK

LEMMA FetchKeeps == ASSUME ConfigInv, NEW a \in Admins, FetchConfig(a) PROVE ConfigInv'
  <1>1. /\ shown' \in [Admins -> BOOLEAN] /\ work[a].at = "none"
        /\ UNCHANGED <<setting, changeLog, toggled, work, alertVars, seatVars>>
    BY DEF FetchConfig, Free, ConfigInv, AdminTyped, AdminTypeOK
  <1> QED
    BY <1>1, SameButWork DEF ConfigInv, AdminTyped

\* The value is written by one who holds the row.
LEMMA UpsertKeeps == ASSUME ConfigInv, NEW a \in Admins, UpsertValue(a) PROVE ConfigInv'
  <1>1. /\ \A b \in Admins \ {a} : work[b].at # "locked"
        /\ setting' = work[a].new /\ toggled' = FALSE /\ Goes(a, "locked")
        /\ UNCHANGED <<changeLog, shown, alertVars, seatVars>>
    BY DEF UpsertValue, RowIsFree
  <1>2. /\ work' \in [Admins -> WorkStates] /\ work'[a].at = "locked" /\ work'[a].new = work[a].new
        /\ \A b \in Admins \ {a} : work'[b] = work[b]
    BY <1>1, WorkGoes DEF ConfigInv
  <1>3. setting' \in BOOLEAN /\ toggled' \in BOOLEAN
    BY <1>1 DEF ConfigInv, AdminTyped, WorkStates
  <1>4. AdminTyped'
    BY <1>1, <1>2, <1>3 DEF ConfigInv, AdminTyped, AdminTypeOK, alertVars, seatVars, WorkStates
  <1>5. LockHolderWrote'
    BY <1>1, <1>2 DEF LockHolderWrote
  <1>6. LogNamesTheValue'
    BY <1>2 DEF LogNamesTheValue
  <1> QED
    BY <1>4, <1>5, <1>6 DEF ConfigInv

\* What is logged is the value in force.
LEMMA ChangeKeeps == ASSUME ConfigInv, NEW a \in Admins, LogChange(a) PROVE ConfigInv'
  <1>1. /\ work[a].at = "locked" /\ Len(changeLog) < MaxChanges /\ Ends(a)
        /\ changeLog' = Append(changeLog, [old |-> work[a].old, new |-> work[a].new])
        /\ UNCHANGED <<setting, toggled, shown, alertVars, seatVars>>
    BY DEF LogChange
  <1> DEFINE entry == [old |-> work[a].old, new |-> work[a].new]
  <1>2. entry \in Changes /\ entry.new = work[a].new
    BY DEF Changes, ConfigInv, AdminTyped, WorkStates
  <1>3. changeLog' = Append(changeLog, entry)
    BY <1>1
  <1> HIDE DEF entry
  <1>4. /\ changeLog' \in Seq(Changes) /\ Len(changeLog') = Len(changeLog) + 1 /\ Len(changeLog) \in Nat
        /\ changeLog'[Len(changeLog')] = entry
    BY <1>2, <1>3, AppendProperties, LenProperties DEF ConfigInv, AdminTyped
  <1>5. Len(changeLog') <= MaxChanges /\ changeLog' \in BoundedSeq(Changes, MaxChanges)
    <2>1. Len(changeLog') <= MaxChanges
      BY <1>1, <1>4, AdminAssumption
    <2> QED
      BY <1>4, <2>1, BoundedLog
  <1>6. /\ work' \in [Admins -> WorkStates] /\ work'[a].at = "none"
        /\ \A b \in Admins \ {a} : work'[b] = work[b]
    BY <1>1, Workless, WorkIsSet DEF Ends, ConfigInv
  <1>7. AdminTyped'
    BY <1>1, <1>4, <1>5, <1>6 DEF ConfigInv, AdminTyped, AdminTypeOK, alertVars, seatVars, WorkStates
  <1>8. LockHolderWrote'
    BY <1>1, <1>6 DEF ConfigInv, LockHolderWrote
  <1>9. LogNamesTheValue'
    BY <1>1, <1>2, <1>4 DEF ConfigInv, LockHolderWrote, LogNamesTheValue, Last
  <1> QED
    BY <1>7, <1>8, <1>9 DEF ConfigInv

LEMMA ToggleKeeps == ASSUME ConfigInv, NEW a \in Admins, ToggleMaintenance(a) PROVE ConfigInv'
  <1>1. /\ \A b \in Admins \ {a} : work[b].at # "locked"
        /\ setting' = work[a].new /\ toggled' = TRUE /\ Ends(a)
        /\ UNCHANGED <<changeLog, shown, alertVars, seatVars>>
    BY DEF ToggleMaintenance, RowIsFree
  <1>2. /\ work' \in [Admins -> WorkStates] /\ work'[a].at = "none"
        /\ \A b \in Admins \ {a} : work'[b] = work[b]
    BY <1>1, Workless, WorkIsSet DEF Ends, ConfigInv
  <1>3. setting' \in BOOLEAN /\ toggled' \in BOOLEAN
    BY <1>1 DEF ConfigInv, AdminTyped, WorkStates
  <1>4. AdminTyped'
    BY <1>1, <1>2, <1>3 DEF ConfigInv, AdminTyped, AdminTypeOK, alertVars, seatVars, WorkStates
  <1>5. LockHolderWrote' /\ LogNamesTheValue'
    BY <1>1, <1>2 DEF LockHolderWrote, LogNamesTheValue
  <1> QED
    BY <1>4, <1>5 DEF ConfigInv

LEMMA ConfigSteps == ConfigInv /\ [ConfigNext]_adminVars => ConfigInv'
  <1> SUFFICES ASSUME ConfigInv, [ConfigNext]_adminVars PROVE ConfigInv'
    OBVIOUS
  <1>1. CASE UNCHANGED adminVars
    BY <1>1 DEF adminVars, ConfigInv, AdminTyped, AdminTypeOK, LockHolderWrote, LogNamesTheValue
  <1> QED
    BY <1>1, FetchKeeps, ReadOldKeeps, UpsertKeeps, ChangeKeeps, PressKeeps, ToggleKeeps DEF ConfigNext

-----------------------------------------------------------------------------
\* Those who found the rule cool can each fire it once.
LEMMA CoolIsFinite ==
    ASSUME NEW S, S \subseteq Admins
    PROVE  IsFiniteSet(S) /\ Cardinality(S) \in Nat /\ Cardinality(S) <= Cardinality(Admins)
           /\ Cardinality(Admins) \in Nat
  BY FS_Subset, FS_CardinalityType, AdminAssumption

LEMMA NotCoolerKeeps ==
    ASSUME AlertsInv, work' \in [Admins -> WorkStates], rule' \in {"none", "on", "off"},
           recent' \in 0..recent, fired' \in BOOLEAN, Cooling' \subseteq Cooling,
           UNCHANGED <<configVars, seatVars>>
    PROVE  AlertsInv'
  <1>1. AdminTyped'
    <2>1. recent' \in 0..MaxChanges
      BY AdminAssumption DEF AlertsInv, AdminTyped, AdminTypeOK
    <2>2. \A a \in Admins : work'[a].at \in {"none", "read", "locked", "toggle", "selected", "cool"}
      BY DEF WorkStates
    <2> QED
      BY <2>1, <2>2 DEF AlertsInv, AdminTyped, AdminTypeOK, configVars, seatVars
  <1>2. Cooling \subseteq Admins
    BY DEF Cooling
  <1>3. /\ Cardinality(Cooling) \in Nat /\ Cardinality(Cooling') \in Nat /\ Cardinality(Cooling') <= Cardinality(Cooling)
        /\ Cardinality(Admins) \in Nat
    BY <1>2, CoolIsFinite, FS_Subset, FS_CardinalityType
  <1>4. recent \in Nat /\ recent + Cardinality(Cooling) <= Cardinality(Admins)
    BY DEF AlertsInv, AdminTyped, AdminTypeOK
  <1>5. recent' + Cardinality(Cooling') <= Cardinality(Admins)
    BY <1>3, <1>4
  <1> QED
    BY <1>1, <1>5 DEF AlertsInv

LEMMA RuleKeeps ==
    ASSUME AlertsInv, NEW a \in Admins,
           CreateAlertRule(a) \/ UpdateAlertRule(a) \/ DeleteAlertRule(a)
    PROVE  AlertsInv'
  <1>1. rule' \in {"none", "on", "off"} /\ UNCHANGED <<configVars, work, recent, fired, seatVars>>
    BY DEF CreateAlertRule, UpdateAlertRule, DeleteAlertRule
  <1>2. recent' \in 0..recent /\ fired' \in BOOLEAN /\ work' \in [Admins -> WorkStates]
    BY <1>1 DEF AlertsInv, AdminTyped, AdminTypeOK
  <1> QED
    BY <1>1, <1>2, NotCoolerKeeps DEF Cooling

LEMMA SelectKeeps == ASSUME AlertsInv, NEW a \in Admins, SelectRules(a) PROVE AlertsInv'
  <1>1. Goes(a, "selected") /\ UNCHANGED <<configVars, alertVars, seatVars>>
    BY DEF SelectRules
  <1>2. /\ work' \in [Admins -> WorkStates] /\ work'[a].at = "selected"
        /\ \A b \in Admins \ {a} : work'[b] = work[b]
    BY <1>1, WorkGoes DEF AlertsInv
  <1>3. recent' \in 0..recent /\ fired' \in BOOLEAN /\ rule' \in {"none", "on", "off"}
    BY <1>1 DEF AlertsInv, AdminTyped, AdminTypeOK, alertVars
  <1> QED
    BY <1>1, <1>2, <1>3, NotCoolerKeeps DEF Cooling

LEMMA CheckKeeps == ASSUME AlertsInv, NEW a \in Admins, CheckCooldown(a) PROVE AlertsInv'
  <1>1. PICK at \in {"cool", "none"} : Goes(a, at) /\ (at = "cool" => recent <= 0)
    BY DEF CheckCooldown, InCooldown, AlertsInv, AdminTyped, AdminTypeOK
  <1>2. UNCHANGED <<configVars, alertVars, seatVars>>
    BY DEF CheckCooldown
  <1>3. /\ work' \in [Admins -> WorkStates] /\ work'[a].at = at
        /\ \A b \in Admins \ {a} : work'[b] = work[b]
    BY <1>1, WorkGoes DEF AlertsInv
  <1>4. recent' \in 0..recent /\ fired' \in BOOLEAN /\ rule' \in {"none", "on", "off"} /\ recent \in Nat
    BY <1>2 DEF AlertsInv, AdminTyped, AdminTypeOK, alertVars
  <1>5. CASE at = "none"
    BY <1>2, <1>3, <1>4, <1>5, NotCoolerKeeps DEF Cooling
  <1>6. CASE at = "cool"
    <2>1. recent' = 0
      BY <1>1, <1>4, <1>6
    <2>2. Cooling' \subseteq Admins
      BY DEF Cooling
    <2>3. AdminTyped'
      BY <1>2, <1>3 DEF AlertsInv, AdminTyped, AdminTypeOK, configVars, alertVars, seatVars, WorkStates
    <2>4. Cardinality(Cooling') \in Nat /\ Cardinality(Cooling') <= Cardinality(Admins)
      BY <2>2, CoolIsFinite
    <2> QED
      BY <2>1, <2>3, <2>4 DEF AlertsInv
  <1> QED
    BY <1>5, <1>6

LEMMA AlertKeeps == ASSUME AlertsInv, NEW a \in Admins, CreateAlert(a) PROVE AlertsInv'
  <1>1. work[a].at = "cool" /\ Goes(a, "none") /\ UNCHANGED <<configVars, rule, seatVars>>
    BY DEF CreateAlert
  <1>2. /\ work' \in [Admins -> WorkStates] /\ work'[a].at = "none"
        /\ \A b \in Admins \ {a} : work'[b] = work[b]
    BY <1>1, WorkGoes DEF AlertsInv
  <1>3. Cooling' = Cooling \ {a} /\ a \in Cooling
    BY <1>1, <1>2 DEF Cooling
  <1>4. CASE rule = "none"
    <2>1. UNCHANGED <<recent, fired>>
      BY <1>4 DEF CreateAlert
    <2>2. recent' \in 0..recent /\ fired' \in BOOLEAN /\ rule' \in {"none", "on", "off"}
      BY <1>1, <2>1 DEF AlertsInv, AdminTyped, AdminTypeOK
    <2> QED
      BY <1>1, <1>2, <1>3, <2>2, NotCoolerKeeps
  <1>5. CASE rule # "none"
    <2>1. recent < MaxChanges /\ recent' = recent + 1 /\ fired' = TRUE
      BY <1>5 DEF CreateAlert
    <2>2. recent' \in 0..MaxChanges /\ recent \in Nat
      BY <2>1, AdminAssumption DEF AlertsInv, AdminTyped, AdminTypeOK
    <2>3. AdminTyped'
      BY <1>1, <1>2, <2>1, <2>2 DEF AlertsInv, AdminTyped, AdminTypeOK, configVars, seatVars, WorkStates
    <2>4. Cooling \subseteq Admins
      BY DEF Cooling
    <2>5. Cardinality(Cooling') = Cardinality(Cooling) - 1 /\ Cardinality(Cooling) \in Nat /\ Cardinality(Admins) \in Nat
      BY <1>3, <2>4, CoolIsFinite, FS_RemoveElement
    <2> QED
      BY <2>1, <2>2, <2>3, <2>5 DEF AlertsInv
  <1> QED
    BY <1>4, <1>5

LEMMA CoolsKeeps == AlertsInv /\ CooldownEnds => AlertsInv'
  <1> SUFFICES ASSUME AlertsInv, CooldownEnds PROVE AlertsInv'
    OBVIOUS
  <1>1. recent' \in 0..recent /\ UNCHANGED <<configVars, work, rule, fired, seatVars>>
    BY DEF CooldownEnds, AlertsInv, AdminTyped, AdminTypeOK
  <1>2. fired' \in BOOLEAN /\ work' \in [Admins -> WorkStates] /\ rule' \in {"none", "on", "off"}
    BY <1>1 DEF AlertsInv, AdminTyped, AdminTypeOK
  <1> QED
    BY <1>1, <1>2, NotCoolerKeeps DEF Cooling

LEMMA AlertsSteps == AlertsInv /\ [AlertNext]_adminVars => AlertsInv'
  <1> SUFFICES ASSUME AlertsInv, [AlertNext]_adminVars PROVE AlertsInv'
    OBVIOUS
  <1>1. CASE UNCHANGED adminVars
    BY <1>1 DEF adminVars, AlertsInv, AdminTyped, AdminTypeOK, Cooling
  <1> QED
    BY <1>1, RuleKeeps, SelectKeeps, CheckKeeps, AlertKeeps, CoolsKeeps DEF AlertNext

LEMMA AlertsSafe == AlertsInv => AlertsPerCooldown
  <1> SUFFICES ASSUME AlertsInv PROVE AlertsPerCooldown
    OBVIOUS
  <1>1. Cooling \subseteq Admins
    BY DEF Cooling
  <1>2. Cardinality(Cooling) \in Nat /\ Cardinality(Admins) \in Nat /\ recent \in Nat
    BY <1>1, CoolIsFinite DEF AlertsInv, AdminTyped, AdminTypeOK
  <1> QED
    BY <1>2 DEF AlertsInv, AlertsPerCooldown

-----------------------------------------------------------------------------
LEMMA SeatsFinite == IsFiniteSet(Seated) /\ Cardinality(Seated) \in Nat
  <1>1. Seated \subseteq Admins
    BY DEF Seated
  <1> QED
    BY <1>1, CoolIsFinite

LEMMA ConnectKeeps == ASSUME SeatsInv, NEW a \in Admins, Connect(a) PROVE SeatsInv'
  <1>1. seat[a] = "off" /\ UNCHANGED <<configVars, work, alertVars>>
    BY DEF Connect
  <1>2. connectedAdmins \in 0..MaxSeats /\ connectedAdmins = Cardinality(Seated)
        /\ seat \in [Admins -> {"off", "on", "refused"}]
    BY DEF SeatsInv, SeatsCounted, Seated, AdminTyped, AdminTypeOK
  <1>3. CASE Full
    <2>1. seat' = [seat EXCEPT ![a] = "refused"] /\ UNCHANGED connectedAdmins
      BY <1>3 DEF Connect
    <2>2. Seated' = Seated /\ seat' \in [Admins -> {"off", "on", "refused"}]
      BY <1>1, <1>2, <2>1 DEF Seated
    <2>3. SeatsCounted'
      BY <1>2, <2>1, <2>2 DEF SeatsCounted, Seated
    <2> QED
      BY <1>1, <2>1, <2>2, <2>3
      DEF SeatsInv, AdminTyped, AdminTypeOK, configVars, alertVars, WorkStates
  <1>4. CASE ~Full
    <2>1. seat' = [seat EXCEPT ![a] = "on"] /\ connectedAdmins' = connectedAdmins + 1
      BY <1>4 DEF Connect
    <2>2. Seated' = Seated \cup {a} /\ a \notin Seated /\ seat' \in [Admins -> {"off", "on", "refused"}]
      BY <1>1, <1>2, <2>1 DEF Seated
    <2>3. Cardinality(Seated') = Cardinality(Seated) + 1
      BY <2>2, SeatsFinite, FS_AddElement
    <2>4. SeatsCounted'
      BY <1>2, <2>1, <2>3 DEF SeatsCounted, Seated
    <2>5. connectedAdmins' \in 0..MaxSeats
      BY <1>2, <1>4, <2>1, AdminAssumption DEF Full
    <2> QED
      BY <1>1, <2>1, <2>2, <2>4, <2>5
      DEF SeatsInv, AdminTyped, AdminTypeOK, configVars, alertVars, WorkStates
  <1> QED
    BY <1>3, <1>4

LEMMA DisconnectKeeps == ASSUME SeatsInv, NEW a \in Admins, Disconnect(a) PROVE SeatsInv'
  <1>1. /\ seat' = [seat EXCEPT ![a] = "off"] /\ connectedAdmins' = CountAfter(a)
        /\ UNCHANGED <<configVars, work, alertVars>>
    BY DEF Disconnect
  <1>2. connectedAdmins \in 0..MaxSeats /\ connectedAdmins = Cardinality(Seated)
        /\ seat \in [Admins -> {"off", "on", "refused"}]
    BY DEF SeatsInv, SeatsCounted, Seated, AdminTyped, AdminTypeOK
  <1>3. Seated' = Seated \ {a} /\ (a \in Seated <=> seat[a] = "on")
        /\ seat' \in [Admins -> {"off", "on", "refused"}]
    BY <1>1, <1>2 DEF Seated
  <1>4. connectedAdmins' = Cardinality(Seated')
    <2>1. Cardinality(Seated') = IF a \in Seated THEN Cardinality(Seated) - 1 ELSE Cardinality(Seated)
      BY <1>3, SeatsFinite, FS_RemoveElement
    <2> QED
      BY <1>1, <1>2, <1>3, <2>1 DEF CountAfter
  <1>5. Cardinality(Seated') \in Nat
    <2>1. Seated' \subseteq Admins
      BY DEF Seated
    <2> QED
      BY <2>1, CoolIsFinite
  <1>6. connectedAdmins' \in 0..MaxSeats
    BY <1>1, <1>2, <1>4, <1>5, AdminAssumption DEF CountAfter
  <1>7. SeatsCounted'
    BY <1>4 DEF SeatsCounted, Seated
  <1> QED
    BY <1>1, <1>3, <1>6, <1>7
    DEF SeatsInv, AdminTyped, AdminTypeOK, configVars, alertVars, WorkStates

LEMMA SeatsSteps == SeatsInv /\ [SeatNext]_adminVars => SeatsInv'
  <1> SUFFICES ASSUME SeatsInv, [SeatNext]_adminVars PROVE SeatsInv'
    OBVIOUS
  <1>1. CASE UNCHANGED adminVars
    BY <1>1 DEF adminVars, SeatsInv, AdminTyped, AdminTypeOK, SeatsCounted
  <1> QED
    BY <1>1, ConnectKeeps, DisconnectKeeps DEF SeatNext

-----------------------------------------------------------------------------
(* Migrations of the database                                              *)

FileIds == 1..LastFile
BootStates == [at : {"start", "next", "ran", "serving"}, pending : SUBSET FileIds, file : FileIds \cup {0}]

MigTyped ==
    /\ recorded \subseteq FileIds
    /\ ran \in [FileIds -> Nat]
    /\ boot \in [Instances -> BootStates]

\* The files ahead of the one at hand are recorded; so are all that are not pending.
InOrder ==
    \A i \in Instances : boot[i].at \in {"next", "ran"} =>
        /\ boot[i].file \in boot[i].pending
        /\ \A f \in boot[i].pending : boot[i].file <= f
        /\ FileIds \ boot[i].pending \subseteq recorded

\* A file that commits itself has taken effect before it is recorded.
RanFirst ==
    \A i \in Instances : boot[i].at = "ran" /\ boot[i].file \in Closing => ran[boot[i].file] > 0

MigrationsInv == MigTyped /\ InOrder /\ RanFirst /\ MigratedInOrder

LEMMA BootingIs == Booting \in BootStates /\ Booting.at = "start"
  BY DEF Booting, BootStates

LEMMA MigrationsStart == MigrationsInit => MigrationsInv
  <1> SUFFICES ASSUME MigrationsInit PROVE MigrationsInv
    OBVIOUS
  <1>1. MigTyped
    BY BootingIs DEF MigrationsInit, MigTyped, FileIds
  <1>2. \A i \in Instances : boot[i].at = "start"
    BY BootingIs DEF MigrationsInit
  <1>3. InOrder /\ RanFirst
    BY <1>2 DEF InOrder, RanFirst
  <1>4. MigratedInOrder
    BY <1>2 DEF MigrationsInit, MigratedInOrder
  <1> QED
    BY <1>1, <1>3, <1>4 DEF MigrationsInv

LEMMA FirstIsLeast ==
    ASSUME NEW S, S \subseteq FileIds, S # {} PROVE First(S) \in S /\ \A g \in S : First(S) <= g
  <1>1. S \subseteq Nat
    BY MigrationsAssumption DEF FileIds
  <1> QED
    BY <1>1, LeastOf DEF First

\* An instance goes on to the first of its pending files.
LEMMA GoesOnTo ==
    ASSUME MigTyped, NEW i \in Instances, NEW S, S \subseteq FileIds, GoesOn(i, S)
    PROVE  /\ boot' \in [Instances -> BootStates]
           /\ \A j \in Instances \ {i} : boot'[j] = boot[j]
           /\ S = {} => boot'[i].at = "serving"
           /\ S # {} => /\ boot'[i].at = "next" /\ boot'[i].pending = S
                        /\ boot'[i].file \in S /\ \A g \in S : boot'[i].file <= g
  <1> DEFINE up == [Booting EXCEPT !.at = "serving"]
  <1>1. up \in BootStates /\ up.at = "serving"
    BY DEF Booting, BootStates
  <1>2. CASE S = {}
    <2>1. boot' = [boot EXCEPT ![i] = up]
      BY <1>2 DEF GoesOn
    <2> HIDE DEF up
    <2> QED
      BY <1>1, <1>2, <2>1 DEF MigTyped
  <1>3. CASE S # {}
    <2> DEFINE next == [at |-> "next", pending |-> S, file |-> First(S)]
    <2>1. boot' = [boot EXCEPT ![i] = next]
      BY <1>3 DEF GoesOn
    <2>2. First(S) \in S /\ \A g \in S : First(S) <= g
      BY <1>3, FirstIsLeast
    <2>3. next \in BootStates /\ next.at = "next" /\ next.pending = S /\ next.file = First(S)
      BY <2>2 DEF BootStates
    <2> HIDE DEF next
    <2> QED
      BY <1>3, <2>1, <2>2, <2>3 DEF MigTyped
  <1> QED
    BY <1>2, <1>3

LEMMA ReadAppliedKeeps == ASSUME MigrationsInv, NEW i \in Instances, ReadApplied(i) PROVE MigrationsInv'
  <1>1. GoesOn(i, FileIds \ recorded) /\ UNCHANGED <<recorded, ran, falls>>
    BY DEF ReadApplied, FileIds
  <1> DEFINE left == FileIds \ recorded
  <1>2. /\ boot' \in [Instances -> BootStates]
        /\ \A j \in Instances \ {i} : boot'[j] = boot[j]
        /\ left = {} => boot'[i].at = "serving"
        /\ left # {} => /\ boot'[i].at = "next" /\ boot'[i].pending = left
                        /\ boot'[i].file \in left /\ \A g \in left : boot'[i].file <= g
    BY <1>1, GoesOnTo DEF MigrationsInv
  <1>3. MigTyped'
    BY <1>1, <1>2 DEF MigrationsInv, MigTyped
  <1>4. FileIds \ left \subseteq recorded
    OBVIOUS
  <1>5. left = {} => recorded = 1..LastFile
    BY DEF MigrationsInv, MigTyped, FileIds
  <1> HIDE DEF left
  <1>6. InOrder' /\ RanFirst'
    BY <1>1, <1>2, <1>4 DEF MigrationsInv, InOrder, RanFirst
  <1>7. MigratedInOrder'
    BY <1>1, <1>2, <1>5 DEF MigrationsInv, MigratedInOrder
  <1> QED
    BY <1>3, <1>6, <1>7 DEF MigrationsInv

LEMMA RunBodyKeeps == ASSUME MigrationsInv, NEW i \in Instances, RunBody(i) PROVE MigrationsInv'
  <1> DEFINE done == [boot[i] EXCEPT !.at = "ran"]
  <1>0. PICK f : f = boot[i].file
    OBVIOUS
  <1>1. /\ boot[i].at = "next" /\ UNCHANGED <<recorded, falls>>
        /\ ran' = IF f \in Closing THEN [ran EXCEPT ![f] = @ + 1] ELSE ran
    BY <1>0 DEF RunBody
  <1>2. boot' = [boot EXCEPT ![i] = done]
    BY DEF RunBody, MigrationsInv, MigTyped
  <1>3. /\ done \in BootStates /\ done.at = "ran" /\ done.file = f /\ done.pending = boot[i].pending
    BY <1>0 DEF MigrationsInv, MigTyped, BootStates
  <1> HIDE DEF done
  <1>4. /\ boot' \in [Instances -> BootStates] /\ boot'[i] = done
        /\ \A j \in Instances \ {i} : boot'[j] = boot[j]
    BY <1>2, <1>3 DEF MigrationsInv, MigTyped
  <1>5. /\ f \in FileIds /\ f \in boot[i].pending /\ \A g \in boot[i].pending : f <= g
        /\ FileIds \ boot[i].pending \subseteq recorded
    BY <1>0, <1>1 DEF MigrationsInv, InOrder, MigTyped, BootStates
  <1>6. 1..(f - 1) \subseteq recorded
    BY <1>5, MigrationsAssumption DEF FileIds
  <1>7. /\ ran' \in [FileIds -> Nat] /\ \A g \in FileIds : g # f => ran'[g] = ran[g]
        /\ f \in Closing => ran'[f] = ran[f] + 1
        /\ f \notin Closing => ran'[f] = ran[f]
        /\ \A g \in FileIds : ran'[g] >= ran[g] /\ ran[g] \in Nat
    BY <1>1, <1>5 DEF MigrationsInv, MigTyped
  <1>8. MigTyped'
    BY <1>1, <1>4, <1>7 DEF MigrationsInv, MigTyped
  <1>9. InOrder'
    BY <1>0, <1>1, <1>3, <1>4, <1>5 DEF MigrationsInv, InOrder
  <1>10. RanFirst'
    <2>1. \A j \in Instances \ {i} : boot[j].at = "ran" /\ boot[j].file \in Closing =>
                boot[j].file \in FileIds /\ ran[boot[j].file] > 0
      BY MigrationsAssumption DEF MigrationsInv, RanFirst, FileIds
    <2>2. \A j \in Instances \ {i} : boot'[j].at = "ran" /\ boot'[j].file \in Closing => ran'[boot'[j].file] > 0
      BY <1>4, <1>7, <2>1
    <2>3. boot'[i].file \in Closing => ran'[boot'[i].file] > 0
      BY <1>3, <1>4, <1>5, <1>7
    <2> QED
      BY <2>2, <2>3 DEF RanFirst
  <1>11. MigratedInOrder'
    <2>1. \A g \in FileIds : g \in recorded \/ ran'[g] > 0 => 1..(g - 1) \subseteq recorded
      BY <1>6, <1>7 DEF MigrationsInv, MigratedInOrder, FileIds
    <2>2. \A g \in FileIds : g \notin Closing => ran'[g] = IF g \in recorded THEN 1 ELSE 0
      BY <1>7 DEF MigrationsInv, MigratedInOrder, FileIds
    <2>3. \A g \in FileIds : g \in recorded => ran'[g] > 0
      BY <1>7 DEF MigrationsInv, MigratedInOrder, FileIds
    <2>4. \A j \in Instances : boot'[j].at = "serving" => recorded = 1..LastFile
      BY <1>3, <1>4 DEF MigrationsInv, MigratedInOrder
    <2>5. \A g \in FileIds : g \in OnceOnly => ran'[g] <= 1
      <3>1. f \in OnceOnly => ~(ran[f] > 0) /\ f \in Closing
        BY <1>0, MigrationsAssumption DEF RunBody, Repeats
      <3>2. f \in OnceOnly => ran'[f] <= 1
        BY <1>5, <1>7, <3>1
      <3> QED
        BY <1>7, <3>2 DEF MigrationsInv, MigratedInOrder, FileIds
    <2> QED
      BY <1>1, <2>1, <2>2, <2>3, <2>4, <2>5 DEF MigratedInOrder, FileIds
  <1> QED
    BY <1>8, <1>9, <1>10, <1>11 DEF MigrationsInv

LEMMA RecordKeeps == ASSUME MigrationsInv, NEW i \in Instances, RecordFile(i) PROVE MigrationsInv'
  <1>0. PICK f : f = boot[i].file
    OBVIOUS
  <1> DEFINE left == boot[i].pending \ {f}
  <1>1. /\ boot[i].at = "ran" /\ f \notin recorded /\ recorded' = recorded \cup {f}
        /\ ran' = IF f \in Closing THEN ran ELSE [ran EXCEPT ![f] = @ + 1]
        /\ GoesOn(i, left) /\ UNCHANGED falls
    BY <1>0 DEF RecordFile, RecordsNew
  <1>2. /\ f \in FileIds /\ f \in boot[i].pending /\ \A g \in boot[i].pending : f <= g
        /\ FileIds \ boot[i].pending \subseteq recorded /\ boot[i].pending \subseteq FileIds
    BY <1>0, <1>1 DEF MigrationsInv, InOrder, MigTyped, BootStates
  <1>3. 1..(f - 1) \subseteq recorded
    BY <1>2, MigrationsAssumption DEF FileIds
  <1>4. left \subseteq FileIds /\ FileIds \ left \subseteq recorded'
    BY <1>1, <1>2
  <1>5. left = {} => recorded' = 1..LastFile
    BY <1>1, <1>2, <1>4 DEF MigrationsInv, MigTyped, FileIds
  <1> HIDE DEF left
  <1>6. /\ boot' \in [Instances -> BootStates]
        /\ \A j \in Instances \ {i} : boot'[j] = boot[j]
        /\ left = {} => boot'[i].at = "serving"
        /\ left # {} => /\ boot'[i].at = "next" /\ boot'[i].pending = left
                        /\ boot'[i].file \in left /\ \A g \in left : boot'[i].file <= g
    BY <1>1, <1>4, GoesOnTo DEF MigrationsInv
  <1>7. /\ ran' \in [FileIds -> Nat] /\ \A g \in FileIds : g # f => ran'[g] = ran[g]
        /\ f \notin Closing => ran'[f] = ran[f] + 1
        /\ f \in Closing => ran'[f] = ran[f]
        /\ \A g \in FileIds : ran'[g] >= ran[g] /\ ran[g] \in Nat
    BY <1>1, <1>2 DEF MigrationsInv, MigTyped
  <1>8. MigTyped'
    BY <1>1, <1>2, <1>6, <1>7 DEF MigrationsInv, MigTyped
  <1>9. InOrder'
    <2>1. \A j \in Instances \ {i} : boot'[j].at \in {"next", "ran"} =>
            /\ boot'[j].file \in boot'[j].pending
            /\ \A g \in boot'[j].pending : boot'[j].file <= g
            /\ FileIds \ boot'[j].pending \subseteq recorded'
      BY <1>1, <1>6 DEF MigrationsInv, InOrder
    <2> QED
      BY <1>4, <1>6, <2>1 DEF InOrder
  <1>10. RanFirst'
    <2>1. \A j \in Instances \ {i} : boot[j].at = "ran" /\ boot[j].file \in Closing =>
                boot[j].file \in FileIds /\ ran[boot[j].file] > 0
      BY MigrationsAssumption DEF MigrationsInv, RanFirst, FileIds
    <2>2. \A j \in Instances \ {i} : boot'[j].at = "ran" /\ boot'[j].file \in Closing => ran'[boot'[j].file] > 0
      BY <1>6, <1>7, <2>1
    <2> QED
      BY <1>6, <2>2 DEF RanFirst
  <1>11. MigratedInOrder'
    <2>1. \A g \in FileIds : g \in recorded' \/ ran'[g] > 0 => 1..(g - 1) \subseteq recorded'
      BY <1>1, <1>3, <1>7 DEF MigrationsInv, MigratedInOrder, FileIds
    <2>2. \A g \in FileIds : g \notin Closing => ran'[g] = IF g \in recorded' THEN 1 ELSE 0
      BY <1>1, <1>7 DEF MigrationsInv, MigratedInOrder, FileIds
    <2>3. \A g \in FileIds : g \in recorded' => ran'[g] > 0
      <3>1. f \in Closing => ran[f] > 0
        BY <1>0, <1>1 DEF MigrationsInv, RanFirst
      <3>2. ran'[f] > 0
        BY <1>2, <1>7, <3>1
      <3>3. \A g \in recorded : ran'[g] > 0
        BY <1>7 DEF MigrationsInv, MigratedInOrder, MigTyped, FileIds
      <3> QED
        BY <1>1, <3>2, <3>3
    <2>4. \A j \in Instances : boot'[j].at = "serving" => recorded' = 1..LastFile
      <3>1. \A j \in Instances \ {i} : boot'[j].at = "serving" => recorded' = 1..LastFile
        BY <1>1, <1>2, <1>6 DEF MigrationsInv, MigratedInOrder, FileIds
      <3> QED
        BY <1>5, <1>6, <3>1
    <2>5. \A g \in FileIds : g \in OnceOnly => ran'[g] <= 1
      <3>1. f \in OnceOnly => f \in Closing
        BY MigrationsAssumption
      <3> QED
        BY <1>7, <3>1 DEF MigrationsInv, MigratedInOrder, FileIds
    <2> QED
      BY <2>1, <2>2, <2>3, <2>4, <2>5 DEF MigratedInOrder, FileIds
  <1> QED
    BY <1>8, <1>9, <1>10, <1>11 DEF MigrationsInv

LEMMA BootsAnew ==
    ASSUME MigrationsInv, NEW i \in Instances, boot' = [boot EXCEPT ![i] = Booting],
           UNCHANGED <<recorded, ran>>
    PROVE  MigrationsInv'
  <1>1. /\ boot' \in [Instances -> BootStates] /\ boot'[i].at = "start"
        /\ \A j \in Instances \ {i} : boot'[j] = boot[j]
    BY BootingIs DEF MigrationsInv, MigTyped
  <1>2. MigTyped'
    BY <1>1 DEF MigrationsInv, MigTyped
  <1>3. InOrder' /\ RanFirst'
    BY <1>1 DEF MigrationsInv, InOrder, RanFirst
  <1>4. MigratedInOrder'
    BY <1>1 DEF MigrationsInv, MigratedInOrder
  <1> QED
    BY <1>2, <1>3, <1>4 DEF MigrationsInv

LEMMA MigrationsSteps == MigrationsInv /\ [MigrationsNext]_migrationsVars => MigrationsInv'
  <1> SUFFICES ASSUME MigrationsInv, [MigrationsNext]_migrationsVars PROVE MigrationsInv'
    OBVIOUS
  <1>1. CASE UNCHANGED migrationsVars
    BY <1>1 DEF migrationsVars, MigrationsInv, MigTyped, InOrder, RanFirst, MigratedInOrder
  <1>2. ASSUME NEW i \in Instances, MigrationFails(i) \/ InstanceFalls(i) PROVE MigrationsInv'
    BY <1>2, BootsAnew DEF MigrationFails, InstanceFalls
  <1> QED
    BY <1>1, <1>2, ReadAppliedKeeps, RunBodyKeeps, RecordKeeps DEF MigrationsNext

-----------------------------------------------------------------------------
(* Logs and captured errors                                                *)

\* No entry stands twice in a sequence.
Once(s) == \A i, j \in DOMAIN s : i # j => s[i] # s[j]

LEMMA AppendOnce ==
    ASSUME NEW S, NEW s \in Seq(S), NEW e \in S
    PROVE  /\ Append(s, e) \in Seq(S) /\ Len(Append(s, e)) = Len(s) + 1
           /\ ToSet(Append(s, e)) = ToSet(s) \cup {e}
           /\ Once(s) /\ e \notin ToSet(s) => Once(Append(s, e))
  <1> DEFINE t == Append(s, e)
  <1>1. /\ t \in Seq(S) /\ Len(t) = Len(s) + 1 /\ \A i \in 1..Len(s) : t[i] = s[i]
        /\ t[Len(s) + 1] = e /\ Len(s) \in Nat /\ DOMAIN s = 1..Len(s) /\ DOMAIN t = 1..(Len(s) + 1)
    BY AppendProperties, LenProperties
  <1> HIDE DEF t
  <1>2. ToSet(t) = ToSet(s) \cup {e}
    BY <1>1 DEF ToSet
  <1>3. Once(s) /\ e \notin ToSet(s) => Once(t)
    BY <1>1 DEF Once, ToSet
  <1> QED
    BY <1>1, <1>2, <1>3 DEF t

LEMMA TailOnce ==
    ASSUME NEW S, NEW s \in Seq(S), s # <<>>
    PROVE  /\ Tail(s) \in Seq(S) /\ Len(Tail(s)) = Len(s) - 1 /\ ToSet(Tail(s)) \subseteq ToSet(s)
           /\ Once(s) => Once(Tail(s))
  <1> DEFINE t == Tail(s)
  <1>1. /\ t \in Seq(S) /\ Len(t) = Len(s) - 1 /\ \A i \in 1..Len(t) : t[i] = s[i + 1]
        /\ Len(s) \in Nat /\ DOMAIN s = 1..Len(s) /\ DOMAIN t = 1..Len(t)
    BY HeadTailProperties, LenProperties
  <1> HIDE DEF t
  <1>2. ToSet(t) \subseteq ToSet(s)
    BY <1>1 DEF ToSet
  <1>3. Once(s) => Once(t)
    <2>1. SUFFICES ASSUME Once(s), NEW i \in 1..Len(t), NEW j \in 1..Len(t), i # j
          PROVE  t[i] # t[j]
      BY <1>1 DEF Once
    <2>2. i + 1 \in DOMAIN s /\ j + 1 \in DOMAIN s /\ i + 1 # j + 1
      <3>1. PICK m, n : m = Len(t) /\ n = Len(s)
        OBVIOUS
      <3>2. i \in 1..m /\ j \in 1..m /\ n \in Nat /\ m = n - 1 /\ DOMAIN s = 1..n
        BY <1>1, <2>1, <3>1
      <3>3. i + 1 \in 1..n /\ j + 1 \in 1..n /\ i + 1 # j + 1
        BY ONLY <3>2, i # j
      <3> QED
        BY <3>2, <3>3
    <2>3. s[i + 1] # s[j + 1]
      BY <2>1, <2>2 DEF Once
    <2> QED
      BY <1>1, <2>3
  <1> QED
    BY <1>1, <1>2, <1>3 DEF t

\* A sequence is cut in two.
LEMMA CutOnce ==
    ASSUME NEW S, NEW s \in Seq(S), NEW n \in 0..Len(s)
    PROVE  LET a == SubSeq(s, 1, n)
               b == SubSeq(s, n + 1, Len(s))
           IN  /\ a \in Seq(S) /\ Len(a) = n /\ b \in Seq(S) /\ Len(b) = Len(s) - n
               /\ ToSet(a) \cup ToSet(b) = ToSet(s)
               /\ Once(s) => Once(a) /\ Once(b) /\ ToSet(a) \cap ToSet(b) = {}
  <1> DEFINE a == SubSeq(s, 1, n)
             b == SubSeq(s, n + 1, Len(s))
  <1>1. Len(s) \in Nat /\ DOMAIN s = 1..Len(s) /\ \A i \in 1..Len(s) : s[i] \in S
    BY LenProperties
  <1>2. a \in Seq(S) /\ Len(a) = n /\ \A i \in 1..n : a[i] = s[i]
    <2>1. \A i \in 1..n : s[i] \in S
      BY <1>1
    <2>2. /\ SubSeq(s, 1, n) \in Seq(S)
          /\ Len(SubSeq(s, 1, n)) = IF 1 <= n THEN n - 1 + 1 ELSE 0
          /\ \A i \in 1..(n - 1 + 1) : SubSeq(s, 1, n)[i] = s[1 + i - 1]
      BY <2>1, <1>1, SubSeqProperties
    <2> QED
      BY <1>1, <2>2
  <1>3. b \in Seq(S) /\ Len(b) = Len(s) - n /\ \A i \in 1..(Len(s) - n) : b[i] = s[n + i]
    <2>1. \A i \in (n + 1)..Len(s) : s[i] \in S
      BY <1>1
    <2>2. /\ SubSeq(s, n + 1, Len(s)) \in Seq(S)
          /\ Len(SubSeq(s, n + 1, Len(s))) = IF n + 1 <= Len(s) THEN Len(s) - (n + 1) + 1 ELSE 0
          /\ \A i \in 1..(Len(s) - (n + 1) + 1) : SubSeq(s, n + 1, Len(s))[i] = s[n + 1 + i - 1]
      BY <2>1, <1>1, SubSeqProperties
    <2> QED
      BY <1>1, <2>2
  <1>4. DOMAIN a = 1..n /\ DOMAIN b = 1..(Len(s) - n)
    BY <1>2, <1>3, LenProperties
  <1> HIDE DEF a, b
  <1>5. ToSet(a) \cup ToSet(b) = ToSet(s)
    <2>1. \A i \in 1..Len(s) : i \in 1..n \/ i - n \in 1..(Len(s) - n)
      BY <1>1
    <2>2. ToSet(s) \subseteq ToSet(a) \cup ToSet(b)
      <3> SUFFICES ASSUME NEW i \in 1..Len(s) PROVE s[i] \in ToSet(a) \cup ToSet(b)
        BY <1>1 DEF ToSet
      <3>1. CASE i \in 1..n
        BY <1>2, <1>4, <3>1 DEF ToSet
      <3>2. CASE i - n \in 1..(Len(s) - n)
        <4>1. b[i - n] = s[i]
          BY <1>1, <1>3, <3>2
        <4> QED
          BY <1>4, <3>2, <4>1 DEF ToSet
      <3> QED
        BY <2>1, <3>1, <3>2
    <2>3. ToSet(a) \cup ToSet(b) \subseteq ToSet(s)
      <3>1. \A i \in 1..n : a[i] = s[i] /\ i \in DOMAIN s
        BY <1>1, <1>2
      <3>2. \A i \in 1..(Len(s) - n) : b[i] = s[n + i] /\ n + i \in DOMAIN s
        BY <1>1, <1>3
      <3>3. ToSet(a) \subseteq ToSet(s)
        BY <3>1, <1>4 DEF ToSet
      <3>4. ToSet(b) \subseteq ToSet(s)
        BY <3>2, <1>4 DEF ToSet
      <3> QED
        BY <3>3, <3>4
    <2> QED
      BY <2>2, <2>3
  <1>6. ASSUME Once(s) PROVE Once(a) /\ Once(b) /\ ToSet(a) \cap ToSet(b) = {}
    <2>a. \A i \in 1..n : a[i] = s[i] /\ i \in DOMAIN s
      BY <1>1, <1>2
    <2>b. \A i \in 1..(Len(s) - n) : b[i] = s[n + i] /\ n + i \in DOMAIN s
      BY <1>1, <1>3
    <2>1. Once(a)
      BY <2>a, <1>4, <1>6 DEF Once
    <2>2. Once(b)
      <3>1. \A i, j \in 1..(Len(s) - n) : i # j => n + i # n + j
        BY <1>1
      <3> QED
        BY <2>b, <3>1, <1>4, <1>6 DEF Once
    <2>3. \A i \in 1..n, j \in 1..(Len(s) - n) : a[i] # b[j]
      <3>1. \A i \in 1..n, j \in 1..(Len(s) - n) : i # n + j
        BY <1>1
      <3> QED
        BY <2>a, <2>b, <3>1, <1>6 DEF Once
    <2> QED
      BY <1>4, <2>1, <2>2, <2>3 DEF ToSet
  <1> QED
    BY <1>2, <1>3, <1>5, <1>6 DEF a, b

LEMMA ReverseOnce ==
    ASSUME NEW S, NEW s \in Seq(S)
    PROVE  /\ Reverse(s) \in Seq(S) /\ Len(Reverse(s)) = Len(s) /\ ToSet(Reverse(s)) = ToSet(s)
           /\ Once(s) => Once(Reverse(s))
  <1>1. Len(s) \in Nat /\ DOMAIN s = 1..Len(s) /\ \A i \in 1..Len(s) : s[i] \in S
    BY LenProperties
  <1> DEFINE t == [i \in 1..Len(s) |-> s[(Len(s) - i) + 1]]
  <1>2. Reverse(s) = t
    BY DEF Reverse
  <1>3. \A i \in 1..Len(s) : (Len(s) - i) + 1 \in 1..Len(s)
    BY <1>1
  <1>4. t \in [1..Len(s) -> S] /\ \A i \in 1..Len(s) : t[i] = s[(Len(s) - i) + 1]
    BY <1>1, <1>3
  <1> HIDE DEF t
  <1>5. t \in Seq(S) /\ Len(t) = Len(s) /\ DOMAIN t = 1..Len(s)
    BY <1>1, <1>4, SeqDef, LenProperties
  <1>6. ToSet(t) = ToSet(s)
    <2>1. ToSet(t) \subseteq ToSet(s)
      BY <1>1, <1>3, <1>4, <1>5 DEF ToSet
    <2>2. \A i \in 1..Len(s) : s[i] = t[(Len(s) - i) + 1]
      BY <1>1, <1>3, <1>4
    <2> QED
      BY <1>1, <1>3, <1>5, <2>1, <2>2 DEF ToSet
  <1>7. Once(s) => Once(t)
    BY <1>1, <1>3, <1>4, <1>5 DEF Once
  <1> QED
    BY <1>2, <1>5, <1>6, <1>7

LEMMA ConcatOnce ==
    ASSUME NEW S, NEW s \in Seq(S), NEW t \in Seq(S)
    PROVE  /\ s \o t \in Seq(S) /\ Len(s \o t) = Len(s) + Len(t) /\ ToSet(s \o t) = ToSet(s) \cup ToSet(t)
           /\ Once(s) /\ Once(t) /\ ToSet(s) \cap ToSet(t) = {} => Once(s \o t)
  <1> DEFINE u == s \o t
  <1>1. /\ Len(s) \in Nat /\ DOMAIN s = 1..Len(s) /\ Len(t) \in Nat /\ DOMAIN t = 1..Len(t)
    BY LenProperties
  <1>2. /\ u \in Seq(S) /\ Len(u) = Len(s) + Len(t)
        /\ \A i \in 1..(Len(s) + Len(t)) : u[i] = IF i <= Len(s) THEN s[i] ELSE t[i - Len(s)]
    BY ConcatProperties
  <1>3. DOMAIN u = 1..(Len(s) + Len(t))
    BY <1>2, LenProperties
  <1> HIDE DEF u
  <1>4. /\ \A i \in 1..Len(s) : i \in DOMAIN u /\ u[i] = s[i]
        /\ \A i \in 1..Len(t) : i + Len(s) \in DOMAIN u /\ u[i + Len(s)] = t[i]
    <2>1. \A i \in 1..Len(s) : i \in 1..(Len(s) + Len(t)) /\ i <= Len(s)
      BY <1>1
    <2>2. \A i \in 1..Len(t) : /\ i + Len(s) \in 1..(Len(s) + Len(t))
                               /\ ~(i + Len(s) <= Len(s)) /\ (i + Len(s)) - Len(s) = i
      BY <1>1
    <2>3. \A i \in 1..Len(s) : i \in DOMAIN u /\ u[i] = s[i]
      BY <2>1, <1>2, <1>3
    <2>4. \A i \in 1..Len(t) : i + Len(s) \in DOMAIN u /\ u[i + Len(s)] = t[i]
      BY <2>2, <1>2, <1>3
    <2> QED
      BY <2>3, <2>4
  <1>5. \A i \in DOMAIN u : i \in 1..Len(s) \/ i - Len(s) \in 1..Len(t)
    BY <1>1, <1>3
  <1>6. \A i \in DOMAIN u : u[i] \in ToSet(s) \cup ToSet(t)
    BY <1>1, <1>2, <1>3, <1>5 DEF ToSet
  <1>7. ToSet(u) = ToSet(s) \cup ToSet(t)
    BY <1>1, <1>4, <1>6 DEF ToSet
  <1>8. ASSUME Once(s), Once(t), ToSet(s) \cap ToSet(t) = {} PROVE Once(u)
    <2>1. \A i, j \in DOMAIN u : i \in 1..Len(s) /\ j \in 1..Len(s) /\ i # j => u[i] # u[j]
      BY <1>1, <1>4, <1>8 DEF Once
    <2>2. \A i \in DOMAIN u : i - Len(s) \in 1..Len(t) => u[i] = t[i - Len(s)] /\ i \in Int
      BY <1>1, <1>2, <1>3
    <2>3. \A i, j \in DOMAIN u : i - Len(s) \in 1..Len(t) /\ j - Len(s) \in 1..Len(t) /\ i # j => u[i] # u[j]
      BY <1>1, <2>2, <1>8 DEF Once
    <2>4. \A i, j \in DOMAIN u : i \in 1..Len(s) /\ j - Len(s) \in 1..Len(t) => u[i] # u[j]
      BY <1>1, <1>4, <2>2, <1>8 DEF ToSet
    <2> QED
      BY <1>5, <2>1, <2>3, <2>4 DEF Once
  <1> QED
    BY <1>2, <1>7, <1>8 DEF u

-----------------------------------------------------------------------------
\* The entries up to n, in the buffer b, the batches fl, the table wr or lost in dr.
Sound(n, b, fl, wr, dr) ==
    /\ n \in 0..MaxEntries /\ wr \subseteq LogIds /\ dr \subseteq LogIds
    /\ b \in Seq(LogIds) /\ Len(b) <= MaxBuffer /\ Once(b)
    /\ fl \in [Flushes -> Seq(LogIds)]
    /\ \A f \in Flushes : Len(fl[f]) <= BatchLen /\ Once(fl[f]) /\ ToSet(fl[f]) \cap ToSet(b) = {}
    /\ \A f, g \in Flushes : f # g => ToSet(fl[f]) \cap ToSet(fl[g]) = {}
    /\ \A e \in ToSet(b) : e <= n
    /\ \A f \in Flushes : \A e \in ToSet(fl[f]) : e <= n
    /\ \A e \in 1..n : e \in ToSet(b) \cup wr \cup dr \/ \E f \in Flushes : e \in ToSet(fl[f])

DiagnosticsInv ==
    /\ served \in [Clients -> {"idle", "open", "look", "insert", "update"}]
    /\ occurrences \in Nat /\ captured \in Nat /\ process \in {"running", "closing"}
    /\ captured <= occurrences
    /\ Sound(logged, buffer, flight, written, dropped)

LEMMA NoEntries == <<>> \in Seq(LogIds) /\ Len(<<>>) = 0 /\ ToSet(<<>>) = {} /\ Once(<<>>)
  BY EmptySeq DEF ToSet, Once

LEMMA EntriesOf ==
    ASSUME NEW s \in Seq(LogIds)
    PROVE  ToSet(s) \subseteq LogIds
  BY LenProperties DEF ToSet

\* An entry is appended.
LEMMA LogSound ==
    ASSUME Sound(logged, buffer, flight, written, dropped), logged < MaxEntries
    PROVE  Sound(logged + 1, Append(Kept, logged + 1), flight, written,
                 dropped \cup (ToSet(buffer) \ ToSet(Kept)))
  <1> DEFINE k == Kept
             e == logged + 1
             b == Append(k, e)
             dr == dropped \cup (ToSet(buffer) \ ToSet(k))
  <1>1. logged \in Nat /\ e \in LogIds /\ e \in 0..MaxEntries /\ Len(buffer) \in Nat
    BY LenProperties, DiagnosticsAssumption DEF Sound, LogIds
  <1>2. /\ k \in Seq(LogIds) /\ Len(k) + 1 <= MaxBuffer /\ ToSet(k) \subseteq ToSet(buffer) /\ Once(k)
    <2>1. CASE Len(buffer) >= MaxBuffer
      <3>1. buffer # <<>>
        BY <2>1, NoEntries, DiagnosticsAssumption
      <3>2. k = Tail(buffer)
        BY <2>1 DEF Kept
      <3> QED
        BY <1>1, <2>1, <3>1, <3>2, TailOnce, DiagnosticsAssumption DEF Sound
    <2>2. CASE ~(Len(buffer) >= MaxBuffer)
      BY <1>1, <2>2, DiagnosticsAssumption DEF Sound, Kept
    <2> QED
      BY <2>1, <2>2
  <1> HIDE DEF k
  <1>3. /\ b \in Seq(LogIds) /\ Len(b) = Len(k) + 1 /\ ToSet(b) = ToSet(k) \cup {e}
        /\ e \notin ToSet(k) => Once(b)
    BY <1>1, <1>2, AppendOnce
  <1>4. /\ \A x \in ToSet(buffer) : x \in LogIds /\ x <= logged
        /\ \A f \in Flushes : \A x \in ToSet(flight[f]) : x \in LogIds /\ x <= logged
    BY EntriesOf DEF Sound
  <1>5. e \notin ToSet(buffer) /\ \A f \in Flushes : e \notin ToSet(flight[f])
    BY <1>1, <1>4
  <1> HIDE DEF b
  <1>6. /\ e \in 0..MaxEntries /\ written \subseteq LogIds /\ dr \subseteq LogIds
        /\ b \in Seq(LogIds) /\ Len(b) <= MaxBuffer /\ Once(b)
        /\ flight \in [Flushes -> Seq(LogIds)]
    BY <1>1, <1>2, <1>3, <1>4, <1>5 DEF Sound
  <1>7. \A f \in Flushes : Len(flight[f]) <= BatchLen /\ Once(flight[f]) /\ ToSet(flight[f]) \cap ToSet(b) = {}
    BY <1>2, <1>3, <1>5 DEF Sound
  <1>8. \A f, g \in Flushes : f # g => ToSet(flight[f]) \cap ToSet(flight[g]) = {}
    BY DEF Sound
  <1>9. (\A x \in ToSet(b) : x <= e) /\ \A f \in Flushes : \A x \in ToSet(flight[f]) : x <= e
    <2>1. \A x \in LogIds : x <= logged => x <= e
      BY <1>1 DEF LogIds
    <2>2. e <= e
      BY <1>1
    <2> QED
      BY <1>2, <1>3, <1>4, <2>1, <2>2
  <1>10. \A x \in 1..e : x \in ToSet(b) \cup written \cup dr \/ \E f \in Flushes : x \in ToSet(flight[f])
    <2>1. \A x \in 1..e : x = e \/ x \in 1..logged
      BY <1>1
    <2>2. \A x \in 1..logged : x \in ToSet(buffer) \cup written \cup dropped
                                \/ \E f \in Flushes : x \in ToSet(flight[f])
      BY DEF Sound
    <2> QED
      BY <2>1, <2>2, <1>3
  <1>11. Sound(e, b, flight, written, dr)
    <2> HIDE DEF e, dr
    <2> QED
      BY <1>6, <1>7, <1>8, <1>9, <1>10 DEF Sound
  <1> QED
    BY <1>11 DEF b, k

\* A batch leaves the buffer.
LEMMA SpliceSound ==
    ASSUME NEW n, NEW b, NEW fl, NEW wr, NEW dr, NEW f \in Flushes,
           Sound(n, b, fl, wr, dr), fl[f] = <<>>,
           NEW k \in 0..Len(b), k <= BatchLen
    PROVE  Sound(n, SubSeq(b, k + 1, Len(b)), [fl EXCEPT ![f] = SubSeq(b, 1, k)], wr, dr)
  <1> DEFINE x == SubSeq(b, 1, k)
             y == SubSeq(b, k + 1, Len(b))
             fl2 == [fl EXCEPT ![f] = x]
  <1>1. Len(b) \in Nat /\ b \in Seq(LogIds) /\ Len(b) <= MaxBuffer
    BY LenProperties DEF Sound
  <1>2. /\ x \in Seq(LogIds) /\ Len(x) = k /\ y \in Seq(LogIds) /\ Len(y) = Len(b) - k
        /\ ToSet(x) \cup ToSet(y) = ToSet(b)
        /\ Once(x) /\ Once(y) /\ ToSet(x) \cap ToSet(y) = {}
    BY <1>1, CutOnce DEF Sound
  <1> HIDE DEF x, y
  <1>3. Len(x) <= BatchLen /\ Len(y) <= MaxBuffer
    BY <1>1, <1>2, DiagnosticsAssumption
  <1>4. /\ fl2 \in [Flushes -> Seq(LogIds)] /\ fl2[f] = x
        /\ \A g \in Flushes : g # f => fl2[g] = fl[g]
    BY <1>2 DEF Sound
  <1> HIDE DEF fl2
  <1>5. \A g \in Flushes : Len(fl2[g]) <= BatchLen /\ Once(fl2[g]) /\ ToSet(fl2[g]) \cap ToSet(y) = {}
    <2> SUFFICES ASSUME NEW g \in Flushes
                 PROVE  Len(fl2[g]) <= BatchLen /\ Once(fl2[g]) /\ ToSet(fl2[g]) \cap ToSet(y) = {}
      OBVIOUS
    <2>1. CASE g = f
      BY <1>2, <1>3, <1>4, <2>1
    <2>2. CASE g # f
      BY <1>2, <1>4, <2>2 DEF Sound
    <2> QED
      BY <2>1, <2>2
  <1>6. \A g, h \in Flushes : g # h => ToSet(fl2[g]) \cap ToSet(fl2[h]) = {}
    <2>1. \A g \in Flushes : g # f => ToSet(fl[g]) \cap ToSet(x) = {}
      BY <1>2 DEF Sound
    <2>2. \A g, h \in Flushes : g # h => ToSet(fl[g]) \cap ToSet(fl[h]) = {}
      BY DEF Sound
    <2> QED
      BY <1>4, <2>1, <2>2
  <1>7. (\A e \in ToSet(y) : e <= n) /\ \A g \in Flushes : \A e \in ToSet(fl2[g]) : e <= n
    <2>1. (\A e \in ToSet(b) : e <= n) /\ \A g \in Flushes : \A e \in ToSet(fl[g]) : e <= n
      BY DEF Sound
    <2> QED
      BY <1>2, <1>4, <2>1
  <1>8. \A e \in 1..n : e \in ToSet(y) \cup wr \cup dr \/ \E g \in Flushes : e \in ToSet(fl2[g])
    <2> SUFFICES ASSUME NEW e \in 1..n, e \notin wr \cup dr
                 PROVE  e \in ToSet(y) \/ \E g \in Flushes : e \in ToSet(fl2[g])
      OBVIOUS
    <2>1. e \in ToSet(b) \/ \E g \in Flushes : e \in ToSet(fl[g])
      BY DEF Sound
    <2>2. CASE e \in ToSet(b)
      BY <1>2, <1>4, <2>2
    <2>3. CASE \E g \in Flushes : e \in ToSet(fl[g])
      <3>1. PICK g \in Flushes : e \in ToSet(fl[g])
        BY <2>3
      <3>2. g # f
        BY <3>1, NoEntries
      <3> QED
        BY <1>4, <3>1, <3>2
    <2> QED
      BY <2>1, <2>2, <2>3
  <1>9. Sound(n, y, fl2, wr, dr)
    BY <1>2, <1>3, <1>4, <1>5, <1>6, <1>7, <1>8 DEF Sound
  <1> QED
    BY <1>9 DEF x, y, fl2

\* A batch is done with: some of it returns to the buffer, the rest is lost or written.
LEMMA LandSound ==
    ASSUME NEW n, NEW b, NEW fl, NEW wr, NEW dr, NEW f \in Flushes,
           Sound(n, b, fl, wr, dr),
           NEW b2 \in Seq(LogIds), NEW wr2 \in SUBSET LogIds, NEW dr2 \in SUBSET LogIds,
           Len(b2) <= MaxBuffer, Once(b2), wr \subseteq wr2, dr \subseteq dr2,
           ToSet(b) \subseteq ToSet(b2), ToSet(b2) \subseteq ToSet(b) \cup ToSet(fl[f]),
           ToSet(fl[f]) \subseteq ToSet(b2) \cup wr2 \cup dr2
    PROVE  Sound(n, b2, [fl EXCEPT ![f] = <<>>], wr2, dr2)
  <1> DEFINE fl2 == [fl EXCEPT ![f] = <<>>]
  <1>1. /\ fl2 \in [Flushes -> Seq(LogIds)] /\ fl2[f] = <<>>
        /\ \A g \in Flushes : g # f => fl2[g] = fl[g]
    BY NoEntries DEF Sound
  <1> HIDE DEF fl2
  <1>2. \A g \in Flushes : Len(fl2[g]) <= BatchLen /\ Once(fl2[g]) /\ ToSet(fl2[g]) \cap ToSet(b2) = {}
    <2> SUFFICES ASSUME NEW g \in Flushes
                 PROVE  Len(fl2[g]) <= BatchLen /\ Once(fl2[g]) /\ ToSet(fl2[g]) \cap ToSet(b2) = {}
      OBVIOUS
    <2>1. CASE g = f
      <3>1. 0 <= BatchLen
        BY DiagnosticsAssumption
      <3> QED
        BY <1>1, <2>1, <3>1, NoEntries
    <2>2. CASE g # f
      BY <1>1, <2>2 DEF Sound
    <2> QED
      BY <2>1, <2>2
  <1>3. \A g, h \in Flushes : g # h => ToSet(fl2[g]) \cap ToSet(fl2[h]) = {}
    <2> SUFFICES ASSUME NEW g \in Flushes, NEW h \in Flushes, g # h
                 PROVE  ToSet(fl2[g]) \cap ToSet(fl2[h]) = {}
      OBVIOUS
    <2>1. CASE g = f \/ h = f
      BY <1>1, <2>1, NoEntries
    <2>2. CASE g # f /\ h # f
      BY <1>1, <2>2 DEF Sound
    <2> QED
      BY <2>1, <2>2
  <1>4. (\A e \in ToSet(b2) : e <= n) /\ \A g \in Flushes : \A e \in ToSet(fl2[g]) : e <= n
    <2>1. \A g \in Flushes : g # f => \A e \in ToSet(fl2[g]) : e <= n
      BY <1>1 DEF Sound
    <2>2. \A e \in ToSet(fl2[f]) : e <= n
      BY <1>1, NoEntries
    <2>3. \A e \in ToSet(b2) : e <= n
      BY <1>1 DEF Sound
    <2> QED
      BY <2>1, <2>2, <2>3
  <1>5. \A e \in 1..n : e \in ToSet(b2) \cup wr2 \cup dr2 \/ \E g \in Flushes : e \in ToSet(fl2[g])
    <2> SUFFICES ASSUME NEW e \in 1..n, e \notin wr2 \cup dr2
                 PROVE  e \in ToSet(b2) \/ \E g \in Flushes : e \in ToSet(fl2[g])
      OBVIOUS
    <2>1. e \in ToSet(b) \/ \E g \in Flushes : e \in ToSet(fl[g])
      BY DEF Sound
    <2> QED
      BY <1>1, <2>1
  <1>6. Sound(n, b2, fl2, wr2, dr2)
    BY <1>1, <1>2, <1>3, <1>4, <1>5 DEF Sound
  <1> QED
    BY <1>6 DEF fl2

ServedSteps == {"idle", "open", "look", "insert", "update"}

LEMMA DiagnosticsStart == DiagnosticsInit => DiagnosticsInv
<1> SUFFICES ASSUME DiagnosticsInit PROVE DiagnosticsInv
  OBVIOUS
<1>1. 0 \in 0..MaxEntries /\ 0 <= MaxBuffer /\ 0 <= BatchLen /\ 1..0 = {}
  BY DiagnosticsAssumption
<1>2. Sound(0, <<>>, [f \in Flushes |-> <<>>], {}, {})
  BY <1>1, NoEntries DEF Sound
<1> QED
  BY <1>2 DEF DiagnosticsInit, DiagnosticsInv

\* An entry is logged and stays in the buffer.
LEMMA LogKeeps ==
    ASSUME DiagnosticsInv, Log, UNCHANGED <<flight, written>>
    PROVE  Sound(logged', buffer', flight', written', dropped')
<1>1. /\ logged < MaxEntries /\ logged' = logged + 1 /\ buffer' = Append(Kept, logged + 1)
      /\ dropped' = dropped \cup (ToSet(buffer) \ ToSet(Kept))
  BY DEF Log, LogNext
<1>2. Sound(logged + 1, Append(Kept, logged + 1), flight, written, dropped \cup (ToSet(buffer) \ ToSet(Kept)))
  BY <1>1, LogSound DEF DiagnosticsInv
<1> QED
  BY <1>1, <1>2

\* A flush takes a batch.
LEMMA SpliceKeeps ==
    ASSUME NEW n, NEW b, NEW dr, NEW f \in Flushes, Sound(n, b, flight, written, dr), Splice(f, b)
    PROVE  Sound(n, buffer', flight', written, dr)
<1> DEFINE k == IF Len(b) < BatchLen THEN Len(b) ELSE BatchLen
<1>1. Len(b) \in Nat
  BY LenProperties DEF Sound
<1>2. k \in 0..Len(b) /\ k <= BatchLen
  BY <1>1, DiagnosticsAssumption
<1>3. /\ flight[f] = <<>> /\ flight' = [flight EXCEPT ![f] = SubSeq(b, 1, k)]
      /\ buffer' = SubSeq(b, k + 1, Len(b))
  BY DEF Splice
<1> HIDE DEF k
<1>4. Sound(n, SubSeq(b, k + 1, Len(b)), [flight EXCEPT ![f] = SubSeq(b, 1, k)], written, dr)
  BY <1>2, <1>3, SpliceSound
<1> QED
  BY <1>3, <1>4

\* A failed flush puts back what there is room for.
LEMMA FailedKeeps ==
    ASSUME NEW f \in Flushes, DiagnosticsInv, FlushFailed(f)
    PROVE  Sound(logged', buffer', flight', written', dropped')
<1> DEFINE s == flight[f]
           room == MaxBuffer - Len(buffer)
           k == IF Len(s) < room THEN Len(s) ELSE room
           x == SubSeq(s, 1, k)
           y == SubSeq(s, k + 1, Len(s))
<1>1. /\ s \in Seq(LogIds) /\ buffer \in Seq(LogIds) /\ Len(s) \in Nat /\ Len(buffer) \in Nat
      /\ Len(buffer) <= MaxBuffer /\ Once(s) /\ Once(buffer) /\ ToSet(s) \cap ToSet(buffer) = {}
      /\ written \in SUBSET LogIds /\ dropped \in SUBSET LogIds
      /\ Sound(logged, buffer, flight, written, dropped)
  BY LenProperties DEF DiagnosticsInv, Sound
<1>2. k \in 0..Len(s) /\ k + Len(buffer) <= MaxBuffer
  BY <1>1, DiagnosticsAssumption
<1>3. /\ buffer' = Reverse(x) \o buffer /\ dropped' = dropped \cup ToSet(y)
      /\ written' = written \/ written' = written \cup ToSet(s)
      /\ flight' = [flight EXCEPT ![f] = <<>>] /\ logged' = logged
  BY DEF FlushFailed, PutBack
<1> HIDE DEF s, k
<1>4. /\ x \in Seq(LogIds) /\ Len(x) = k /\ y \in Seq(LogIds) /\ ToSet(x) \cup ToSet(y) = ToSet(s) /\ Once(x)
  BY <1>1, <1>2, CutOnce
<1> HIDE DEF x, y
<1>5. /\ Reverse(x) \in Seq(LogIds) /\ Len(Reverse(x)) = k /\ ToSet(Reverse(x)) = ToSet(x) /\ Once(Reverse(x))
  BY <1>4, ReverseOnce
<1>6. PICK r : r = Reverse(x)
  OBVIOUS
<1>7. /\ r \o buffer \in Seq(LogIds) /\ Len(r \o buffer) = k + Len(buffer)
      /\ ToSet(r \o buffer) = ToSet(x) \cup ToSet(buffer)
      /\ Once(r \o buffer)
  <2>1. ToSet(r) \cap ToSet(buffer) = {}
    BY <1>1, <1>4, <1>5, <1>6
  <2> QED
    BY <1>1, <1>5, <1>6, <2>1, ConcatOnce
<1>8. PICK b2 : b2 = r \o buffer
  OBVIOUS
<1>9. PICK wr2 : wr2 = written'
  OBVIOUS
<1>10. PICK dr2 : dr2 = dropped'
  OBVIOUS
<1>11. /\ b2 \in Seq(LogIds) /\ Len(b2) <= MaxBuffer /\ Once(b2) /\ ToSet(b2) = ToSet(x) \cup ToSet(buffer)
  BY <1>2, <1>7, <1>8
<1>12. /\ wr2 \in SUBSET LogIds /\ written \subseteq wr2 /\ dr2 \in SUBSET LogIds /\ dropped \subseteq dr2
       /\ ToSet(y) \subseteq dr2
  BY <1>1, <1>3, <1>4, <1>9, <1>10, EntriesOf
<1>13. Sound(logged, b2, [flight EXCEPT ![f] = <<>>], wr2, dr2)
  <2>1. /\ ToSet(buffer) \subseteq ToSet(b2) /\ ToSet(b2) \subseteq ToSet(buffer) \cup ToSet(flight[f])
        /\ ToSet(flight[f]) \subseteq ToSet(b2) \cup wr2 \cup dr2
    BY <1>4, <1>11, <1>12 DEF s
  <2> QED
    BY <1>1, <1>11, <1>12, <2>1, LandSound
<1> QED
  BY <1>3, <1>6, <1>8, <1>9, <1>10, <1>13

LEMMA WrittenKeeps ==
    ASSUME NEW f \in Flushes, DiagnosticsInv, FlushWritten(f)
    PROVE  Sound(logged', buffer', flight', written', dropped')
<1>1. /\ flight[f] \in Seq(LogIds) /\ buffer \in Seq(LogIds) /\ Len(buffer) <= MaxBuffer /\ Once(buffer)
      /\ written \in SUBSET LogIds /\ dropped \in SUBSET LogIds
      /\ Sound(logged, buffer, flight, written, dropped)
  BY DEF DiagnosticsInv, Sound
<1>2. PICK wr2 : wr2 = written \cup ToSet(flight[f])
  OBVIOUS
<1>3. wr2 \in SUBSET LogIds
  BY <1>1, <1>2, EntriesOf
<1>4. Sound(logged, buffer, [flight EXCEPT ![f] = <<>>], wr2, dropped)
  BY <1>1, <1>2, <1>3, LandSound
<1> QED
  BY <1>2, <1>4 DEF FlushWritten

LEMMA ExitKeeps ==
    ASSUME DiagnosticsInv, Exit
    PROVE  Sound(logged', buffer', flight', written', dropped')
<1> DEFINE batches == UNION {ToSet(flight[f]) : f \in Flushes}
<1>1. Sound(logged, buffer, flight, written, dropped)
  BY DEF DiagnosticsInv
<1>2. /\ ToSet(buffer) \subseteq LogIds /\ batches \subseteq LogIds
  <2>1. \A f \in Flushes : ToSet(flight[f]) \subseteq LogIds
    BY <1>1, EntriesOf DEF Sound
  <2> QED
    BY <1>1, <2>1, EntriesOf DEF Sound
<1>3. PICK arrived \in {{}, batches} :
          /\ written' = written \cup arrived
          /\ dropped' = dropped \cup ToSet(buffer) \cup (batches \ arrived)
  BY DEF Exit
<1>4. logged' = logged /\ buffer' = <<>> /\ flight' = [f \in Flushes |-> <<>>]
  BY DEF Exit
<1>5. PICK wr2 : wr2 = written'
  OBVIOUS
<1>6. PICK dr2 : dr2 = dropped'
  OBVIOUS
<1>7. \A f \in Flushes : \A e \in ToSet(flight[f]) : e \in batches
  OBVIOUS
<1> HIDE DEF batches
<1>8. wr2 \subseteq LogIds /\ dr2 \subseteq LogIds
  BY <1>1, <1>2, <1>3, <1>5, <1>6 DEF Sound
<1>9. \A e \in 1..logged : e \in wr2 \cup dr2
  BY <1>1, <1>3, <1>5, <1>6, <1>7 DEF Sound
<1>10. 0 <= MaxBuffer /\ 0 <= BatchLen /\ logged \in 0..MaxEntries
  BY <1>1, DiagnosticsAssumption DEF Sound
<1>11. Sound(logged, <<>>, [f \in Flushes |-> <<>>], wr2, dr2)
  BY <1>8, <1>9, <1>10, NoEntries DEF Sound
<1> QED
  BY <1>4, <1>5, <1>6, <1>11

\* What the entries have nothing to do with.
LEMMA CountsKeep ==
    ASSUME DiagnosticsInv, DiagnosticsNext
    PROVE  /\ served' \in [Clients -> {"idle", "open", "look", "insert", "update"}]
           /\ occurrences' \in Nat /\ captured' \in Nat /\ process' \in {"running", "closing"}
           /\ captured' <= occurrences'
<1>1. /\ served \in [Clients -> ServedSteps] /\ occurrences \in Nat /\ captured \in Nat
      /\ process \in {"running", "closing"} /\ captured <= occurrences
  BY DEF DiagnosticsInv, ServedSteps
<1>2. CASE \E f \in Flushes : Flush(f) \/ FlushWritten(f) \/ FlushFailed(f)
  BY <1>1, <1>2 DEF Flush, FlushWritten, FlushFailed, ServedSteps
<1>3. CASE GracefulShutdown \/ Exit
  BY <1>1, <1>3 DEF GracefulShutdown, Exit, ServedSteps
<1>4. CASE \E c \in Clients : RequestStart(c) \/ RequestEnd(c) \/ RequestAborted(c) \/ UnhandledRejection(c)
  BY <1>1, <1>4 DEF RequestStart, RequestEnd, RequestAborted, UnhandledRejection, ServedSteps
<1>5. CASE \E c \in Clients : CaptureLook(c) \/ CaptureWrite(c) \/ CaptureFailed(c)
  BY <1>1, <1>5 DEF CaptureLook, CaptureWrite, CaptureFailed, Counted, ServedSteps
<1> QED
  BY <1>2, <1>3, <1>4, <1>5 DEF DiagnosticsNext

LEMMA DiagnosticsSteps == DiagnosticsInv /\ [DiagnosticsNext]_diagnosticsVars => DiagnosticsInv'
<1>1. CASE UNCHANGED diagnosticsVars
  BY <1>1 DEF diagnosticsVars, DiagnosticsInv, Sound
<1>2. ASSUME DiagnosticsInv, DiagnosticsNext PROVE DiagnosticsInv'
  <2>1. Sound(logged', buffer', flight', written', dropped')
    <3>1. CASE \E c \in Clients : RequestStart(c) \/ RequestEnd(c) \/ UnhandledRejection(c)
                                     \/ CaptureWrite(c) \/ CaptureFailed(c)
      <4>1. Log /\ UNCHANGED <<flight, written>>
        BY <3>1 DEF RequestStart, RequestEnd, UnhandledRejection, CaptureWrite, CaptureFailed
      <4> QED
        BY <1>2, <4>1, LogKeeps
    <3>2. CASE \E c \in Clients : RequestAborted(c) \/ CaptureLook(c)
      BY <1>2, <3>2 DEF RequestAborted, CaptureLook, DiagnosticsInv
    <3>3. CASE \E f \in Flushes : Flush(f)
      <4>1. PICK f \in Flushes : Flush(f)
        BY <3>3
      <4> QED
        BY <1>2, <4>1, SpliceKeeps DEF Flush, DiagnosticsInv
    <3>4. CASE \E f \in Flushes : FlushWritten(f) \/ FlushFailed(f)
      BY <1>2, <3>4, WrittenKeeps, FailedKeeps
    <3>5. CASE GracefulShutdown
      <4>1. /\ logged < MaxEntries /\ logged' = logged + 1 /\ written' = written
            /\ dropped' = dropped \cup (ToSet(buffer) \ ToSet(Kept))
        BY <3>5 DEF GracefulShutdown, LogNext
      <4>2. PICK f \in Flushes : Splice(f, Append(Kept, logged + 1))
        BY <3>5 DEF GracefulShutdown
      <4>3. Sound(logged + 1, Append(Kept, logged + 1), flight, written,
                  dropped \cup (ToSet(buffer) \ ToSet(Kept)))
        BY <1>2, <4>1, LogSound DEF DiagnosticsInv
      <4> QED
        BY <4>1, <4>2, <4>3, SpliceKeeps
    <3>6. CASE Exit
      BY <1>2, <3>6, ExitKeeps
    <3> QED
      BY <1>2, <3>1, <3>2, <3>3, <3>4, <3>5, <3>6 DEF DiagnosticsNext
  <2> QED
    BY <1>2, <2>1, CountsKeep DEF DiagnosticsInv
<1> QED
  BY <1>1, <1>2

LEMMA DiagnosticsSafe == DiagnosticsInv => EntriesKept /\ ErrorsCounted /\ DiagnosticsTypeOK
<1> SUFFICES ASSUME DiagnosticsInv PROVE EntriesKept /\ ErrorsCounted /\ DiagnosticsTypeOK
  OBVIOUS
<1>1. Sound(logged, buffer, flight, written, dropped)
  BY DEF DiagnosticsInv
<1>2. EntriesKept
  BY <1>1 DEF EntriesKept, Sound, Once
<1>3. \A s \in Seq(LogIds), k \in Nat : Len(s) <= k => s \in BoundedSeq(LogIds, k)
  <2> SUFFICES ASSUME NEW s \in Seq(LogIds), NEW k \in Nat, Len(s) <= k PROVE s \in BoundedSeq(LogIds, k)
    OBVIOUS
  <2>1. Len(s) \in 0..k /\ s \in [1..Len(s) -> LogIds]
    BY LenProperties
  <2> QED
    BY <2>1 DEF BoundedSeq, SeqOf
<1>4. buffer \in BoundedSeq(LogIds, MaxBuffer) /\ flight \in [Flushes -> BoundedSeq(LogIds, BatchLen)]
  BY <1>1, <1>3, DiagnosticsAssumption DEF Sound
<1> QED
  BY <1>1, <1>2, <1>4 DEF DiagnosticsInv, Sound, DiagnosticsTypeOK, ErrorsCounted

-----------------------------------------------------------------------------
(* Blobs of old clients                                                    *)

BlobKinds == IF scope = "group" THEN GroupKinds ELSE PersonalKinds

BlobRows == [of : OldRows, kind : GroupKinds \cup PersonalKinds,
             id : [row : OldRows \cup {0}, by : Readers \cup {0}, nth : Nat],
             date : Nat, currency : {"none", "own", "USD"}]

\* Every row is there, an id names the row that it was made for, and no two rows share one.
RowsKept(rs) ==
    /\ \A r \in OldRows : \E x \in rs : x.of = r
    /\ \A x \in rs : x.id = NoId \/ x.id.row = x.of
    /\ \A x, y \in rs : x.id = y.id /\ x.id # NoId /\ x.kind = y.kind => x = y

OneEach(rs) == \A x, y \in rs : x.of = y.of => x = y
AllNamed(rs) == \A r \in OldRows : \E x \in rs : x.of = r /\ x.id # NoId
Complete(rs) == \A x \in rs : x.kind = "groupExpense" => x.id # NoId /\ x.date > 0
OfKinds(rs, k) == \A x \in rs : x.kind = k[x.of]

\* What a client made of an old blob.
Migrated(rs) ==
    RowsKept(rs) /\ IF scope = "group" THEN OneEach(rs) /\ Complete(rs) ELSE AllNamed(rs)

BlobTyped ==
    /\ scope \in {"personal", "group"} /\ readOn \in Nat /\ readOn > 0
    /\ oldBlob \in [version : {0, 1}, clock : Nat, rows : SUBSET BlobRows]
    /\ copy \in [Readers -> [at : {"none", "shown"}, version : {0, 1}, rows : SUBSET BlobRows,
                             clock : Nat, turns : Nat]]

KindsStay == \E k \in [OldRows -> BlobKinds] :
                /\ OfKinds(oldBlob.rows, k)
                /\ \A d \in Readers : copy[d].at = "shown" => OfKinds(copy[d].rows, k)

BlobKept ==
    /\ RowsKept(oldBlob.rows)
    /\ oldBlob.version = 0 => OneEach(oldBlob.rows)
    /\ oldBlob.version = 1 => Migrated(oldBlob.rows)
    /\ \A d \in Readers : copy[d].at = "shown" => copy[d].version = 1 /\ Migrated(copy[d].rows)

BlobsInv == BlobTyped /\ KindsStay /\ BlobKept

LEMMA BlobsStart == BlobMigrationsInit => BlobsInv
<1> SUFFICES ASSUME BlobMigrationsInit PROVE BlobsInv
  OBVIOUS
<1>1. PICK kinds \in [OldRows -> BlobKinds], named \in SUBSET OldRows, whole \in SUBSET OldRows :
          oldBlob = [version |-> 0, clock |-> 2,
                     rows |-> {OldRow(r, kinds[r], r \in named, r \in whole) : r \in OldRows}]
  BY DEF BlobMigrationsInit, BlobKinds
<1>2. scope \in {"personal", "group"} /\ readOn = 1 /\ copy \in [Readers -> {NoCopy(1), NoCopy(4)}]
  BY DEF BlobMigrationsInit
<1> DEFINE made(r) == OldRow(r, kinds[r], r \in named, r \in whole)
<1>3. \A r \in OldRows : /\ made(r) \in BlobRows /\ made(r).of = r /\ made(r).kind = kinds[r]
                         /\ made(r).id = NoId \/ made(r).id.row = r
  <2> SUFFICES ASSUME NEW r \in OldRows
               PROVE  /\ made(r) \in BlobRows /\ made(r).of = r /\ made(r).kind = kinds[r]
                      /\ made(r).id = NoId \/ made(r).id.row = r
    OBVIOUS
  <2>1. kinds[r] \in GroupKinds \cup PersonalKinds
    BY DEF BlobKinds
  <2>2. LastDate + 1 \in Nat /\ 0 \in Nat
    BY BlobMigrationsAssumption
  <2>3. /\ made(r).of = r /\ made(r).kind = kinds[r]
        /\ made(r).id = NoId \/ made(r).id = OwnId(r)
        /\ made(r).date \in Nat /\ made(r).currency \in {"none", "own", "USD"}
    BY <2>2 DEF OldRow
  <2>4. NoId \in [row : OldRows \cup {0}, by : Readers \cup {0}, nth : Nat]
    BY DEF NoId
  <2>5. OwnId(r) \in [row : OldRows \cup {0}, by : Readers \cup {0}, nth : Nat] /\ OwnId(r).row = r
    BY DEF OwnId
  <2>6. made(r) \in BlobRows
    BY <2>1, <2>2, <2>4, <2>5 DEF OldRow, BlobRows
  <2> QED
    BY <2>3, <2>5, <2>6
<1> HIDE DEF made
<1>4. oldBlob.version = 0 /\ oldBlob.clock = 2 /\ oldBlob.rows = {made(r) : r \in OldRows}
  BY <1>1 DEF made
<1>5. \A d \in Readers : /\ copy[d].at = "none"
                         /\ copy[d] \in [at : {"none", "shown"}, version : {0, 1}, rows : SUBSET BlobRows,
                                         clock : Nat, turns : Nat]
  <2>1. \A n \in Nat : /\ NoCopy(n).at = "none"
                       /\ NoCopy(n) \in [at : {"none", "shown"}, version : {0, 1}, rows : SUBSET BlobRows,
                                         clock : Nat, turns : Nat]
    BY DEF NoCopy
  <2> QED
    BY <1>2, <2>1
<1>6. BlobTyped
  <2>1. oldBlob \in [version : {0, 1}, clock : Nat, rows : SUBSET BlobRows]
    BY <1>1, <1>3 DEF made
  <2> QED
    BY <1>2, <1>5, <2>1 DEF BlobTyped
<1>7. KindsStay
  BY <1>3, <1>4, <1>5 DEF KindsStay, OfKinds
<1>8. BlobKept
  <2>1. RowsKept(oldBlob.rows) /\ OneEach(oldBlob.rows)
    BY <1>3, <1>4 DEF RowsKept, OneEach
  <2> QED
    BY <1>4, <1>5, <2>1 DEF BlobKept
<1> QED
  BY <1>6, <1>7, <1>8 DEF BlobsInv

\* How a client migrates one row.
RowMigration(d, made) == IF scope = "group" THEN GroupMigration(d, made) ELSE PersonalMigration(d, made)

LEMMA RowMigrates ==
    ASSUME BlobTyped, NEW d \in Readers, NEW x \in BlobRows, x.kind \in BlobKinds,
           x.id = NoId \/ x.id.row = x.of
    PROVE  LET y == RowMigration(d, x)
           IN  /\ y \in BlobRows /\ y.of = x.of /\ y.kind = x.kind
               /\ y.id = NoId \/ y.id.row = y.of
               /\ x.kind # "settlement" => y.id # NoId
               /\ x.kind = "groupExpense" => y.date > 0
<1> DEFINE a == Identified(d, x)
           b == WithDate(a)
           c == InDollars(b)
           e == InDollars(x)
<1>1. /\ a \in BlobRows /\ a.of = x.of /\ a.kind = x.kind /\ a.id # NoId /\ a.id.row = x.of
  <2>1. CASE x.id = NoId
    <3>1. copy[d].turns \in Nat /\ x.of \in OldRows
      BY DEF BlobTyped, BlobRows
    <3>2. PICK i : i = generateId(d, x)
      OBVIOUS
    <3>3. i \in [row : OldRows \cup {0}, by : Readers \cup {0}, nth : Nat] /\ i.row = x.of
      BY <3>1, <3>2 DEF generateId
    <3>4. i # NoId
      BY <3>1, <3>3, BlobMigrationsAssumption DEF NoId
    <3>5. a = [x EXCEPT !.id = i]
      BY <2>1, <3>2 DEF Identified
    <3> QED
      BY <3>3, <3>4, <3>5 DEF BlobRows
  <2>2. CASE x.id # NoId
    BY <2>2 DEF Identified
  <2> QED
    BY <2>1, <2>2
<1> HIDE DEF a
<1>2. /\ b \in BlobRows /\ b.of = a.of /\ b.kind = a.kind /\ b.id = a.id /\ b.date > 0
  <2>1. a.date \in Nat /\ readOn \in Nat /\ readOn > 0
    BY <1>1 DEF BlobRows, BlobTyped
  <2>2. CASE a.date = 0
    <3>1. b = [a EXCEPT !.date = readOn]
      BY <2>2 DEF WithDate
    <3> QED
      BY <1>1, <2>1, <3>1 DEF BlobRows
  <2>3. CASE a.date # 0
    BY <1>1, <2>1, <2>3 DEF WithDate
  <2> QED
    BY <2>2, <2>3
<1>3. \A z \in BlobRows : LET w == InDollars(z)
                          IN  w \in BlobRows /\ w.of = z.of /\ w.kind = z.kind /\ w.id = z.id /\ w.date = z.date
  <2> SUFFICES ASSUME NEW z \in BlobRows
               PROVE  LET w == InDollars(z)
                      IN  w \in BlobRows /\ w.of = z.of /\ w.kind = z.kind /\ w.id = z.id /\ w.date = z.date
    OBVIOUS
  <2>1. CASE z.currency = "none"
    <3>1. InDollars(z) = [z EXCEPT !.currency = "USD"]
      BY <2>1 DEF InDollars
    <3> QED
      BY <3>1 DEF BlobRows
  <2>2. CASE z.currency # "none"
    BY <2>2 DEF InDollars
  <2> QED
    BY <2>1, <2>2
<1> HIDE DEF b
<1>4. c \in BlobRows /\ c.of = b.of /\ c.kind = b.kind /\ c.id = b.id /\ c.date = b.date
  BY <1>2, <1>3
<1>5. e \in BlobRows /\ e.of = x.of /\ e.kind = x.kind /\ e.id = x.id /\ e.date = x.date
  BY <1>3
<1> HIDE DEF c, e
<1>6. CASE scope = "group"
  <2>1. RowMigration(d, x) = CASE x.kind = "groupExpense" -> b
                               [] x.kind = "settlement" -> e
                               [] x.kind = "category" -> a
    BY <1>6 DEF RowMigration, GroupMigration, normalizeGroupExpense, normalizeSettlement, normalizeCategory,
                a, b, e
  <2>2. x.kind \in {"groupExpense", "settlement", "category"}
    BY <1>6 DEF BlobKinds, GroupKinds
  <2> QED
    BY <1>1, <1>2, <1>5, <2>1, <2>2
<1>7. CASE scope # "group"
  <2>1. RowMigration(d, x) = CASE x.kind = "expense" -> c
                               [] x.kind = "category" -> a
                               [] x.kind = "budget" -> a
    BY <1>7 DEF RowMigration, PersonalMigration, normalizeExpense, normalizeBudget, normalizeCategory, a, b, c
  <2>2. x.kind \in {"expense", "category", "budget"}
    BY <1>7 DEF BlobKinds, PersonalKinds
  <2> QED
    BY <1>1, <1>2, <1>4, <2>1, <2>2
<1> QED
  BY <1>6, <1>7

\* How a client migrates the blob it reads.
LEMMA BlobMigrates ==
    ASSUME BlobsInv, NEW d \in Readers, NEW k \in [OldRows -> BlobKinds], OfKinds(oldBlob.rows, k)
    PROVE  migrateBlob(d) \subseteq BlobRows /\ Migrated(migrateBlob(d)) /\ OfKinds(migrateBlob(d), k)
<1>1. BlobTyped /\ oldBlob.rows \subseteq BlobRows /\ oldBlob.version \in {0, 1} /\ RowsKept(oldBlob.rows)
  BY DEF BlobsInv, BlobTyped, BlobKept
<1>2. CASE oldBlob.version = 1
  BY <1>1, <1>2 DEF migrateBlob, CURRENT_BLOB_VERSION, BlobsInv, BlobKept
<1>3. CASE oldBlob.version = 0
  <2>1. migrateBlob(d) = {RowMigration(d, x) : x \in oldBlob.rows}
    BY <1>3 DEF migrateBlob, CURRENT_BLOB_VERSION, RowMigration
  <2>2. OneEach(oldBlob.rows)
    BY <1>3 DEF BlobsInv, BlobKept
  <2> DEFINE m(x) == RowMigration(d, x)
  <2>3. \A x \in oldBlob.rows : /\ m(x) \in BlobRows /\ m(x).of = x.of /\ m(x).kind = x.kind
                                /\ m(x).id = NoId \/ m(x).id.row = m(x).of
                                /\ x.kind # "settlement" => m(x).id # NoId
                                /\ x.kind = "groupExpense" => m(x).date > 0
    <3> SUFFICES ASSUME NEW x \in oldBlob.rows
                 PROVE  /\ m(x) \in BlobRows /\ m(x).of = x.of /\ m(x).kind = x.kind
                        /\ m(x).id = NoId \/ m(x).id.row = m(x).of
                        /\ x.kind # "settlement" => m(x).id # NoId
                        /\ x.kind = "groupExpense" => m(x).date > 0
      OBVIOUS
    <3>1. x \in BlobRows /\ x.of \in OldRows /\ x.kind \in BlobKinds /\ (x.id = NoId \/ x.id.row = x.of)
      BY <1>1 DEF BlobRows, OfKinds, RowsKept
    <3> QED
      BY <1>1, <3>1, RowMigrates
  <2> HIDE DEF m
  <2>4. migrateBlob(d) = {m(x) : x \in oldBlob.rows}
    BY <2>1 DEF m
  <2>5. OneEach(migrateBlob(d)) /\ OfKinds(migrateBlob(d), k)
    BY <2>2, <2>3, <2>4 DEF OneEach, OfKinds
  <2>6. RowsKept(migrateBlob(d))
    <3>1. \A r \in OldRows : \E y \in migrateBlob(d) : y.of = r
      BY <1>1, <2>3, <2>4 DEF RowsKept
    <3>2. \A y \in migrateBlob(d) : y.id = NoId \/ y.id.row = y.of
      BY <2>3, <2>4
    <3> QED
      BY <2>5, <3>1, <3>2 DEF RowsKept, OneEach
  <2>7. scope = "group" => Complete(migrateBlob(d))
    BY <2>3, <2>4 DEF Complete
  <2>8. scope # "group" => AllNamed(migrateBlob(d))
    <3> SUFFICES ASSUME scope # "group", NEW r \in OldRows
                 PROVE  \E y \in migrateBlob(d) : y.of = r /\ y.id # NoId
      BY DEF AllNamed
    <3>1. PICK x \in oldBlob.rows : x.of = r
      BY <1>1 DEF RowsKept
    <3>2. x.kind # "settlement"
      BY <3>1 DEF OfKinds, BlobKinds, PersonalKinds
    <3> QED
      BY <2>3, <2>4, <3>1, <3>2
  <2> QED
    BY <2>3, <2>4, <2>5, <2>6, <2>7, <2>8 DEF Migrated
<1> QED
  BY <1>1, <1>2, <1>3

\* What the merge of a private blob keeps.
LEMMA MergeKeeps ==
    ASSUME scope = "personal", NEW fresh \in SUBSET BlobRows, NEW mine \in SUBSET BlobRows,
           RowsKept(fresh), Migrated(mine), NEW k, OfKinds(fresh, k), OfKinds(mine, k),
           NEW rs \in Merges(fresh, mine)
    PROVE  rs \subseteq BlobRows /\ Migrated(rs) /\ OfKinds(rs, k)
<1> DEFINE named == {x \in fresh : x.id # NoId}
           added == {x \in mine : ~\E y \in named : y.kind = x.kind /\ y.id = x.id}
<1>1. PICK s \in SUBSET (fresh \ named) : rs = named \cup s \cup added
  BY DEF Merges
<1> HIDE DEF named, added
<1>2. /\ \A x \in named : x \in fresh /\ x.id # NoId
      /\ \A x \in added : x \in mine /\ \A y \in named : ~(y.kind = x.kind /\ y.id = x.id)
      /\ \A x \in mine : x \in added \/ \E y \in named : y.kind = x.kind /\ y.id = x.id
      /\ \A x \in s : x \in fresh /\ x.id = NoId
  BY DEF named, added
<1>3. rs \subseteq BlobRows /\ OfKinds(rs, k)
  BY <1>1, <1>2 DEF OfKinds
<1>4. RowsKept(mine) /\ AllNamed(mine)
  BY DEF Migrated
<1>5. \A x \in rs : x.id = NoId \/ x.id.row = x.of
  BY <1>1, <1>2, <1>4 DEF RowsKept
<1>6. AllNamed(rs)
  <2> SUFFICES ASSUME NEW r \in OldRows PROVE \E x \in rs : x.of = r /\ x.id # NoId
    BY DEF AllNamed
  <2>1. PICK x \in mine : x.of = r /\ x.id # NoId
    BY <1>4 DEF AllNamed
  <2>2. CASE x \in added
    BY <1>1, <2>1, <2>2
  <2>3. CASE \E y \in named : y.kind = x.kind /\ y.id = x.id
    <3>1. PICK y \in named : y.id = x.id
      BY <2>3
    <3>2. y.of = r /\ y.id # NoId
      <4>1. y.id.row = y.of /\ x.id.row = x.of
        BY <1>2, <1>4, <2>1, <3>1 DEF RowsKept
      <4> QED
        BY <2>1, <3>1, <4>1
    <3> QED
      BY <1>1, <3>2
  <2> QED
    BY <1>2, <2>2, <2>3
<1>7. \A x, y \in rs : x.id = y.id /\ x.id # NoId /\ x.kind = y.kind => x = y
  BY <1>1, <1>2, <1>4 DEF RowsKept
<1> QED
  BY <1>3, <1>5, <1>6, <1>7 DEF RowsKept, AllNamed, Migrated

LEMMA BlobsSteps == BlobsInv /\ [BlobMigrationsNext]_blobVars => BlobsInv'
<1>1. CASE UNCHANGED blobVars
  BY <1>1 DEF blobVars, BlobsInv, BlobTyped, KindsStay, BlobKinds, BlobKept, Migrated
<1>2. CASE DayGoesBy
  <2>1. readOn' = readOn + 1 /\ UNCHANGED <<scope, oldBlob, copy>>
    BY <1>2 DEF DayGoesBy
  <2> QED
    BY <2>1 DEF BlobsInv, BlobTyped, KindsStay, BlobKinds, BlobKept, Migrated
<1>3. ASSUME BlobsInv, NEW d \in Readers, ReadOldBlob(d) \/ MergeStored(d) PROVE BlobsInv'
  <2>1. PICK k \in [OldRows -> BlobKinds] :
            /\ OfKinds(oldBlob.rows, k)
            /\ \A e \in Readers : copy[e].at = "shown" => OfKinds(copy[e].rows, k)
    BY <1>3 DEF BlobsInv, KindsStay
  <2>2. PICK now \in [at : {"shown"}, version : {1}, rows : SUBSET BlobRows, clock : Nat, turns : Nat] :
            /\ copy' = [copy EXCEPT ![d] = now]
            /\ Migrated(now.rows) /\ OfKinds(now.rows, k)
    <3>1. copy[d] \in [at : {"none", "shown"}, version : {0, 1}, rows : SUBSET BlobRows, clock : Nat, turns : Nat]
          /\ oldBlob.clock \in Nat /\ oldBlob.rows \in SUBSET BlobRows
      BY <1>3 DEF BlobsInv, BlobTyped
    <3>2. CASE ReadOldBlob(d)
      <4>1. PICK r : r = migrateBlob(d)
        OBVIOUS
      <4>2. r \subseteq BlobRows /\ Migrated(r) /\ OfKinds(r, k)
        BY <1>3, <2>1, <4>1, BlobMigrates
      <4>3. PICK c \in Nat : copy' = [copy EXCEPT ![d] = [at |-> "shown", version |-> 1, rows |-> r,
                                                          turns |-> copy[d].turns + 1, clock |-> c]]
        BY <3>1, <3>2, <4>1 DEF ReadOldBlob, CURRENT_BLOB_VERSION
      <4> DEFINE n == [at |-> "shown", version |-> 1, rows |-> r, turns |-> copy[d].turns + 1, clock |-> c]
      <4>4. n \in [at : {"shown"}, version : {1}, rows : SUBSET BlobRows, clock : Nat, turns : Nat] /\ n.rows = r
        BY <3>1, <4>2
      <4> QED
        BY <4>2, <4>3, <4>4
    <3>3. CASE MergeStored(d)
      <4>1. scope = "personal" /\ copy[d].at = "shown"
        BY <3>3 DEF MergeStored
      <4>2. PICK r \in Merges(oldBlob.rows, copy[d].rows) :
                copy' = [copy EXCEPT ![d].rows = r, ![d].clock = oldBlob.clock]
        BY <3>3 DEF MergeStored
      <4>3. copy[d].version = 1 /\ Migrated(copy[d].rows) /\ RowsKept(oldBlob.rows) /\ OfKinds(copy[d].rows, k)
        BY <1>3, <2>1, <4>1 DEF BlobsInv, BlobKept
      <4>4. copy[d].rows \in SUBSET BlobRows
        BY <3>1
      <4>5. r \subseteq BlobRows /\ Migrated(r) /\ OfKinds(r, k)
        BY <2>1, <3>1, <4>1, <4>2, <4>3, <4>4, MergeKeeps
      <4> DEFINE n == [[copy[d] EXCEPT !.rows = r] EXCEPT !.clock = oldBlob.clock]
      <4>6. n \in [at : {"shown"}, version : {1}, rows : SUBSET BlobRows, clock : Nat, turns : Nat] /\ n.rows = r
        BY <3>1, <4>1, <4>3, <4>5
      <4>7. copy' = [copy EXCEPT ![d] = n]
        BY <4>2, <3>1, <1>3 DEF BlobsInv, BlobTyped
      <4> QED
        BY <4>5, <4>6, <4>7
    <3> QED
      BY <1>3, <3>2, <3>3
  <2>3. UNCHANGED <<scope, oldBlob, readOn>>
    BY <1>3 DEF ReadOldBlob, MergeStored
  <2>4. /\ copy'[d] = now /\ \A e \in Readers : e # d => copy'[e] = copy[e]
        /\ copy' \in [Readers -> [at : {"none", "shown"}, version : {0, 1}, rows : SUBSET BlobRows,
                                  clock : Nat, turns : Nat]]
    BY <1>3, <2>2 DEF BlobsInv, BlobTyped
  <2>5. BlobTyped'
    BY <1>3, <2>3, <2>4 DEF BlobsInv, BlobTyped
  <2>6. KindsStay'
    BY <2>1, <2>2, <2>3, <2>4 DEF KindsStay, BlobKinds
  <2>7. BlobKept'
    <3>1. \A r : Migrated(r)' <=> Migrated(r)
      BY <2>3 DEF Migrated
    <3>2. \A e \in Readers : copy'[e].at = "shown" => copy'[e].version = 1 /\ Migrated(copy'[e].rows)
      BY <1>3, <2>2, <2>4 DEF BlobsInv, BlobKept
    <3> QED
      BY <1>3, <2>3, <3>2 DEF BlobsInv, BlobKept, Migrated
  <2> QED
    BY <2>5, <2>6, <2>7 DEF BlobsInv
<1>4. ASSUME BlobsInv, NEW d \in Readers, StoreBlob(d) PROVE BlobsInv'
  <2>0. PICK c : c = NextClock(d)
    OBVIOUS
  <2>1. /\ copy[d].at = "shown"
        /\ oldBlob' = [version |-> copy[d].version, rows |-> copy[d].rows, clock |-> c]
        /\ copy' = [copy EXCEPT ![d].clock = c, ![d].turns = @ + 1]
        /\ UNCHANGED <<scope, readOn>>
    BY <1>4, <2>0 DEF StoreBlob
  <2>2. /\ copy \in [Readers -> [at : {"none", "shown"}, version : {0, 1}, rows : SUBSET BlobRows,
                                 clock : Nat, turns : Nat]]
        /\ copy[d].version = 1 /\ Migrated(copy[d].rows)
    BY <1>4, <2>1 DEF BlobsInv, BlobTyped, BlobKept
  <2>8. c \in Nat
    BY <2>0, <2>2 DEF NextClock
  <2>3. /\ copy' \in [Readers -> [at : {"none", "shown"}, version : {0, 1}, rows : SUBSET BlobRows,
                                  clock : Nat, turns : Nat]]
        /\ \A e \in Readers : /\ copy'[e].at = copy[e].at /\ copy'[e].rows = copy[e].rows
                              /\ copy'[e].version = copy[e].version
    <3> DEFINE n1 == [copy[d] EXCEPT !.clock = c]
               n2 == [n1 EXCEPT !.turns = copy[d].turns + 1]
    <3>1. copy' = [copy EXCEPT ![d] = n2]
      BY <2>1, <2>2
    <3>2. /\ n1 \in [at : {"none", "shown"}, version : {0, 1}, rows : SUBSET BlobRows, clock : Nat, turns : Nat]
          /\ n1.at = copy[d].at /\ n1.rows = copy[d].rows /\ n1.version = copy[d].version
      BY <2>2, <2>8
    <3> HIDE DEF n1
    <3>3. /\ n2 \in [at : {"none", "shown"}, version : {0, 1}, rows : SUBSET BlobRows, clock : Nat, turns : Nat]
          /\ n2.at = copy[d].at /\ n2.rows = copy[d].rows /\ n2.version = copy[d].version
      BY <2>2, <3>2
    <3> HIDE DEF n2
    <3> QED
      BY <2>2, <3>1, <3>3
  <2>4. /\ oldBlob' \in [version : {0, 1}, clock : Nat, rows : SUBSET BlobRows]
        /\ oldBlob'.version = 1 /\ oldBlob'.rows = copy[d].rows
    BY <2>1, <2>2, <2>8
  <2>5. BlobTyped'
    BY <1>4, <2>1, <2>3, <2>4 DEF BlobsInv, BlobTyped
  <2>6. KindsStay'
    BY <1>4, <2>1, <2>3, <2>4 DEF BlobsInv, KindsStay, BlobKinds
  <2>7. BlobKept'
    BY <1>4, <2>1, <2>2, <2>3, <2>4 DEF BlobsInv, BlobKept, Migrated
  <2> QED
    BY <2>5, <2>6, <2>7 DEF BlobsInv
<1> QED
  BY <1>1, <1>2, <1>3, <1>4 DEF BlobMigrationsNext

LEMMA BlobsSafe == BlobsInv => RowsMigrate
<1> SUFFICES ASSUME BlobsInv PROVE RowsMigrate
  OBVIOUS
<1>1. PICK k \in [OldRows -> BlobKinds] : OfKinds(oldBlob.rows, k)
  BY DEF BlobsInv, KindsStay
<1>2. RowsKept(oldBlob.rows) /\ (scope = "group" => OneEach(oldBlob.rows))
  BY DEF BlobsInv, BlobTyped, BlobKept, Migrated
<1>3. ASSUME NEW r \in OldRows, scope = "group" \/ \A x \in CopiesOf(r) : x.id = OwnId(r)
      PROVE  Cardinality(CopiesOf(r)) = 1
  <2>1. PICK x \in oldBlob.rows : x.of = r
    BY <1>2 DEF RowsKept
  <2>2. \A y \in oldBlob.rows : y.of = r => y = x
    <3>1. CASE scope = "group"
      BY <1>2, <2>1, <3>1 DEF OneEach
    <3>2. CASE \A y \in CopiesOf(r) : y.id = OwnId(r)
      <4>1. OwnId(r) # NoId
        BY BlobMigrationsAssumption DEF OwnId, NoId
      <4>2. \A y \in oldBlob.rows : y.of = r => y.id = x.id /\ y.id # NoId /\ y.kind = x.kind
        BY <1>1, <2>1, <3>2, <4>1 DEF CopiesOf, OfKinds
      <4> QED
        BY <1>2, <4>2 DEF RowsKept
    <3> QED
      BY <1>3, <3>1, <3>2
  <2>3. CopiesOf(r) = {x}
    BY <2>1, <2>2 DEF CopiesOf
  <2> QED
    BY <2>3, FS_Singleton
<1>4. \A r \in OldRows : CopiesOf(r) # {}
  BY <1>2 DEF CopiesOf, RowsKept
<1>5. scope = "group" /\ oldBlob.version = CURRENT_BLOB_VERSION => Complete(oldBlob.rows)
  BY DEF BlobsInv, BlobKept, Migrated, CURRENT_BLOB_VERSION
<1> QED
  BY <1>3, <1>4, <1>5 DEF RowsMigrate, Complete

-----------------------------------------------------------------------------
(* Imports and backups                                                     *)

Runs_ == [on : BOOLEAN, file : Seq(Texts), load : Nat, at : Nat, imported : Nat,
          errors : Seq(Nat), lost : SUBSET Nat]

IsBlob(b) == b = [expenses |-> b.expenses, rest |-> b.rest]
IdsDiffer(E) == \A e, f \in E : e.id = f.id => e = f

\* What of a blob belongs to a run.
RunSound(E, r) ==
    /\ \A e \in E : e.of = r.load =>
          /\ e.row \in 1..(r.at - 1)
          /\ e.amount = parseAmount(r.file[e.row]) /\ ~NotPositive(e.amount)
    /\ \A e, f \in E : e.of = r.load /\ f.of = r.load /\ e.row = f.row => e = f
    /\ \A nr \in 1..(r.at - 1) :
          (\A k \in DOMAIN r.errors : r.errors[k] # nr) => \E e \in E : e.of = r.load /\ e.row = nr
    /\ \A e \in E : e.of = r.load /\ (\E k \in DOMAIN r.errors : r.errors[k] = e.row) => e.row \in r.lost

\* What of a blob belongs to the restoring of a backup.
Again(E, s, o) == \E e \in E : e.of = s.load /\ e.row = o.id
RestoreSound(b, s) ==
    /\ \A e \in b.expenses : e.of = s.load =>
          \E o \in s.file.expenses \ s.left : e.row = o.id /\ e.amount = o.amount
    /\ \A e, f \in b.expenses : e.of = s.load /\ f.of = s.load /\ e.row = f.row => e = f
    /\ s.how \in {"restoring", "restored"} \/ b.rest.of = s.load =>
          \A o \in s.file.expenses \ s.left : Again(b.expenses, s, o)
    /\ s.how = "restored" \/ b.rest.of = s.load => s.left = {}
    /\ b.rest.of = s.load => b.rest.version = s.file.rest.version

\* A blob in a state of the others, with n files and backups read and the file p shown.
BlobFits(b, r, s, n, p) ==
    /\ IsBlob(b) /\ IdsDiffer(b.expenses)
    /\ \A e \in b.expenses : e.of \in 0..n
    /\ b.rest.of \in 0..n
    /\ r.load > 0 => RunSound(b.expenses, r)
    /\ s.load > 0 => RestoreSound(b, s)
    /\ p.load > 0 /\ p.load # r.load => \A e \in b.expenses : e.of # p.load

RunFits(r, n) ==
    /\ r \in Runs_ /\ r.load \in 0..n /\ r.at = r.imported + Len(r.errors) + 1
    /\ r.load = 0 => ~r.on /\ r.at = 1
    /\ \A k \in DOMAIN r.errors : r.errors[k] \in 1..(r.at - 1)

RestoreFits(s, n) ==
    /\ s = [how |-> s.how, load |-> s.load, left |-> s.left, file |-> s.file]
    /\ s.load \in 0..n /\ (s.how = "restoring" => s.load > 0) /\ (s.how = "restored" => s.load > 0)
    /\ IdsDiffer(s.file.expenses) /\ s.left \subseteq s.file.expenses
    /\ s.load = 0 => s.file.expenses = {}

PageFits(r, s, n, p, sc) ==
    /\ p.load \in 0..n /\ p.rows \in Seq(Texts)
    /\ sc = "preview" => p.load > 0 /\ (~r.on => p.load # r.load)
    /\ p.load > 0 => p.load # s.load
    /\ r.load > 0 => r.load # s.load

ImportsInv ==
    /\ loads \in Nat /\ IdsDiffer(saved.expenses)
    /\ RunFits(run, loads) /\ RestoreFits(restore, loads) /\ PageFits(run, restore, loads, parsedData, screen)
    /\ BlobFits(ledger, run, restore, loads, parsedData)
    /\ BlobFits(held, run, restore, loads, parsedData)

LEMMA ImportsStart == ImportsInit => ImportsInv
<1> SUFFICES ASSUME ImportsInit PROVE ImportsInv
  OBVIOUS
<1>0. \A S : <<>> \in Seq(S) /\ Len(<<>>) = 0 /\ DOMAIN <<>> = {}
  BY EmptySeq
<1>1. NewBlob = [expenses |-> {}, rest |-> [of |-> 0, version |-> 0]] /\ NewBlob.expenses = {} /\ NewBlob.rest.of = 0
  BY DEF NewBlob
<1>2. run = [on |-> FALSE, file |-> <<>>, load |-> 0, at |-> 1, imported |-> 0, errors |-> <<>>, lost |-> {}]
  BY DEF ImportsInit, RunOver, NoFile
<1>3. /\ restore.how = "none" /\ restore.load = 0 /\ restore.left = {} /\ restore.file = NewBlob
      /\ loads = 0 /\ parsedData.load = 0 /\ parsedData.rows = <<>> /\ screen = "upload"
      /\ ledger = NewBlob /\ held = NewBlob /\ saved = NewBlob
  BY DEF ImportsInit, NoFile
<1>4. RunFits(run, loads)
  BY <1>0, <1>2, <1>3 DEF RunFits, Runs_
<1>5. RestoreFits(restore, loads)
  BY <1>1, <1>3 DEF RestoreFits, IdsDiffer, ImportsInit
<1>6. PageFits(run, restore, loads, parsedData, screen)
  BY <1>0, <1>2, <1>3 DEF PageFits
<1>7. BlobFits(NewBlob, run, restore, loads, parsedData)
  BY <1>1, <1>2, <1>3 DEF BlobFits, IsBlob, IdsDiffer
<1> QED
  BY <1>1, <1>3, <1>4, <1>5, <1>6, <1>7 DEF ImportsInv, IdsDiffer

-----------------------------------------------------------------------------
\* A blob that gains an expense.
Gains(b, q, e) ==
    /\ IsBlob(q) /\ q.rest = b.rest /\ q.expenses = b.expenses \cup {e}
    /\ \A f \in b.expenses : f.id # e.id

\* A blob whose rest is replaced.
Replaces(b, q, rest) == IsBlob(q) /\ q.expenses = b.expenses /\ q.rest = rest

\* What a save leaves.
Saved(q, answer) ==
    /\ answer = "stored" => ledger' = q /\ held' = q
    /\ answer = "failed" => ledger' = ledger /\ held' = held
    /\ answer = "lost" => ledger' = q /\ held' = held

LEMMA Adds ==
    ASSUME IsBlob(held), NEW load, NEW nr, NEW v, NEW answer, StoreExpense(load, nr, v, answer)
    PROVE  \E q, e : /\ Gains(held, q, e) /\ e.of = load /\ e.row = nr /\ e.amount = v
                     /\ Saved(q, answer)
<1>1. PICK id \in NewIds :
          /\ \A e \in held.expenses : e.id # id
          /\ savePersonalBlob([held EXCEPT !.expenses = @ \cup {Bought(id, load, nr, v)}], answer)
  BY DEF StoreExpense
<1>2. PICK e : e = [id |-> id, of |-> load, row |-> nr, amount |-> v]
  OBVIOUS
<1>3. PICK q : q = [expenses |-> held.expenses \cup {e}, rest |-> held.rest]
  OBVIOUS
<1>4. [held EXCEPT !.expenses = @ \cup {Bought(id, load, nr, v)}] = q
  BY <1>2, <1>3 DEF IsBlob, Bought
<1>5. Gains(held, q, e) /\ e.of = load /\ e.row = nr /\ e.amount = v
  BY <1>1, <1>2, <1>3 DEF Gains, IsBlob
<1>6. savePersonalBlob(q, answer)
  BY <1>1, <1>4
<1>7. Saved(q, answer)
  BY <1>6 DEF savePersonalBlob, Saved
<1> QED
  BY <1>5, <1>7

LEMMA RestSaves ==
    ASSUME IsBlob(held), NEW rest, NEW answer, savePersonalBlob([held EXCEPT !.rest = rest], answer)
    PROVE  \E q : Replaces(held, q, rest) /\ Saved(q, answer)
<1>1. PICK q : q = [expenses |-> held.expenses, rest |-> rest]
  OBVIOUS
<1>2. [held EXCEPT !.rest = rest] = q
  BY <1>1 DEF IsBlob
<1>3. Saved(q, answer)
  BY <1>2 DEF savePersonalBlob, Saved
<1>4. Replaces(held, q, rest)
  BY <1>1 DEF Replaces, IsBlob
<1> QED
  BY <1>3, <1>4

\* An expense that is not of the run leaves what the run has made.
LEMMA OtherExpense ==
    ASSUME NEW E, NEW e, NEW r, RunSound(E, r), e.of # r.load
    PROVE  RunSound(E \cup {e}, r)
  BY DEF RunSound

LEMMA GainFits ==
    ASSUME NEW b, NEW q, NEW e, NEW r, NEW s, NEW n \in Nat, NEW p, BlobFits(b, r, s, n, p),
           Gains(b, q, e), e.of \in 0..n,
           r.load > 0 => e.of # r.load, s.load > 0 => e.of # s.load, p.load > 0 => e.of # p.load
    PROVE  BlobFits(q, r, s, n, p)
<1>1. IsBlob(q) /\ IdsDiffer(q.expenses)
  BY DEF BlobFits, Gains, IdsDiffer
<1>2. /\ \A f \in q.expenses : f.of \in 0..n
      /\ q.rest.of \in 0..n
      /\ p.load > 0 /\ p.load # r.load => \A f \in q.expenses : f.of # p.load
  BY DEF BlobFits, Gains
<1>3. r.load > 0 => RunSound(q.expenses, r)
  BY OtherExpense DEF BlobFits, Gains
<1>4. s.load > 0 => RestoreSound(q, s)
  <2> SUFFICES ASSUME s.load > 0 PROVE RestoreSound(q, s)
    OBVIOUS
  <2>1. RestoreSound(b, s) /\ e.of # s.load
    BY DEF BlobFits
  <2> QED
    BY <2>1 DEF RestoreSound, Gains, Again
<1> QED
  BY <1>1, <1>2, <1>3, <1>4 DEF BlobFits

\* The blobs and the rest of the state fit whatever a save leaves.
LEMMA SavedFits ==
    ASSUME NEW r, NEW s, NEW n, NEW p, NEW q, NEW answer \in Answers, Saved(q, answer),
           answer \in {"failed"} => BlobFits(ledger, r, s, n, p),
           answer \in {"failed", "lost"} => BlobFits(held, r, s, n, p),
           answer \in {"stored", "lost"} => BlobFits(q, r, s, n, p)
    PROVE  BlobFits(ledger', r, s, n, p) /\ BlobFits(held', r, s, n, p)
  BY DEF Saved, Answers

LEMMA HandKeeps == ImportsInv /\ AddByHand => ImportsInv'
<1> SUFFICES ASSUME ImportsInv, AddByHand PROVE ImportsInv'
  OBVIOUS
<1>1. UNCHANGED <<screen, parsedData, run, saved, restore, loads>>
  BY DEF AddByHand, importPageVars
<1>2. PICK answer \in Answers : StoreExpense(0, 0, Number(1, 0), answer)
  BY DEF AddByHand
<1>3. PICK q, e : Gains(held, q, e) /\ e.of = 0 /\ Saved(q, answer)
  <2>1. IsBlob(held)
    BY DEF ImportsInv, BlobFits
  <2> QED
    BY <1>2, <2>1, Adds
<1>4. BlobFits(q, run, restore, loads, parsedData)
  <2>1. /\ loads \in Nat /\ BlobFits(held, run, restore, loads, parsedData)
        /\ e.of \in 0..loads
        /\ run.load > 0 => e.of # run.load
        /\ restore.load > 0 => e.of # restore.load
        /\ parsedData.load > 0 => e.of # parsedData.load
    BY <1>3 DEF ImportsInv, RunFits, RestoreFits, PageFits
  <2> QED
    BY <1>3, <2>1, GainFits
<1>5. BlobFits(ledger', run, restore, loads, parsedData) /\ BlobFits(held', run, restore, loads, parsedData)
  <2>1. BlobFits(ledger, run, restore, loads, parsedData) /\ BlobFits(held, run, restore, loads, parsedData)
    BY DEF ImportsInv
  <2> QED
    BY <1>3, <1>4, <2>1, SavedFits
<1> QED
  BY <1>1, <1>5 DEF ImportsInv

LEMMA RestKeeps == ImportsInv /\ RestChanges => ImportsInv'
<1> SUFFICES ASSUME ImportsInv, RestChanges PROVE ImportsInv'
  OBVIOUS
<1>1. UNCHANGED <<screen, parsedData, run, saved, restore, loads>>
  BY DEF RestChanges, importPageVars
<1>2. PICK answer \in Answers :
          savePersonalBlob([held EXCEPT !.rest = [of |-> 0, version |-> held.rest.version + 1]], answer)
  BY DEF RestChanges
<1>3. PICK rest : rest = [of |-> 0, version |-> held.rest.version + 1]
  OBVIOUS
<1>4. BlobFits(ledger, run, restore, loads, parsedData) /\ BlobFits(held, run, restore, loads, parsedData)
  BY DEF ImportsInv
<1>5. PICK q : Replaces(held, q, rest) /\ Saved(q, answer)
  BY <1>2, <1>3, <1>4, RestSaves DEF BlobFits
<1>6. BlobFits(q, run, restore, loads, parsedData)
  <2>1. restore.load > 0 => RestoreSound(q, restore)
    <3> SUFFICES ASSUME restore.load > 0 PROVE RestoreSound(q, restore)
      OBVIOUS
    <3>1. RestoreSound(held, restore) /\ q.expenses = held.expenses /\ q.rest.of = 0 /\ restore.load # 0
      BY <1>3, <1>4, <1>5 DEF BlobFits, Replaces
    <3> QED
      BY <3>1 DEF RestoreSound
  <2>2. q.rest.of \in 0..loads
    BY <1>3, <1>5 DEF Replaces, ImportsInv
  <2> QED
    BY <1>4, <1>5, <2>1, <2>2 DEF BlobFits, Replaces
<1>7. BlobFits(ledger', run, restore, loads, parsedData) /\ BlobFits(held', run, restore, loads, parsedData)
  BY <1>4, <1>5, <1>6, SavedFits
<1> QED
  BY <1>1, <1>7 DEF ImportsInv

LEMMA ExportsKeep == ImportsInv /\ exportEncryptedBackup => ImportsInv'
<1> SUFFICES ASSUME ImportsInv, exportEncryptedBackup PROVE ImportsInv'
  OBVIOUS
<1>1. UNCHANGED <<ledger, held, screen, parsedData, run, restore, loads>> /\ saved' = held
  BY DEF exportEncryptedBackup, importPageVars
<1>2. IdsDiffer(held.expenses)
  BY DEF ImportsInv, BlobFits
<1> QED
  BY <1>1, <1>2 DEF ImportsInv

\* What a blob fits does not depend on whether a run goes on, and a restoring that
\* fails asks less of it.
LEMMA EndsFit ==
    ASSUME NEW b, NEW r, NEW s, NEW n, NEW p, NEW r2, NEW s2, NEW p2, BlobFits(b, r, s, n, p),
           r2.load = r.load, r2.at = r.at, r2.file = r.file, r2.errors = r.errors, r2.lost = r.lost,
           s2.load = s.load, s2.left = s.left, s2.file = s.file, s2.how \in {s.how, "failed"},
           p2 = p \/ p2.load = 0
    PROVE  BlobFits(b, r2, s2, n, p2)
<1>1. r2.load > 0 => RunSound(b.expenses, r2)
  BY DEF BlobFits, RunSound
<1>2. s2.load > 0 => RestoreSound(b, s2)
  <2> SUFFICES ASSUME s2.load > 0 PROVE RestoreSound(b, s2)
    OBVIOUS
  <2>1. RestoreSound(b, s)
    BY DEF BlobFits
  <2> QED
    BY <2>1 DEF RestoreSound, Again
<1>3. p2.load > 0 => p2 = p
  OBVIOUS
<1> QED
  BY <1>1, <1>2, <1>3 DEF BlobFits

\* A run that ends, or goes on, at the same row.
LEMMA RunStops ==
    ASSUME NEW n, RunFits(run, n), NEW on \in BOOLEAN, on => run.load > 0, NEW r, r = [run EXCEPT !.on = on]
    PROVE  /\ RunFits(r, n) /\ r.on = on
           /\ r.load = run.load /\ r.at = run.at /\ r.file = run.file /\ r.errors = run.errors /\ r.lost = run.lost
<1>1. /\ r \in Runs_ /\ r.on = on /\ r.load = run.load /\ r.at = run.at /\ r.file = run.file
      /\ r.errors = run.errors /\ r.lost = run.lost /\ r.imported = run.imported
  BY DEF RunFits, Runs_
<1>2. r.load = 0 => ~r.on /\ r.at = 1
  BY <1>1 DEF RunFits
<1>3. r.load \in 0..n /\ r.at = r.imported + Len(r.errors) + 1
  BY <1>1 DEF RunFits
<1>4. \A k \in DOMAIN r.errors : r.errors[k] \in 1..(r.at - 1)
  BY <1>1 DEF RunFits
<1> QED
  BY <1>1, <1>2, <1>3, <1>4 DEF RunFits

LEMMA NoFileIs == NoFile.load = 0 /\ NoFile.rows \in Seq(Texts)
  BY EmptySeq DEF NoFile

LEMMA PagesKeep == ImportsInv /\ (fetchPersonalBlob \/ ImportEnds \/ reset) => ImportsInv'
<1>1. ASSUME ImportsInv, fetchPersonalBlob PROVE ImportsInv'
  <2>1. /\ held' = ledger /\ ledger' = ledger /\ screen' = "upload" /\ parsedData' = NoFile
        /\ run' = [run EXCEPT !.on = FALSE] /\ saved' = saved /\ loads' = loads
        /\ restore' = IF Restoring THEN [restore EXCEPT !.how = "failed"] ELSE restore
    BY <1>1 DEF fetchPersonalBlob
  <2>2. /\ RunFits(run', loads) /\ run'.on = FALSE /\ run'.load = run.load /\ run'.at = run.at
        /\ run'.file = run.file /\ run'.errors = run.errors /\ run'.lost = run.lost
    BY <1>1, <2>1, RunStops DEF ImportsInv
  <2>3. /\ restore' = [how |-> restore'.how, load |-> restore.load, left |-> restore.left, file |-> restore.file]
        /\ restore'.how = restore.how \/ restore'.how = "failed"
    BY <1>1, <2>1 DEF ImportsInv, RestoreFits
  <2>4. RestoreFits(restore', loads)
    BY <1>1, <2>3 DEF ImportsInv, RestoreFits
  <2>5. PageFits(run', restore', loads, parsedData', screen')
    BY <1>1, <2>1, <2>2, <2>3, NoFileIs DEF ImportsInv, PageFits
  <2>6. BlobFits(ledger, run', restore', loads, parsedData')
    <3>1. BlobFits(ledger, run, restore, loads, parsedData)
      BY <1>1 DEF ImportsInv
    <3>2. /\ restore'.load = restore.load /\ restore'.left = restore.left /\ restore'.file = restore.file
          /\ restore'.how \in {restore.how, "failed"}
      BY <2>3
    <3>3. parsedData'.load = 0
      BY <2>1, NoFileIs
    <3> QED
      BY <2>2, <3>1, <3>2, <3>3, EndsFit
  <2> QED
    BY <1>1, <2>1, <2>2, <2>4, <2>5, <2>6 DEF ImportsInv
<1>2. ASSUME ImportsInv, ImportEnds PROVE ImportsInv'
  <2>1. /\ UNCHANGED <<ledger, held, parsedData, saved, restore, loads>>
        /\ run' = [run EXCEPT !.on = FALSE] /\ screen' = "done"
    BY <1>2 DEF ImportEnds
  <2>2. /\ RunFits(run', loads) /\ run'.on = FALSE /\ run'.load = run.load /\ run'.at = run.at
        /\ run'.file = run.file /\ run'.errors = run.errors /\ run'.lost = run.lost
    BY <1>2, <2>1, RunStops DEF ImportsInv
  <2>3. PageFits(run', restore, loads, parsedData, screen')
    BY <1>2, <2>1, <2>2 DEF ImportsInv, PageFits
  <2>4. BlobFits(ledger, run', restore, loads, parsedData) /\ BlobFits(held, run', restore, loads, parsedData)
    BY <1>2, <2>2, EndsFit DEF ImportsInv
  <2> QED
    BY <1>2, <2>1, <2>2, <2>3, <2>4 DEF ImportsInv
<1>3. ASSUME ImportsInv, reset PROVE ImportsInv'
  <2>1. /\ UNCHANGED <<ledger, held, run, saved, restore, loads>>
        /\ screen' = "upload" /\ parsedData' = NoFile
    BY <1>3 DEF reset
  <2>2. PageFits(run, restore, loads, parsedData', screen')
    BY <1>3, <2>1, NoFileIs DEF ImportsInv, PageFits
  <2>3. BlobFits(ledger, run, restore, loads, parsedData') /\ BlobFits(held, run, restore, loads, parsedData')
    BY <1>3, <2>1, NoFileIs DEF ImportsInv, BlobFits
  <2> QED
    BY <1>3, <2>1, <2>2, <2>3 DEF ImportsInv
<1> QED
  BY <1>1, <1>2, <1>3

-----------------------------------------------------------------------------
\* One more file or backup is read: nothing stored is of it.
LEMMA MoreLoads ==
    ASSUME NEW b, NEW r, NEW s, NEW n \in Nat, NEW p, BlobFits(b, r, s, n, p)
    PROVE  /\ \A e \in b.expenses : e.of \in 0..(n + 1) /\ e.of # n + 1
           /\ b.rest.of \in 0..(n + 1) /\ b.rest.of # n + 1
<1>1. \A k \in 0..n : k \in 0..(n + 1) /\ k # n + 1
  OBVIOUS
<1> QED
  BY <1>1 DEF BlobFits

LEMMA UploadKeeps == ImportsInv /\ (\E file \in Files : handleFileUpload(file)) => ImportsInv'
<1> SUFFICES ASSUME ImportsInv, NEW file \in Files, handleFileUpload(file) PROVE ImportsInv'
  OBVIOUS
<1>1. /\ UNCHANGED <<ledger, held, run, saved, restore>> /\ loads' = loads + 1
      /\ parsedData' = [rows |-> file, load |-> loads + 1] /\ screen' = "preview"
  BY DEF handleFileUpload
<1>2. file \in Seq(Texts)
  <2>1. PICK n \in 1..MaxRows : file \in [1..n -> Texts]
    BY DEF Files
  <2>2. n \in Nat
    BY ImportsAssumption
  <2> QED
    BY <2>1, <2>2, IsASeq
<1>3. loads \in Nat /\ run.load \in 0..loads /\ restore.load \in 0..loads
  BY DEF ImportsInv, RunFits, RestoreFits
<1>4. /\ \A k \in 0..loads : k \in 0..(loads + 1) /\ k # loads + 1
      /\ loads + 1 \in 0..(loads + 1) /\ loads + 1 \in Nat /\ loads + 1 > 0
  BY <1>3
<1>5. RunFits(run, loads') /\ RestoreFits(restore, loads')
  BY <1>1, <1>3, <1>4 DEF ImportsInv, RunFits, RestoreFits
<1>6. PageFits(run, restore, loads', parsedData', screen')
  BY <1>1, <1>2, <1>3, <1>4 DEF ImportsInv, PageFits
<1>7. ASSUME NEW b, BlobFits(b, run, restore, loads, parsedData)
      PROVE  BlobFits(b, run, restore, loads', parsedData')
  <2>1. /\ \A e \in b.expenses : e.of \in 0..(loads + 1) /\ e.of # loads + 1
        /\ b.rest.of \in 0..(loads + 1)
    BY <1>3, <1>7, MoreLoads
  <2> QED
    BY <1>1, <1>7, <2>1 DEF BlobFits
<1> QED
  BY <1>1, <1>4, <1>5, <1>6, <1>7 DEF ImportsInv

LEMMA ConfirmKeeps == ImportsInv /\ handleConfirmImport => ImportsInv'
<1> SUFFICES ASSUME ImportsInv, handleConfirmImport PROVE ImportsInv'
  OBVIOUS
<1>1. /\ UNCHANGED <<ledger, held, screen, parsedData, saved, restore, loads>>
      /\ screen = "preview" /\ ~run.on
      /\ run' = [on |-> TRUE, file |-> parsedData.rows, load |-> parsedData.load, at |-> 1,
                 imported |-> 0, errors |-> <<>>, lost |-> {}]
  BY DEF handleConfirmImport, RunOver
<1>2. /\ parsedData.load \in 0..loads /\ parsedData.rows \in Seq(Texts) /\ parsedData.load > 0
      /\ parsedData.load # run.load /\ parsedData.load # restore.load /\ loads \in Nat
  BY <1>1 DEF ImportsInv, PageFits
<1>3. <<>> \in Seq(Nat) /\ Len(<<>>) = 0 /\ DOMAIN <<>> = {}
  BY EmptySeq
<1>4. RunFits(run', loads)
  BY <1>1, <1>2, <1>3 DEF RunFits, Runs_
<1>5. PageFits(run', restore, loads, parsedData, screen)
  BY <1>1, <1>2 DEF ImportsInv, PageFits
<1>6. ASSUME NEW b, BlobFits(b, run, restore, loads, parsedData)
      PROVE  BlobFits(b, run', restore, loads, parsedData)
  <2>1. \A e \in b.expenses : e.of # parsedData.load
    BY <1>2, <1>6 DEF BlobFits
  <2>2. run'.load = parsedData.load /\ run'.at = 1 /\ 1..(1 - 1) = {}
    BY <1>1
  <2>3. RunSound(b.expenses, run')
    BY <2>1, <2>2 DEF RunSound
  <2> QED
    BY <1>6, <2>2, <2>3 DEF BlobFits
<1> QED
  BY <1>1, <1>4, <1>5, <1>6 DEF ImportsInv

-----------------------------------------------------------------------------
\* The errors of a run name its row beside those before it.
NamesAlso(t, r) ==
    \A nr : (\E k \in DOMAIN t.errors : t.errors[k] = nr) <=> nr = r.at \/ \E k \in DOMAIN r.errors : r.errors[k] = nr

\* The expense of its row.
OfRow(e, r) == /\ e.of = r.load /\ e.row = r.at
               /\ e.amount = parseAmount(r.file[r.at]) /\ ~NotPositive(e.amount)

\* A row ends as an expense, as an error, or as both when its answer was lost.
LEMMA RowEnds ==
    ASSUME NEW E, NEW r, NEW t, RunSound(E, r), r.at \in Nat, r.at > 0,
           \A k \in DOMAIN r.errors : r.errors[k] \in 1..(r.at - 1),
           t.load = r.load, t.file = r.file, t.at = r.at + 1, r.lost \subseteq t.lost
    PROVE  /\ \A k \in DOMAIN r.errors : r.errors[k] # r.at
           /\ NamesAlso(t, r) => RunSound(E, t)
           /\ \A e : OfRow(e, r) /\ (t.errors = r.errors \/ (r.at \in t.lost /\ NamesAlso(t, r)))
                     => RunSound(E \cup {e}, t)
<1>1. /\ \A nr \in 1..(t.at - 1) : nr \in 1..(r.at - 1) \/ nr = r.at
      /\ 1..(r.at - 1) \subseteq 1..(t.at - 1) /\ r.at \in 1..(t.at - 1) /\ r.at \notin 1..(r.at - 1)
  OBVIOUS
<1>2. \A k \in DOMAIN r.errors : r.errors[k] # r.at
  BY <1>1
<1>3. /\ \A e \in E : e.of = r.load =>
          /\ e.row \in 1..(r.at - 1)
          /\ e.amount = parseAmount(r.file[e.row]) /\ ~NotPositive(e.amount)
      /\ \A e, f \in E : e.of = r.load /\ f.of = r.load /\ e.row = f.row => e = f
      /\ \A nr \in 1..(r.at - 1) :
            (\A k \in DOMAIN r.errors : r.errors[k] # nr) => \E e \in E : e.of = r.load /\ e.row = nr
      /\ \A e \in E : e.of = r.load /\ (\E k \in DOMAIN r.errors : r.errors[k] = e.row) => e.row \in r.lost
  BY DEF RunSound
<1>4. ASSUME NamesAlso(t, r) PROVE RunSound(E, t)
  <2>1. \A e \in E : e.of = t.load =>
          /\ e.row \in 1..(t.at - 1)
          /\ e.amount = parseAmount(t.file[e.row]) /\ ~NotPositive(e.amount)
    BY <1>1, <1>3
  <2>2. \A nr \in 1..(t.at - 1) :
            (\A k \in DOMAIN t.errors : t.errors[k] # nr) => \E e \in E : e.of = t.load /\ e.row = nr
    BY <1>1, <1>3, <1>4 DEF NamesAlso
  <2>3. \A e \in E : e.of = t.load /\ (\E k \in DOMAIN t.errors : t.errors[k] = e.row) => e.row \in t.lost
    BY <1>1, <1>3, <1>4 DEF NamesAlso
  <2> QED
    BY <1>3, <2>1, <2>2, <2>3 DEF RunSound
<1>5. ASSUME NEW e, OfRow(e, r), t.errors = r.errors \/ (r.at \in t.lost /\ NamesAlso(t, r))
      PROVE  RunSound(E \cup {e}, t)
  <2>1. \A x \in E \cup {e} : x.of = t.load =>
          /\ x.row \in 1..(t.at - 1)
          /\ x.amount = parseAmount(t.file[x.row]) /\ ~NotPositive(x.amount)
    BY <1>1, <1>3, <1>5 DEF NamesAlso, OfRow
  <2>2. \A x, f \in E \cup {e} : x.of = t.load /\ f.of = t.load /\ x.row = f.row => x = f
    BY <1>1, <1>3, <1>5 DEF NamesAlso, OfRow
  <2>3. \A nr \in 1..(t.at - 1) :
            (\A k \in DOMAIN t.errors : t.errors[k] # nr) => \E x \in E \cup {e} : x.of = t.load /\ x.row = nr
    BY <1>1, <1>3, <1>5 DEF NamesAlso, OfRow
  <2>4. \A x \in E \cup {e} : x.of = t.load /\ (\E k \in DOMAIN t.errors : t.errors[k] = x.row) => x.row \in t.lost
    <3> SUFFICES ASSUME NEW x \in E \cup {e}, x.of = t.load, NEW k \in DOMAIN t.errors, t.errors[k] = x.row
                 PROVE  x.row \in t.lost
      OBVIOUS
    <3>1. CASE x \in E
      <4>1. x.row # r.at /\ x.of = r.load
        BY <1>1, <1>3, <3>1
      <4>2. \E j \in DOMAIN r.errors : r.errors[j] = x.row
        BY <1>5, <4>1 DEF NamesAlso, OfRow
      <4> QED
        BY <1>3, <3>1, <4>1, <4>2
    <3>2. CASE x = e
      BY <1>2, <1>5, <3>2 DEF NamesAlso, OfRow
    <3> QED
      BY <3>1, <3>2
  <2> QED
    BY <2>1, <2>2, <2>3, <2>4 DEF RunSound
<1> QED
  BY <1>2, <1>4, <1>5

\* An error is added to the list.
LEMMA ErrorAdded ==
    ASSUME NEW s \in Seq(Nat), NEW x \in Nat
    PROVE  /\ Append(s, x) \in Seq(Nat) /\ Len(Append(s, x)) = Len(s) + 1
           /\ \A nr : (\E k \in DOMAIN Append(s, x) : Append(s, x)[k] = nr) <=> nr = x \/ \E k \in DOMAIN s : s[k] = nr
<1> DEFINE t == Append(s, x)
<1>1. /\ t \in Seq(Nat) /\ Len(t) = Len(s) + 1 /\ t[Len(s) + 1] = x
      /\ \A k \in 1..Len(s) : t[k] = s[k]
  BY AppendProperties
<1> HIDE DEF t
<1>2. DOMAIN s = 1..Len(s) /\ DOMAIN t = 1..(Len(s) + 1) /\ Len(s) \in Nat
  BY <1>1, LenProperties
<1>3. \A k \in 1..(Len(s) + 1) : k \in 1..Len(s) \/ k = Len(s) + 1
  BY <1>2
<1>4. Len(s) + 1 \in 1..(Len(s) + 1) /\ 1..Len(s) \subseteq 1..(Len(s) + 1)
  BY <1>2
<1> QED
  BY <1>1, <1>2, <1>3, <1>4 DEF t

\* The run after a row.
LEMMA RowCounts ==
    ASSUME RunFits(run, loads), run.on
    PROVE  /\ run.at \in Nat /\ run.at > 0 /\ RowNumber = run.at /\ run.load > 0
           /\ RowArrives =>
                 /\ RunFits(run', loads) /\ run'.load = run.load /\ run'.file = run.file
                 /\ run'.at = run.at + 1 /\ run'.lost = run.lost /\ run'.errors = run.errors /\ run'.on
           /\ \A lost \in SUBSET Nat : RowFails(lost) =>
                 /\ RunFits(run', loads) /\ run'.load = run.load /\ run'.file = run.file
                 /\ run'.at = run.at + 1 /\ run'.lost = run.lost \cup lost /\ run'.on
                 /\ NamesAlso(run', run)
<1>1. /\ run \in Runs_ /\ run.load > 0 /\ run.at \in Nat /\ run.imported \in Nat /\ run.errors \in Seq(Nat)
      /\ run.lost \subseteq Nat /\ run.at = run.imported + Len(run.errors) + 1
      /\ \A k \in DOMAIN run.errors : run.errors[k] \in 1..(run.at - 1)
  BY DEF RunFits, Runs_
<1>2. Len(run.errors) \in Nat
  BY <1>1, LenProperties
<1>3. run.at > 0 /\ RowNumber = run.at
  BY <1>1, <1>2 DEF RowNumber
<1>4. /\ \A k \in 1..(run.at - 1) : k \in 1..((run.at + 1) - 1)
      /\ run.at \in 1..((run.at + 1) - 1)
  BY <1>1, <1>3
<1>5. ASSUME RowArrives
      PROVE  /\ RunFits(run', loads) /\ run'.load = run.load /\ run'.file = run.file
             /\ run'.at = run.at + 1 /\ run'.lost = run.lost /\ run'.errors = run.errors /\ run'.on
  <2>1. run' = [run EXCEPT !.at = run.at + 1, !.imported = run.imported + 1]
    BY <1>5 DEF RowArrives
  <2>2. /\ run' \in Runs_ /\ run'.load = run.load /\ run'.file = run.file /\ run'.on = run.on
        /\ run'.at = run.at + 1 /\ run'.lost = run.lost /\ run'.errors = run.errors
        /\ run'.imported = run.imported + 1
    <3>1. PICK j, m : j = run.at + 1 /\ m = run.imported + 1
      OBVIOUS
    <3>2. j \in Nat /\ m \in Nat
      BY <1>1, <3>1
    <3>3. run' = [run EXCEPT !.at = j, !.imported = m]
      BY <2>1, <3>1
    <3>4. /\ run' \in Runs_ /\ run'.load = run.load /\ run'.file = run.file /\ run'.on = run.on
          /\ run'.at = j /\ run'.lost = run.lost /\ run'.errors = run.errors /\ run'.imported = m
      <4>1. run \in Runs_
        BY <1>1
      <4> QED
        BY ONLY <3>2, <3>3, <4>1 DEF Runs_
    <3> QED
      BY <3>1, <3>4
  <2>3. run'.at = run'.imported + Len(run'.errors) + 1
    <3>1. PICK len, m, j : len = Len(run.errors) /\ m = run.imported /\ j = run.at
      OBVIOUS
    <3>2. len \in Nat /\ m \in Nat /\ j = m + len + 1
      BY <1>1, <1>2, <3>1
    <3>3. j + 1 = (m + 1) + len + 1
      BY ONLY <3>2
    <3> QED
      BY <2>2, <3>1, <3>3
  <2> QED
    BY <1>1, <1>4, <2>2, <2>3 DEF RunFits
<1>6. ASSUME NEW lost \in SUBSET Nat, RowFails(lost)
      PROVE  /\ RunFits(run', loads) /\ run'.load = run.load /\ run'.file = run.file
             /\ run'.at = run.at + 1 /\ run'.lost = run.lost \cup lost /\ run'.on
             /\ NamesAlso(run', run)
  <2>1. PICK es : es = Append(run.errors, run.at)
    OBVIOUS
  <2>2. run' = [run EXCEPT !.at = run.at + 1, !.errors = es, !.lost = run.lost \cup lost]
    BY <1>3, <1>6, <2>1 DEF RowFails
  <2>3. /\ es \in Seq(Nat) /\ Len(es) = Len(run.errors) + 1
        /\ \A nr : (\E k \in DOMAIN es : es[k] = nr) <=> nr = run.at \/ \E k \in DOMAIN run.errors : run.errors[k] = nr
    <3>1. PICK old, x : old = run.errors /\ x = run.at
      OBVIOUS
    <3>2. old \in Seq(Nat) /\ x \in Nat /\ es = Append(old, x)
      BY <1>1, <2>1, <3>1
    <3>3. /\ Append(old, x) \in Seq(Nat) /\ Len(Append(old, x)) = Len(old) + 1
          /\ \A nr : (\E k \in DOMAIN Append(old, x) : Append(old, x)[k] = nr)
                 <=> nr = x \/ \E k \in DOMAIN old : old[k] = nr
      BY ONLY <3>2, ErrorAdded, Zenon
    <3>4. /\ es \in Seq(Nat) /\ Len(es) = Len(old) + 1
          /\ \A nr : (\E k \in DOMAIN es : es[k] = nr) <=> nr = x \/ \E k \in DOMAIN old : old[k] = nr
      <4>1. es = Append(old, x)
        BY <3>2
      <4> QED
        BY ONLY <3>3, <4>1, Zenon
    <3> QED
      BY ONLY <3>1, <3>4, Zenon
  <2>4. /\ run' \in Runs_ /\ run'.load = run.load /\ run'.file = run.file /\ run'.on = run.on
        /\ run'.at = run.at + 1 /\ run'.lost = run.lost \cup lost /\ run'.errors = es
        /\ run'.imported = run.imported
    <3>1. PICK j, ls : j = run.at + 1 /\ ls = run.lost \cup lost
      OBVIOUS
    <3>2. j \in Nat /\ ls \in SUBSET Nat
      <4>1. j \in Nat
        BY <1>1, <3>1
      <4>2. ls \subseteq Nat
        <5>1. run.lost \subseteq Nat
          BY <1>1
        <5> QED
          BY <3>1, <5>1, Zenon
      <4> QED
        BY <4>1, <4>2
    <3>3. run' = [run EXCEPT !.at = j, !.errors = es, !.lost = ls]
      BY <2>2, <3>1
    <3>4. /\ run' \in Runs_ /\ run'.load = run.load /\ run'.file = run.file /\ run'.on = run.on
          /\ run'.at = j /\ run'.lost = ls /\ run'.errors = es /\ run'.imported = run.imported
      <4>1. run \in Runs_ /\ es \in Seq(Nat)
        BY <1>1, <2>3
      <4> QED
        BY ONLY <3>2, <3>3, <4>1 DEF Runs_
    <3> QED
      BY <3>1, <3>4
  <2>5. run'.at = run'.imported + Len(run'.errors) + 1
    <3>1. PICK len, m, j : len = Len(run.errors) /\ m = run.imported /\ j = run.at
      OBVIOUS
    <3>2. len \in Nat /\ m \in Nat /\ j = m + len + 1
      BY <1>1, <1>2, <3>1
    <3>3. j + 1 = m + (len + 1) + 1
      BY ONLY <3>2
    <3> QED
      BY <2>3, <2>4, <3>1, <3>3
  <2>6. \A k \in DOMAIN es : es[k] \in 1..((run.at + 1) - 1)
    BY <1>1, <1>4, <2>3
  <2> QED
    BY <1>1, <2>3, <2>4, <2>5, <2>6 DEF RunFits, NamesAlso
<1> QED
  BY <1>1, <1>3, <1>5, <1>6

LEMMA RowKeeps == ImportsInv /\ ImportRow => ImportsInv'
<1> SUFFICES ASSUME ImportsInv, ImportRow PROVE ImportsInv'
  OBVIOUS
<1>1. UNCHANGED <<screen, parsedData, saved, restore, loads>> /\ run.on
  BY DEF ImportRow
<1>2. PICK v : v = parseAmount(run.file[run.at])
  OBVIOUS
<1>3. \/ NotPositive(v) /\ RowFails({}) /\ UNCHANGED <<ledger, held>>
      \/ ~NotPositive(v) /\ StoreExpense(run.load, run.at, v, "stored") /\ RowArrives
      \/ ~NotPositive(v) /\ StoreExpense(run.load, run.at, v, "failed") /\ RowFails({})
      \/ ~NotPositive(v) /\ StoreExpense(run.load, run.at, v, "lost") /\ RowFails({run.at})
  BY <1>2 DEF ImportRow
<1>4. /\ loads \in Nat /\ RunFits(run, loads) /\ PageFits(run, restore, loads, parsedData, screen)
      /\ BlobFits(ledger, run, restore, loads, parsedData) /\ BlobFits(held, run, restore, loads, parsedData)
  BY DEF ImportsInv
<1>5. /\ run.at \in Nat /\ run.at > 0 /\ run.load > 0 /\ run.load # restore.load /\ run.load \in 0..loads
      /\ \A k \in DOMAIN run.errors : run.errors[k] \in 1..(run.at - 1)
  BY <1>1, <1>4, RowCounts DEF RunFits, PageFits
<1>6. /\ RunFits(run', loads) /\ run'.load = run.load /\ run'.file = run.file /\ run'.at = run.at + 1
      /\ run.lost \subseteq run'.lost /\ run'.on
  BY <1>1, <1>3, <1>4, <1>5, RowCounts
<1>7. PageFits(run', restore, loads, parsedData, screen)
  BY <1>1, <1>4, <1>6 DEF PageFits
<1>8. ASSUME NEW b, BlobFits(b, run, restore, loads, parsedData), RunSound(b.expenses, run')
      PROVE  BlobFits(b, run', restore, loads, parsedData)
  BY <1>6, <1>8 DEF BlobFits
<1>9. RunSound(ledger.expenses, run) /\ RunSound(held.expenses, run)
  BY <1>4, <1>5 DEF BlobFits
<1>10. ASSUME NEW lost \in SUBSET Nat, RowFails(lost)
       PROVE  /\ BlobFits(ledger, run', restore, loads, parsedData)
              /\ BlobFits(held, run', restore, loads, parsedData)
  <2>1. NamesAlso(run', run)
    BY <1>1, <1>4, <1>10, RowCounts
  <2>2. RunSound(ledger.expenses, run')
    BY <1>5, <1>6, <1>9, <2>1, RowEnds
  <2>3. RunSound(held.expenses, run')
    BY <1>5, <1>6, <1>9, <2>1, RowEnds
  <2> QED
    BY <1>4, <1>8, <2>2, <2>3
<1>11. ASSUME NEW q, NEW e, Gains(held, q, e), e.of = run.load, e.row = run.at, e.amount = v, ~NotPositive(v),
              RowArrives \/ RowFails({run.at})
       PROVE  BlobFits(q, run', restore, loads, parsedData)
  <2>1. run'.errors = run.errors \/ (run.at \in run'.lost /\ NamesAlso(run', run))
    <3>1. {run.at} \in SUBSET Nat
      BY <1>5
    <3> QED
      BY <1>1, <1>4, <1>11, <3>1, RowCounts
  <2>2. RunSound(held.expenses \cup {e}, run')
    <3>1. OfRow(e, run)
      BY <1>2, <1>11 DEF OfRow
    <3> QED
      BY <1>5, <1>6, <1>9, <2>1, <3>1, RowEnds
  <2>3. IsBlob(q) /\ IdsDiffer(q.expenses)
    BY <1>4, <1>11 DEF BlobFits, Gains, IdsDiffer
  <2>4. /\ \A f \in q.expenses : f.of \in 0..loads
        /\ q.rest.of \in 0..loads
        /\ parsedData.load > 0 /\ parsedData.load # run.load => \A f \in q.expenses : f.of # parsedData.load
    BY <1>4, <1>5, <1>11 DEF BlobFits, Gains
  <2>5. restore.load > 0 => RestoreSound(q, restore)
    <3> SUFFICES ASSUME restore.load > 0 PROVE RestoreSound(q, restore)
      OBVIOUS
    <3>1. RestoreSound(held, restore) /\ e.of # restore.load
      BY <1>4, <1>5, <1>11 DEF BlobFits
    <3> QED
      BY <1>11, <3>1 DEF RestoreSound, Gains, Again
  <2> QED
    BY <1>6, <1>11, <2>2, <2>3, <2>4, <2>5 DEF BlobFits, Gains
<1>12. BlobFits(ledger', run', restore, loads, parsedData) /\ BlobFits(held', run', restore, loads, parsedData)
  <2>1. CASE NotPositive(v) /\ RowFails({}) /\ UNCHANGED <<ledger, held>>
    BY <1>10, <2>1
  <2>2. ASSUME NEW answer \in Answers, ~NotPositive(v), StoreExpense(run.load, run.at, v, answer),
               answer = "stored" => RowArrives, answer = "failed" => RowFails({}),
               answer = "lost" => RowFails({run.at})
        PROVE  BlobFits(ledger', run', restore, loads, parsedData) /\ BlobFits(held', run', restore, loads, parsedData)
    <3>1. PICK q, e : Gains(held, q, e) /\ e.of = run.load /\ e.row = run.at /\ e.amount = v /\ Saved(q, answer)
      BY <1>4, <2>2, Adds DEF BlobFits
    <3>2. answer \in {"stored", "lost"} => BlobFits(q, run', restore, loads, parsedData)
      BY <1>11, <2>2, <3>1
    <3>3. answer \in {"failed", "lost"} =>
              BlobFits(ledger, run', restore, loads, parsedData) /\ BlobFits(held, run', restore, loads, parsedData)
      <4>1. {} \in SUBSET Nat /\ {run.at} \in SUBSET Nat
        BY <1>5
      <4> QED
        BY <1>10, <2>2, <4>1
    <3> QED
      BY <3>1, <3>2, <3>3, SavedFits
  <2>3. "stored" \in Answers /\ "failed" \in Answers /\ "lost" \in Answers
    BY DEF Answers
  <2> QED
    BY <1>3, <2>1, <2>2, <2>3
<1> QED
  BY <1>1, <1>4, <1>6, <1>7, <1>12 DEF ImportsInv

-----------------------------------------------------------------------------
\* The restoring of a backup.
LEMMA BackupStarts == ImportsInv /\ importEncryptedBackup => ImportsInv'
<1> SUFFICES ASSUME ImportsInv, importEncryptedBackup PROVE ImportsInv'
  OBVIOUS
<1>1. PICK how \in {"restoring", "refused"} :
          restore' = [how |-> how, load |-> loads + 1, left |-> saved.expenses, file |-> saved]
  BY DEF importEncryptedBackup
<1>2. screen = "upload" /\ loads' = loads + 1 /\ UNCHANGED <<ledger, held, screen, parsedData, run, saved>>
  BY DEF importEncryptedBackup, importPageVars
<1>3. loads \in Nat /\ run.load \in 0..loads /\ parsedData.load \in 0..loads
  BY DEF ImportsInv, RunFits, PageFits
<1>4. /\ \A k \in 0..loads : k \in 0..(loads + 1) /\ k # loads + 1
      /\ loads + 1 \in 0..(loads + 1) /\ loads + 1 \in Nat /\ loads + 1 > 0
  BY <1>3
<1>5. RunFits(run, loads') /\ RestoreFits(restore', loads')
  BY <1>1, <1>2, <1>3, <1>4 DEF ImportsInv, RunFits, RestoreFits
<1>6. PageFits(run, restore', loads', parsedData, screen)
  BY <1>1, <1>2, <1>3, <1>4 DEF ImportsInv, PageFits
<1>7. ASSUME NEW b, BlobFits(b, run, restore, loads, parsedData)
      PROVE  BlobFits(b, run, restore', loads', parsedData)
  <2>1. /\ \A e \in b.expenses : e.of \in 0..(loads + 1) /\ e.of # loads + 1
        /\ b.rest.of \in 0..(loads + 1) /\ b.rest.of # loads + 1
    BY <1>3, <1>7, MoreLoads
  <2>2. RestoreSound(b, restore')
    BY <1>1, <2>1 DEF RestoreSound
  <2> QED
    BY <1>2, <1>7, <2>1, <2>2 DEF BlobFits
<1> QED
  BY <1>1, <1>2, <1>4, <1>5, <1>6, <1>7 DEF ImportsInv

\* What the restoring of one expense leaves of a blob with all before it.
LEMMA OneRestored ==
    ASSUME NEW b, NEW q, NEW e, NEW o, NEW s, NEW t, RestoreSound(b, s), Gains(b, q, e),
           IdsDiffer(s.file.expenses), o \in s.left, s.left \subseteq s.file.expenses,
           e.of = s.load, e.row = o.id, e.amount = o.amount, s.how = "restoring",
           t.load = s.load, t.file = s.file, t.left = s.left \ {o}, t.how \in {"restoring", "failed"},
           b.rest.of # s.load
    PROVE  RestoreSound(q, t)
<1>1. /\ \A f \in b.expenses : f.of = s.load =>
            \E p \in s.file.expenses \ s.left : f.row = p.id /\ f.amount = p.amount
      /\ \A f, g \in b.expenses : f.of = s.load /\ g.of = s.load /\ f.row = g.row => f = g
      /\ \A p \in s.file.expenses \ s.left : Again(b.expenses, s, p)
  BY DEF RestoreSound
<1>2. \A f \in b.expenses : f.of = s.load => f.row # o.id
  BY <1>1 DEF IdsDiffer
<1>3. \A f \in q.expenses : f.of = t.load =>
          \E p \in t.file.expenses \ t.left : f.row = p.id /\ f.amount = p.amount
  BY <1>1 DEF Gains
<1>4. \A f, g \in q.expenses : f.of = t.load /\ g.of = t.load /\ f.row = g.row => f = g
  BY <1>1, <1>2 DEF Gains
<1>5. \A p \in t.file.expenses \ t.left : Again(q.expenses, t, p)
  BY <1>1 DEF Gains, Again
<1>6. q.rest.of # t.load /\ t.how # "restored"
  BY DEF Gains
<1> QED
  BY <1>3, <1>4, <1>5, <1>6 DEF RestoreSound

\* A blob that the expense did not reach, when the restoring ends with it.
LEMMA NotRestored ==
    ASSUME NEW b, NEW o, NEW s, NEW t, RestoreSound(b, s), s.how = "restoring",
           t.load = s.load, t.file = s.file, t.left = s.left \ {o}, t.how = "failed", b.rest.of # s.load
    PROVE  RestoreSound(b, t)
  BY DEF RestoreSound

LEMMA ExpenseKeeps == ImportsInv /\ RestoreExpense => ImportsInv'
<1> SUFFICES ASSUME ImportsInv, RestoreExpense PROVE ImportsInv'
  OBVIOUS
<1>1. UNCHANGED <<screen, parsedData, run, saved, loads>> /\ restore.how = "restoring"
  BY DEF RestoreExpense, importPageVars, Restoring
<1>2. PICK o \in restore.left, answer \in Answers :
          /\ StoreExpense(restore.load, o.id, o.amount, answer)
          /\ restore' = [restore EXCEPT !.left = @ \ {o}, !.how = IF answer = "stored" THEN @ ELSE "failed"]
  BY DEF RestoreExpense
<1>3. /\ loads \in Nat /\ RestoreFits(restore, loads) /\ PageFits(run, restore, loads, parsedData, screen)
      /\ BlobFits(ledger, run, restore, loads, parsedData) /\ BlobFits(held, run, restore, loads, parsedData)
  BY DEF ImportsInv
<1>4. /\ restore.load > 0 /\ restore.load \in 0..loads /\ IdsDiffer(restore.file.expenses)
      /\ restore.left \subseteq restore.file.expenses
      /\ restore = [how |-> restore.how, load |-> restore.load, left |-> restore.left, file |-> restore.file]
  BY <1>1, <1>3 DEF RestoreFits
<1>5. /\ restore' = [how |-> restore'.how, load |-> restore.load, left |-> restore.left \ {o}, file |-> restore.file]
      /\ restore'.how = IF answer = "stored" THEN "restoring" ELSE "failed"
  <2>1. PICK how : how = IF answer = "stored" THEN "restoring" ELSE "failed"
    OBVIOUS
  <2>2. PICK left : left = restore.left \ {o}
    OBVIOUS
  <2>3. restore' = [restore EXCEPT !.left = left, !.how = how]
    BY <1>1, <1>2, <2>1, <2>2
  <2>4. restore' = [how |-> how, load |-> restore.load, left |-> left, file |-> restore.file]
    BY ONLY <1>4, <2>3
  <2> QED
    BY <2>1, <2>2, <2>4
<1>6. RestoreFits(restore', loads)
  BY <1>3, <1>4, <1>5 DEF RestoreFits
<1>7. PageFits(run, restore', loads, parsedData, screen)
  BY <1>3, <1>5 DEF PageFits
<1>8. \A b : BlobFits(b, run, restore, loads, parsedData) => RestoreSound(b, restore)
  BY <1>4 DEF BlobFits
<1>9. ledger.rest.of # restore.load /\ held.rest.of # restore.load
  <2>1. \A b : RestoreSound(b, restore) /\ b.rest.of = restore.load => restore.left = {}
    BY DEF RestoreSound
  <2> QED
    BY <1>2, <1>3, <1>8, <2>1
<1>10. ASSUME answer \in {"failed", "lost"}, NEW b, BlobFits(b, run, restore, loads, parsedData),
              b.rest.of # restore.load
       PROVE  BlobFits(b, run, restore', loads, parsedData)
  <2>1. /\ restore'.load = restore.load /\ restore'.file = restore.file
        /\ restore'.left = restore.left \ {o} /\ restore'.how = "failed"
    BY <1>5, <1>10
  <2>2. RestoreSound(b, restore')
    BY <1>1, <1>8, <1>10, <2>1, NotRestored
  <2> QED
    BY <1>10, <2>2 DEF BlobFits
<1>11. PICK q, e : /\ Gains(held, q, e) /\ e.of = restore.load /\ e.row = o.id /\ e.amount = o.amount
                   /\ Saved(q, answer)
  BY <1>2, <1>3, Adds DEF BlobFits
<1>12. BlobFits(q, run, restore', loads, parsedData)
  <2>1. RestoreSound(held, restore)
    BY <1>3, <1>8
  <2>2. /\ restore'.load = restore.load /\ restore'.file = restore.file
        /\ restore'.left = restore.left \ {o} /\ restore'.how \in {"restoring", "failed"}
    BY <1>5
  <2>3. RestoreSound(q, restore')
    BY <1>1, <1>2, <1>4, <1>9, <1>11, <2>1, <2>2, OneRestored
  <2>4. IsBlob(q) /\ IdsDiffer(q.expenses)
    BY <1>3, <1>11 DEF BlobFits, Gains, IdsDiffer
  <2>5. /\ \A f \in q.expenses : f.of \in 0..loads
        /\ q.rest.of \in 0..loads
        /\ parsedData.load > 0 /\ parsedData.load # run.load => \A f \in q.expenses : f.of # parsedData.load
    BY <1>3, <1>4, <1>11 DEF BlobFits, Gains, PageFits
  <2>6. run.load > 0 => RunSound(q.expenses, run)
    BY <1>3, <1>11, OtherExpense DEF BlobFits, Gains, PageFits
  <2> QED
    BY <2>3, <2>4, <2>5, <2>6 DEF BlobFits
<1>13. BlobFits(ledger', run, restore', loads, parsedData) /\ BlobFits(held', run, restore', loads, parsedData)
  BY <1>3, <1>9, <1>10, <1>11, <1>12, SavedFits
<1> QED
  BY <1>1, <1>6, <1>7, <1>13 DEF ImportsInv

LEMMA RestoreKeeps == ImportsInv /\ RestoreRest => ImportsInv'
<1> SUFFICES ASSUME ImportsInv, RestoreRest PROVE ImportsInv'
  OBVIOUS
<1>1. UNCHANGED <<screen, parsedData, run, saved, loads>> /\ restore.how = "restoring" /\ restore.left = {}
  BY DEF RestoreRest, importPageVars, Restoring
<1>2. PICK answer \in Answers :
          /\ savePersonalBlob([held EXCEPT !.rest = [of |-> restore.load, version |-> restore.file.rest.version]], answer)
          /\ restore' = [restore EXCEPT !.how = IF answer = "stored" THEN "restored" ELSE "failed"]
  BY DEF RestoreRest
<1>3. /\ loads \in Nat /\ RestoreFits(restore, loads) /\ PageFits(run, restore, loads, parsedData, screen)
      /\ BlobFits(ledger, run, restore, loads, parsedData) /\ BlobFits(held, run, restore, loads, parsedData)
  BY DEF ImportsInv
<1>4. /\ restore.load > 0 /\ restore.load \in 0..loads /\ IdsDiffer(restore.file.expenses)
      /\ restore = [how |-> restore.how, load |-> restore.load, left |-> restore.left, file |-> restore.file]
  BY <1>1, <1>3 DEF RestoreFits
<1>5. /\ restore' = [how |-> restore'.how, load |-> restore.load, left |-> {}, file |-> restore.file]
      /\ restore'.how = IF answer = "stored" THEN "restored" ELSE "failed"
  <2>1. PICK how : how = IF answer = "stored" THEN "restored" ELSE "failed"
    OBVIOUS
  <2>2. restore' = [restore EXCEPT !.how = how]
    BY <1>2, <2>1
  <2>3. restore' = [how |-> how, load |-> restore.load, left |-> restore.left, file |-> restore.file]
    BY ONLY <1>4, <2>2
  <2> QED
    BY <1>1, <2>1, <2>3
<1>6. RestoreFits(restore', loads)
  BY <1>3, <1>4, <1>5 DEF RestoreFits
<1>7. PageFits(run, restore', loads, parsedData, screen)
  BY <1>3, <1>5 DEF PageFits
<1>8. ASSUME NEW b, BlobFits(b, run, restore, loads, parsedData)
      PROVE  /\ \A o \in restore.file.expenses : Again(b.expenses, restore, o)
             /\ restore'.how = "failed" => BlobFits(b, run, restore', loads, parsedData)
  <2>1. RestoreSound(b, restore)
    BY <1>4, <1>8 DEF BlobFits
  <2>2. \A o \in restore.file.expenses : Again(b.expenses, restore, o)
    BY <1>1, <2>1 DEF RestoreSound
  <2>3. ASSUME restore'.how = "failed" PROVE RestoreSound(b, restore')
    <3>1. restore'.load = restore.load /\ restore'.file = restore.file /\ restore'.left = {}
      BY <1>5
    <3> QED
      BY <1>1, <2>1, <2>3, <3>1 DEF RestoreSound, Again
  <2> QED
    BY <1>8, <2>2, <2>3 DEF BlobFits
<1>9. PICK rest : rest = [of |-> restore.load, version |-> restore.file.rest.version]
  OBVIOUS
<1>10. PICK q : Replaces(held, q, rest) /\ Saved(q, answer)
  BY <1>2, <1>3, <1>9, RestSaves DEF BlobFits
<1>11. BlobFits(q, run, restore', loads, parsedData)
  <2>1. restore'.load = restore.load /\ restore'.file = restore.file /\ restore'.left = {}
    BY <1>5
  <2>2. RestoreSound(held, restore) /\ \A o \in restore.file.expenses : Again(held.expenses, restore, o)
    BY <1>3, <1>4, <1>8 DEF BlobFits
  <2>3. /\ \A o \in restore.file.expenses : Again(q.expenses, restore', o)
        /\ q.expenses = held.expenses /\ q.rest.of = restore.load
        /\ q.rest.version = restore.file.rest.version
    BY <1>9, <1>10, <2>1, <2>2 DEF Again, Replaces
  <2>4. RestoreSound(q, restore')
    BY <1>1, <2>1, <2>2, <2>3 DEF RestoreSound
  <2> QED
    BY <1>3, <1>4, <1>10, <2>3, <2>4 DEF BlobFits, Replaces
<1>12. BlobFits(ledger', run, restore', loads, parsedData) /\ BlobFits(held', run, restore', loads, parsedData)
  <2>1. answer \in {"failed", "lost"} =>
            BlobFits(ledger, run, restore', loads, parsedData) /\ BlobFits(held, run, restore', loads, parsedData)
    BY <1>3, <1>5, <1>8
  <2> QED
    BY <1>10, <1>11, <2>1, SavedFits
<1> QED
  BY <1>1, <1>6, <1>7, <1>12 DEF ImportsInv

LEMMA ImportsSteps == ImportsInv /\ [FileNext \/ BackupNext]_importsVars => ImportsInv'
<1>1. CASE UNCHANGED importsVars
  <2>1. UNCHANGED <<ledger, held, screen, parsedData, run, saved, restore, loads>>
    BY <1>1 DEF importsVars
  <2> QED
    BY <2>1 DEF ImportsInv
<1>2. CASE FileNext
  BY <1>2, HandKeeps, PagesKeep, UploadKeeps, ConfirmKeeps, RowKeeps DEF FileNext
<1>3. CASE BackupNext
  BY <1>3, HandKeeps, RestKeeps, PagesKeep, ExportsKeep, BackupStarts, ExpenseKeeps, RestoreKeeps DEF BackupNext
<1> QED
  BY <1>1, <1>2, <1>3

-----------------------------------------------------------------------------
LEMMA CopiesAre ==
    ASSUME NEW load, NEW nr,
           \A e, f \in ledger.expenses : e.of = load /\ f.of = load /\ e.row = f.row => e = f
    PROVE  Copies(load, nr) = {} \/ Cardinality(Copies(load, nr)) = 1
<1> SUFFICES ASSUME Copies(load, nr) # {} PROVE Cardinality(Copies(load, nr)) = 1
  OBVIOUS
<1>1. PICK e \in Copies(load, nr) : TRUE
  OBVIOUS
<1>2. Copies(load, nr) = {e}
  BY <1>1 DEF Copies
<1> QED
  BY <1>2, FS_Singleton

LEMMA RowsAreAccounted == ImportsInv => RowsAccounted
<1> SUFFICES ASSUME ImportsInv, NEW nr \in 1..(run.at - 1)
             PROVE  LET failed == \E k \in DOMAIN run.errors : run.errors[k] = nr
                    IN  /\ \A e \in Copies(run.load, nr) :
                              e.amount = parseAmount(run.file[nr]) /\ ~NotPositive(e.amount)
                        /\ IF failed
                           THEN Copies(run.load, nr) = {} \/ (nr \in run.lost /\ Cardinality(Copies(run.load, nr)) = 1)
                           ELSE Cardinality(Copies(run.load, nr)) = 1
  BY DEF RowsAccounted
<1>1. run.load > 0
  <2>1. run.load \in Nat /\ (run.load = 0 => run.at = 1)
    BY DEF ImportsInv, RunFits
  <2> QED
    BY <2>1
<1>2. RunSound(ledger.expenses, run)
  BY <1>1 DEF ImportsInv, BlobFits
<1>3. \A e \in Copies(run.load, nr) : e \in ledger.expenses /\ e.of = run.load /\ e.row = nr
  BY DEF Copies
<1>4. \A e \in Copies(run.load, nr) : e.amount = parseAmount(run.file[nr]) /\ ~NotPositive(e.amount)
  BY <1>2, <1>3 DEF RunSound
<1>5. Copies(run.load, nr) = {} \/ Cardinality(Copies(run.load, nr)) = 1
  BY <1>2, CopiesAre DEF RunSound
<1>6. (\A k \in DOMAIN run.errors : run.errors[k] # nr) => Copies(run.load, nr) # {}
  BY <1>2 DEF RunSound, Copies
<1>7. (\E k \in DOMAIN run.errors : run.errors[k] = nr) /\ Copies(run.load, nr) # {} => nr \in run.lost
  BY <1>2, <1>3 DEF RunSound
<1> QED
  BY <1>4, <1>5, <1>6, <1>7

LEMMA BackupsAreWhole == ImportsInv => RestoredWhole
<1> SUFFICES ASSUME ImportsInv PROVE RestoredWhole
  OBVIOUS
<1>1. RestoreFits(restore, loads) /\ loads \in Nat
  BY DEF ImportsInv
<1>2. CASE restore.load > 0
  <2>1. RestoreSound(ledger, restore)
    BY <1>2 DEF ImportsInv, BlobFits
  <2>2. ASSUME NEW e \in restore.file.expenses
        PROVE  /\ Copies(restore.load, e.id) = {} \/ Cardinality(Copies(restore.load, e.id)) = 1
               /\ \A c \in Copies(restore.load, e.id) : c.amount = e.amount
    <3>1. Copies(restore.load, e.id) = {} \/ Cardinality(Copies(restore.load, e.id)) = 1
      BY <2>1, CopiesAre DEF RestoreSound
    <3>2. ASSUME NEW c \in Copies(restore.load, e.id) PROVE c.amount = e.amount
      <4>1. c \in ledger.expenses /\ c.of = restore.load /\ c.row = e.id
        BY DEF Copies
      <4>2. PICK o \in restore.file.expenses : c.row = o.id /\ c.amount = o.amount
        BY <2>1, <4>1 DEF RestoreSound
      <4>3. o = e
        BY <1>1, <2>2, <4>1, <4>2 DEF RestoreFits, IdsDiffer
      <4> QED
        BY <4>2, <4>3
    <3> QED
      BY <3>1, <3>2
  <2>3. restore.how = "restored" \/ ledger.rest.of = restore.load =>
            \A e \in restore.file.expenses : Copies(restore.load, e.id) # {}
    BY <2>1 DEF RestoreSound, Again, Copies
  <2>4. ledger.rest.of = restore.load => ledger.rest.version = restore.file.rest.version
    BY <2>1 DEF RestoreSound
  <2> QED
    BY <2>2, <2>3, <2>4 DEF RestoredWhole
<1>3. CASE restore.load = 0
  <2>1. restore.how # "restored" /\ ~(restore.load > 0)
    BY <1>1, <1>3 DEF RestoreFits
  <2>2. restore.file.expenses = {}
    BY <1>3 DEF ImportsInv, RestoreFits
  <2> QED
    BY <2>1, <2>2 DEF RestoredWhole
<1> QED
  BY <1>1, <1>2, <1>3 DEF RestoreFits

-----------------------------------------------------------------------------
(* The activity log of a group                                             *)

EntryIds == Appends \cup {"first"}
LogHashes == Seq({"engine", "legacy"} \X EntryIds)
LogEntries == [id : EntryIds, form : {"engine", "legacy"}, prev : LogHashes, hash : LogHashes]

LogTyped ==
    /\ version \in Nat /\ others \in 0..MaxEdits /\ inherited \in BOOLEAN
    /\ entries \in Seq(LogEntries)
    /\ append \in [Appends -> [at : {"idle", "read", "conflict", "done", "failed"}, version : Nat,
                               entries : Seq(LogEntries), tries : 0..MaxTries]]
    /\ \A a \in Appends : /\ append[a].version <= version
                          /\ append[a].at \in {"idle", "read", "conflict"} => append[a].tries < MaxTries

\* Every entry of l has the legacy format, and the hash before it is the one it was
\* made over.
Unbroken(l) ==
    \A i \in 1..Len(l) : /\ l[i].form = "legacy"
                         /\ l[i].hash = Hash("legacy", l[i].prev, l[i].id)
                         /\ l[i].prev = IF i = 1 THEN <<>> ELSE l[i - 1].hash

\* What is stored is unbroken, and so is what any append has read.
LogInv ==
    /\ LogTyped
    /\ ~inherited => Unbroken(entries) /\ \A a \in Appends : Unbroken(append[a].entries)

LEMMA HashIsTyped ==
    \A form \in {"engine", "legacy"}, prev \in LogHashes, id \in EntryIds : Hash(form, prev, id) \in LogHashes
BY DEF Hash, LogHashes

LEMMA LastIsLast ==
    ASSUME NEW l \in Seq(LogEntries)
    PROVE  /\ LastHash(l) \in LogHashes
           /\ l # <<>> => Len(l) \in Nat \ {0} /\ Len(l) \in DOMAIN l /\ LastHash(l) = l[Len(l)].hash
           /\ l = <<>> => LastHash(l) = <<>> /\ Len(l) = 0
<1>1. <<>> \in LogHashes
  BY DEF LogHashes
<1>2. CASE l = <<>>
  BY <1>1, <1>2 DEF LastHash
<1>3. CASE l # <<>>
  <2>1. Len(l) \in Nat \ {0} /\ Len(l) \in DOMAIN l
    BY <1>3
  <2>2. LastHash(l) = l[Len(l)].hash
    BY <1>3 DEF LastHash, Last
  <2>3. l[Len(l)] \in LogEntries
    BY <2>1
  <2> QED
    BY <1>3, <2>1, <2>2, <2>3 DEF LogEntries
<1> QED
  BY <1>2, <1>3

\* An entry linked to the last one leaves a log unbroken.
LEMMA AppendedEntry ==
    ASSUME NEW l \in Seq(LogEntries), NEW id \in EntryIds
    PROVE  LET more == Append(l, LegacyEntry(LastHash(l), id))
           IN  more \in Seq(LogEntries) /\ (Unbroken(l) => Unbroken(more))
<1> DEFINE e == LegacyEntry(LastHash(l), id)
           more == Append(l, e)
<1>1. e \in LogEntries
  BY LastIsLast, HashIsTyped DEF LegacyEntry, LogEntries
<1>2. /\ e.form = "legacy" /\ e.prev = LastHash(l) /\ e.id = id
      /\ e.hash = Hash("legacy", e.prev, e.id)
  BY DEF LegacyEntry
<1> HIDE DEF e
<1>3. /\ more \in Seq(LogEntries) /\ Len(more) = Len(l) + 1 /\ more[Len(l) + 1] = e
      /\ \A i \in 1..Len(l) : more[i] = l[i]
  BY <1>1
<1>4. ASSUME Unbroken(l), NEW i \in 1..Len(more)
      PROVE  /\ more[i].form = "legacy"
             /\ more[i].hash = Hash("legacy", more[i].prev, more[i].id)
             /\ more[i].prev = IF i = 1 THEN <<>> ELSE more[i - 1].hash
  <2>1. Len(l) \in Nat
    OBVIOUS
  <2>2. CASE i \in 1..Len(l)
    <3>1. more[i] = l[i] /\ (i # 1 => i - 1 \in 1..Len(l) /\ more[i - 1] = l[i - 1])
      BY <1>3, <2>1, <2>2
    <3> QED
      BY <1>4, <2>2, <3>1 DEF Unbroken
  <2>3. CASE i = Len(l) + 1
    <3>0. Len(l) = 0 <=> l = <<>>
      BY <2>1, LastIsLast
    <3>1. more[i] = e
      BY <1>3, <2>3
    <3>2. CASE l = <<>>
      <4>0. LastHash(l) = <<>> /\ Len(l) = 0
        BY <3>2, LastIsLast
      <4>1. i = 1 /\ e.prev = <<>>
        BY <1>2, <2>3, <4>0
      <4> QED
        BY <1>2, <3>1, <4>1
    <3>3. CASE l # <<>>
      <4>1. i # 1 /\ i - 1 = Len(l) /\ Len(l) \in 1..Len(l)
        BY <2>1, <2>3, <3>3, LastIsLast
      <4>2. more[i - 1] = l[Len(l)]
        BY <1>3, <4>1
      <4> QED
        BY <1>2, <3>1, <3>3, <4>1, <4>2, LastIsLast
    <3> QED
      BY <3>2, <3>3
  <2> QED
    BY <1>3, <2>1, <2>2, <2>3
<1> HIDE DEF more
<1>5. Unbroken(l) => Unbroken(more)
  BY <1>4 DEF Unbroken
<1> QED
  BY <1>3, <1>5 DEF more, e

LEMMA LogStarts == ChainInit => LogInv
<1> SUFFICES ASSUME ChainInit PROVE LogInv
  OBVIOUS
<1>1. <<>> \in LogHashes /\ "first" \in EntryIds
  BY DEF LogHashes, EntryIds
<1>2. EngineEntry(<<>>, "first") \in LogEntries
  BY <1>1, HashIsTyped DEF EngineEntry, LogEntries
<1>3. entries \in Seq(LogEntries) /\ (~inherited => entries = <<>>) /\ inherited \in BOOLEAN
  BY <1>2 DEF ChainInit
<1>4. \A a \in Appends : append[a] = Idle
  BY DEF ChainInit
<1>5. LogTyped
  BY <1>3, <1>4, LogAssumption DEF LogTyped, ChainInit, Idle
<1>6. Unbroken(<<>>)
  BY DEF Unbroken
<1>7. \A a \in Appends : append[a].entries = <<>>
  BY <1>4 DEF Idle
<1> QED
  BY <1>3, <1>5, <1>6, <1>7 DEF LogInv

\* Reading a log leaves a legacy log as it is.
LEMMA ReadsAsIs ==
    ASSUME NEW l \in Seq(LogEntries)
    PROVE  Read(l) \in Seq(LogEntries) /\ (Unbroken(l) => Unbroken(Read(l)))
<1>1. DOMAIN l = 1..Len(l) /\ Len(l) \in Nat
  OBVIOUS
<1>2. \A i \in 1..Len(l) : /\ Read(l)[i] \in LogEntries /\ Read(l)[i] = [l[i] EXCEPT !.form = "legacy"]
                           /\ Read(l)[i].prev = l[i].prev /\ Read(l)[i].hash = l[i].hash
                           /\ Read(l)[i].id = l[i].id /\ Read(l)[i].form = "legacy"
  <2> SUFFICES ASSUME NEW i \in 1..Len(l)
               PROVE  /\ Read(l)[i] \in LogEntries /\ Read(l)[i] = [l[i] EXCEPT !.form = "legacy"]
                      /\ Read(l)[i].prev = l[i].prev /\ Read(l)[i].hash = l[i].hash
                      /\ Read(l)[i].id = l[i].id /\ Read(l)[i].form = "legacy"
    OBVIOUS
  <2>1. Read(l)[i] = [l[i] EXCEPT !.form = "legacy"]
    BY <1>1 DEF Read, FromEngineEntry
  <2>2. PICK e \in LogEntries : e = l[i]
    BY <1>1
  <2>3. Read(l)[i] = [e EXCEPT !.form = "legacy"]
    BY <2>1, <2>2
  <2> QED
    BY <2>2, <2>3 DEF LogEntries
<1>3. Read(l) = [i \in 1..Len(l) |-> Read(l)[i]]
  BY <1>1 DEF Read
<1>4. Read(l) \in Seq(LogEntries) /\ Len(Read(l)) = Len(l)
  BY <1>1, <1>2, <1>3
<1>5. PICK r \in Seq(LogEntries) : r = Read(l) /\ Len(r) = Len(l)
  BY <1>4
<1>6. \A i \in 1..Len(l) : /\ r[i].prev = l[i].prev /\ r[i].hash = l[i].hash
                           /\ r[i].id = l[i].id /\ r[i].form = "legacy" /\ l[i].id \in EntryIds
  BY <1>1, <1>2, <1>5 DEF LogEntries
<1>7. ASSUME Unbroken(l), NEW i \in 1..Len(r)
      PROVE  /\ r[i].form = "legacy"
             /\ r[i].hash = Hash("legacy", r[i].prev, r[i].id)
             /\ r[i].prev = IF i = 1 THEN <<>> ELSE r[i - 1].hash
  <2>1. i \in 1..Len(l) /\ (i # 1 => i - 1 \in 1..Len(l))
    BY <1>1, <1>5
  <2>2. l[i].form = "legacy" /\ l[i].hash = Hash("legacy", l[i].prev, l[i].id)
    BY <1>7, <2>1 DEF Unbroken
  <2>3. l[i].prev = IF i = 1 THEN <<>> ELSE l[i - 1].hash
    BY <1>7, <2>1 DEF Unbroken
  <2>4. r[i].hash = Hash("legacy", r[i].prev, r[i].id) /\ r[i].form = "legacy"
    BY <1>6, <2>1, <2>2
  <2>5. r[i].prev = IF i = 1 THEN <<>> ELSE r[i - 1].hash
    BY <1>6, <2>1, <2>3
  <2> QED
    BY <2>4, <2>5
<1>8. Unbroken(l) => Unbroken(r)
  BY <1>7 DEF Unbroken
<1> QED
  BY <1>4, <1>5, <1>8

\* What an append that ends leaves.
LEMMA PutKeeps ==
    ASSUME LogInv, NEW a \in Appends, append[a].at = "read", version' = version + 1,
           entries' = Append(append[a].entries, Linked(a)),
           NEW at \in {"done", "failed"}, append' = [append EXCEPT ![a].at = at],
           UNCHANGED <<inherited, others>>
    PROVE  LogInv'
<1>1. a \in EntryIds /\ append[a].entries \in Seq(LogEntries)
  BY DEF EntryIds, LogInv, LogTyped
<1>2. entries' \in Seq(LogEntries) /\ (Unbroken(append[a].entries) => Unbroken(entries'))
  BY <1>1, AppendedEntry DEF Linked
<1>3. \A b \in Appends : append'[b].entries = append[b].entries
  BY DEF LogInv, LogTyped
<1>4. LogTyped'
  <2>0. version \in Nat /\ \A b \in Appends : append[b].version \in Nat /\ append[b].version <= version
    BY DEF LogInv, LogTyped
  <2>1. \A b \in Appends : append[b].version <= version'
    BY <2>0
  <2>2. \A b \in Appends : /\ append'[b].version = append[b].version
                           /\ append'[b].at = IF b = a THEN at ELSE append[b].at
                           /\ append'[b].tries = append[b].tries
    BY DEF LogInv, LogTyped
  <2>3. append' \in [Appends -> [at : {"idle", "read", "conflict", "done", "failed"}, version : Nat,
                                 entries : Seq(LogEntries), tries : 0..MaxTries]]
    BY DEF LogInv, LogTyped
  <2>4. version' \in Nat /\ others' \in 0..MaxEdits /\ inherited' \in BOOLEAN
    BY DEF LogInv, LogTyped
  <2>5. \A b \in Appends : append'[b].at \in {"idle", "read", "conflict"} => append'[b].tries < MaxTries
    BY <2>2 DEF LogInv, LogTyped
  <2>6. \A b \in Appends : append'[b].version <= version'
    BY <2>1, <2>2
  <2> QED
    BY <1>2, <2>3, <2>4, <2>5, <2>6 DEF LogTyped
<1>5. ~inherited' => Unbroken(entries') /\ \A b \in Appends : Unbroken(append'[b].entries)
  BY <1>2, <1>3 DEF LogInv
<1> QED
  BY <1>4, <1>5 DEF LogInv

LEMMA LogSteps == LogInv /\ [ChainNext]_chainVars => LogInv'
<1> SUFFICES ASSUME LogInv, [ChainNext]_chainVars PROVE LogInv'
  OBVIOUS
<1>1. ASSUME NEW a \in Appends, ReadBlob(a) PROVE LogInv'
  <2>1. PICK l \in Seq(LogEntries) : l = Read(entries)
    BY ReadsAsIs DEF LogInv, LogTyped
  <2>2. append' = [append EXCEPT ![a] = [at |-> "read", version |-> version, entries |-> l, tries |-> append[a].tries]]
    BY <1>1, <2>1 DEF ReadBlob
  <2>3. LogTyped'
    BY <1>1, <2>2 DEF ReadBlob, LogInv, LogTyped
  <2>4. \A b \in Appends : append'[b].entries = IF b = a THEN l ELSE append[b].entries
    BY <2>2 DEF LogInv, LogTyped
  <2>5. UNCHANGED <<entries, inherited>>
    BY <1>1 DEF ReadBlob
  <2>6. ~inherited => Unbroken(l)
    BY <2>1, ReadsAsIs DEF LogInv, LogTyped
  <2> QED
    BY <2>3, <2>4, <2>5, <2>6 DEF LogInv
<1>2. ASSUME NEW a \in Appends, GiveUp(a) PROVE LogInv'
  <2>1. LogTyped'
    BY <1>2 DEF GiveUp, LogInv, LogTyped
  <2>2. \A b \in Appends : append'[b].entries = append[b].entries
    BY <1>2 DEF GiveUp, LogInv, LogTyped
  <2> QED
    BY <1>2, <2>1, <2>2 DEF GiveUp, LogInv
<1>3. ASSUME NEW a \in Appends, Put(a) PROVE LogInv'
  <2>1. CASE append[a].version = version
    <3>1. "done" \in {"done", "failed"}
      OBVIOUS
    <3> QED
      BY <1>3, <2>1, <3>1, PutKeeps DEF Put
  <2>2. CASE append[a].version # version
    <3>0. PICK at \in {"conflict", "failed"} :
            /\ at = "conflict" => append[a].tries + 1 # MaxTries
            /\ append' = [append EXCEPT ![a].at = at, ![a].tries = append[a].tries + 1]
      BY <1>3, <2>2 DEF Put
    <3>1. UNCHANGED <<version, entries, inherited, others>>
      BY <1>3, <2>2 DEF Put
    <3>2. /\ append[a].tries \in 0..MaxTries /\ append[a].tries < MaxTries
          /\ \A b \in Appends : append[b] \in [at : {"idle", "read", "conflict", "done", "failed"}, version : Nat,
                                               entries : Seq(LogEntries), tries : 0..MaxTries]
      BY <1>3 DEF Put, LogInv, LogTyped
    <3>3. append' = [append EXCEPT ![a] = [append[a] EXCEPT !.at = at, !.tries = append[a].tries + 1]]
      BY <3>0
    <3>4. PICK e : e = [append[a] EXCEPT !.at = at, !.tries = append[a].tries + 1]
      OBVIOUS
    <3>3a. append[a].tries + 1 \in 0..MaxTries
      BY <3>2, LogAssumption
    <3>5. /\ e \in [at : {"idle", "read", "conflict", "done", "failed"}, version : Nat,
                    entries : Seq(LogEntries), tries : 0..MaxTries]
          /\ e.version = append[a].version /\ e.entries = append[a].entries
          /\ e.tries = append[a].tries + 1 /\ e.at = at
      BY <3>2, <3>4, <3>3a
    <3>6. append' = [append EXCEPT ![a] = e]
      BY <3>3, <3>4
    <3>7. \A b \in Appends : append'[b] = IF b = a THEN e ELSE append[b]
      BY <3>6 DEF LogInv, LogTyped
    <3>8. append' \in [Appends -> [at : {"idle", "read", "conflict", "done", "failed"}, version : Nat,
                                   entries : Seq(LogEntries), tries : 0..MaxTries]]
      BY <3>5, <3>6 DEF LogInv, LogTyped
    <3>9. e.version <= version /\ (e.at = "conflict" => e.tries < MaxTries) /\ e.at \notin {"idle", "read"}
      BY <3>0, <3>2, <3>5, LogAssumption DEF LogInv, LogTyped
    <3>10. LogTyped'
      BY <3>1, <3>7, <3>8, <3>9 DEF LogInv, LogTyped
    <3>11. \A b \in Appends : append'[b].entries = append[b].entries
      BY <3>5, <3>7
    <3> QED
      BY <3>1, <3>10, <3>11 DEF LogInv
  <2> QED
    BY <2>1, <2>2
<1>4. ASSUME NEW a \in Appends, PutUnanswered(a) PROVE LogInv'
  BY <1>4, PutKeeps DEF PutUnanswered
<1>5. CASE OtherEdit
  <2>1. \A a \in Appends : append[a].version \in Nat /\ append[a].version <= version /\ version \in Nat
    BY DEF LogInv, LogTyped
  <2>2. others' \in 0..MaxEdits /\ version' \in Nat /\ \A a \in Appends : append[a].version <= version'
    BY <1>5, <2>1, LogAssumption DEF OtherEdit, LogInv, LogTyped
  <2>3. LogTyped'
    BY <1>5, <2>2 DEF OtherEdit, LogInv, LogTyped
  <2> QED
    BY <1>5, <2>3 DEF OtherEdit, LogInv
<1>6. CASE UNCHANGED chainVars
  BY <1>6 DEF chainVars, LogInv, LogTyped
<1> QED
  BY <1>1, <1>2, <1>3, <1>4, <1>5, <1>6 DEF ChainNext

\* What holds of 0 and is passed on holds up to n.
LEMMA UpTo ==
    ASSUME NEW n \in Nat, NEW P, 0 \in P, \A k \in 0..n : k # n /\ k \in P => k + 1 \in P
    PROVE  0..n \subseteq P
<1> DEFINE T == {k \in 0..n : k \notin P}
<1>1. ASSUME T # {} PROVE FALSE
  <2>1. PICK k \in T : \A j \in T : k <= j
    <3>1. T \subseteq Nat
      OBVIOUS
    <3> HIDE DEF T
    <3> QED
      BY <1>1, <3>1, LeastOf
  <2>2. k \in 0..n /\ k # 0 /\ k \notin P
    OBVIOUS
  <2>3. k - 1 \in 0..n /\ k - 1 # n /\ (k - 1) + 1 = k /\ k - 1 < k
    BY <2>2
  <2>4. k - 1 \in P
    BY <2>1, <2>3
  <2> QED
    BY <2>2, <2>3, <2>4
<1> QED
  BY <1>1

\* Entries that are linked each to the one before are not broken.
LEMMA LinksHold ==
    ASSUME NEW l \in Seq(LogEntries),
           \A i \in 1..Len(l) : /\ l[i].hash = Hash(l[i].form, l[i].prev, l[i].id)
                                /\ l[i].prev = IF i = 1 THEN <<>> ELSE l[i - 1].hash
    PROVE  BrokenAt(l) = {}
<1> SUFFICES ASSUME NEW i \in DOMAIN l PROVE l[i].prev = LastHash(SubSeq(l, 1, i - 1))
  BY DEF BrokenAt
<1>1. i \in 1..Len(l) /\ Len(l) \in Nat
  OBVIOUS
<1>2. CASE i = 1
  <2>1. SubSeq(l, 1, i - 1) = <<>>
    BY <1>2
  <2> QED
    BY <1>1, <1>2, <2>1 DEF LastHash
<1>3. CASE i # 1
  <2>1. PICK s : s = SubSeq(l, 1, i - 1)
    OBVIOUS
  <2>2. s # <<>> /\ Len(s) = i - 1 /\ s[i - 1] = l[i - 1]
    BY <1>1, <1>3, <2>1
  <2>3. LastHash(s) = l[i - 1].hash
    BY <2>2 DEF LastHash, Last
  <2> QED
    BY <1>1, <1>3, <2>1, <2>3
<1> QED
  BY <1>2, <1>3

\* r is what is reached from i, link by link.
Reaches(r, m, i) ==
    r = [n \in 0..Len(m) |-> IF n = 0 THEN {i} ELSE r[n - 1] \cup UNION {Before(m, j) : j \in r[n - 1]}]

\* p puts n entries in the order of their places q.
Ordered(p, q, n) ==
    /\ p \in [1..n -> 1..n] /\ q \in [1..n -> 1..n]
    /\ \A i \in 1..n : q[p[i]] = i /\ p[q[i]] = i

\* Where the links lead from each entry to the one before, they lead from the last to all.
LEMMA WalkIsWhole ==
    ASSUME NEW n \in Nat \ {0}, NEW m, Len(m) = n, NEW p, NEW q, Ordered(p, q, n),
           \A j \in 1..n : Before(m, j) = IF q[j] = 1 THEN {} ELSE {p[q[j] - 1]}
    PROVE  Walk(m, p[n]) = 1..n
<1> DEFINE From(k) == {j \in 1..n : q[j] >= n - k}
           full == [k \in 0..n |-> From(k)]
<1>1. /\ n \in 1..n /\ p[n] \in 1..n /\ q[p[n]] = n
      /\ \A j \in 1..n : q[j] \in 1..n /\ p[j] \in 1..n /\ q[p[j]] = j /\ p[q[j]] = j
  BY DEF Ordered
<1>2. From(0) = {p[n]}
  <2>1. p[n] \in From(0)
    BY <1>1
  <2>2. ASSUME NEW j \in From(0) PROVE j = p[n]
    <3>1. q[j] = n
      BY <1>1
    <3> QED
      BY <1>1, <3>1
  <2> QED
    BY <2>1, <2>2
<1>3. ASSUME NEW k \in 1..n
      PROVE  From(k) = From(k - 1) \cup UNION {Before(m, j) : j \in From(k - 1)}
  <2>1. ASSUME NEW j \in From(k) PROVE j \in From(k - 1) \cup UNION {Before(m, i) : i \in From(k - 1)}
    <3>1. CASE q[j] >= n - (k - 1)
      BY <3>1
    <3>2. CASE q[j] = n - k
      <4>1. q[j] + 1 \in 1..n /\ n - (k - 1) = q[j] + 1
        BY <1>1, <3>2
      <4>2. PICK i \in 1..n : i = p[q[j] + 1]
        BY <1>1, <4>1
      <4>3. q[i] = q[j] + 1
        BY <1>1, <4>1, <4>2
      <4>4. i \in From(k - 1)
        BY <4>1, <4>3, <1>1
      <4>5. q[i] # 1 /\ q[i] - 1 = q[j]
        <5>1. q[j] \in 1..n
          BY <1>1
        <5> QED
          BY <4>3, <5>1
      <4>6. Before(m, i) = {j}
        BY <1>1, <4>5
      <4> QED
        BY <4>4, <4>6
    <3> QED
      BY <1>1, <3>1, <3>2
  <2>2. ASSUME NEW j \in From(k - 1) PROVE j \in From(k) /\ Before(m, j) \subseteq From(k)
    <3>1. q[j] \in 1..n /\ q[j] >= n - (k - 1)
      BY <1>1
    <3>2. j \in From(k)
      BY <3>1
    <3>3. CASE q[j] = 1
      BY <3>2, <3>3
    <3>4. CASE q[j] # 1
      <4>1. q[j] - 1 \in 1..n
        BY <3>1, <3>4
      <4>2. PICK i \in 1..n : i = p[q[j] - 1]
        BY <1>1, <4>1
      <4>3. q[i] = q[j] - 1
        BY <1>1, <4>1, <4>2
      <4>4. i \in From(k)
        BY <3>1, <4>3
      <4> QED
        BY <3>2, <3>4, <4>2, <4>4
    <3> QED
      BY <3>3, <3>4
  <2> HIDE DEF From
  <2> QED
    BY <2>1, <2>2
<1> HIDE DEF From
<1>4. Reaches(full, m, p[n])
  <2>1. ASSUME NEW k \in 0..n
        PROVE  full[k] = IF k = 0 THEN {p[n]} ELSE full[k - 1] \cup UNION {Before(m, j) : j \in full[k - 1]}
    <3>1. CASE k = 0
      BY <1>2, <3>1
    <3>2. CASE k # 0
      <4>1. k \in 1..n /\ k - 1 \in 0..n
        BY <3>2
      <4>2. full[k] = From(k) /\ full[k - 1] = From(k - 1)
        BY <4>1
      <4> HIDE DEF full
      <4> QED
        BY <1>3, <3>2, <4>1, <4>2
    <3> QED
      BY <3>1, <3>2
  <2>2. full = [k \in 0..n |-> full[k]]
    OBVIOUS
  <2> HIDE DEF full
  <2> QED
    BY <2>1, <2>2 DEF Reaches
<1> DEFINE r == CHOOSE g : Reaches(g, m, p[n])
<1>5. Reaches(r, m, p[n])
  BY <1>4
<1>6. Walk(m, p[n]) = r[n]
  BY DEF Walk, Reaches
<1> HIDE DEF r, full
<1>7. /\ r[0] = {p[n]}
      /\ \A k \in 0..n : k # n => r[k + 1] = r[k] \cup UNION {Before(m, j) : j \in r[k]}
  <2>1. \A k \in 0..n : r[k] = IF k = 0 THEN {p[n]} ELSE r[k - 1] \cup UNION {Before(m, j) : j \in r[k - 1]}
    BY <1>5 DEF Reaches
  <2>2. ASSUME NEW k \in 0..n, k # n PROVE r[k + 1] = r[k] \cup UNION {Before(m, j) : j \in r[k]}
    <3>1. PICK i \in 0..n : i = k + 1
      BY <2>2
    <3>2. i # 0 /\ i - 1 = k
      BY <3>1
    <3>3. r[i] = r[i - 1] \cup UNION {Before(m, j) : j \in r[i - 1]}
      BY <2>1, <3>2
    <3> QED
      BY <3>1, <3>2, <3>3
  <2>3. r[0] = {p[n]}
    <3>1. 0 \in 0..n
      OBVIOUS
    <3> QED
      BY <2>1, <3>1
  <2> QED
    BY <2>2, <2>3
<1> DEFINE P == {k \in 0..n : r[k] = From(k)}
<1>8. 0 \in P
  <2>1. r[0] = From(0) /\ 0 \in 0..n
    BY <1>2, <1>7
  <2> QED
    BY <2>1
<1>9. ASSUME NEW k \in 0..n, k # n, k \in P PROVE k + 1 \in P
  <2>1. k + 1 \in 1..n /\ k + 1 \in 0..n /\ (k + 1) - 1 = k
    BY <1>9
  <2>2. r[k] = From(k)
    BY <1>9
  <2>3. r[k + 1] = From(k) \cup UNION {Before(m, j) : j \in From(k)}
    BY <1>7, <1>9, <2>2
  <2>4. PICK i \in 1..n : i = k + 1
    BY <2>1
  <2>5. From(i) = From(i - 1) \cup UNION {Before(m, j) : j \in From(i - 1)} /\ i - 1 = k
    BY <1>3, <2>1, <2>4
  <2>6. r[k + 1] = From(k + 1)
    BY <2>3, <2>4, <2>5
  <2> QED
    BY <2>1, <2>6
<1>10. 0..n \subseteq P
  <2> HIDE DEF P
  <2> QED
    BY <1>8, <1>9, UpTo
<1>11. r[n] = From(n)
  BY <1>10
<1>12. From(n) = 1..n
  BY <1>1 DEF From
<1> QED
  BY <1>6, <1>11, <1>12

\* Entries of the engine over the hashes h, each at the place q gives it.
EngineAt(m, h, q, n) ==
    /\ DOMAIN m = 1..n /\ Len(m) = n
    /\ \A j \in 1..n : /\ m[j].prev = h[q[j] - 1] /\ m[j].hash = h[q[j]]
                       /\ m[j].hash = Hash("engine", m[j].prev, m[j].id)

\* Hashes over 0, 1, 2, ... entries: those over none are empty, and no two are the same.
Growing(h, n) ==
    /\ h[0] = <<>>
    /\ \A j \in 0..n, k \in 0..n : h[j] = h[k] => j = k

\* In whatever order its entries are given, a chain holds.
LEMMA OrderedHolds ==
    ASSUME NEW n \in Nat \ {0}, NEW m, NEW h, NEW p, NEW q,
           Ordered(p, q, n), Growing(h, n), EngineAt(m, h, q, n)
    PROVE  ChainHolds(m)
<1>1. /\ n \in 1..n /\ p[n] \in 1..n /\ q[p[n]] = n
      /\ \A j \in 1..n : q[j] \in 1..n /\ p[j] \in 1..n /\ q[p[j]] = j /\ p[q[j]] = j
  BY DEF Ordered
<1>2. ASSUME NEW j \in 1..n PROVE Before(m, j) = IF q[j] = 1 THEN {} ELSE {p[q[j] - 1]}
  <2>1. q[j] \in 1..n /\ q[j] - 1 \in 0..n /\ 0 \in 0..n
    BY <1>1
  <2>2. m[j].prev = <<>> <=> q[j] - 1 = 0
    BY <2>1 DEF EngineAt, Growing
  <2>3. ASSUME NEW i \in 1..n PROVE m[i].hash = m[j].prev <=> q[i] = q[j] - 1
    <3>1. q[i] \in 0..n /\ q[j] - 1 \in 0..n
      BY <1>1, <2>1
    <3> QED
      BY <3>1 DEF EngineAt, Growing
  <2>4. Before(m, j) = {i \in 1..n : q[j] # 1 /\ q[i] = q[j] - 1}
    BY <2>1, <2>2, <2>3 DEF Before, EngineAt
  <2>5. CASE q[j] = 1
    BY <2>4, <2>5
  <2>6. CASE q[j] # 1
    <3>1. q[j] - 1 \in 1..n
      BY <2>1, <2>6
    <3>2. PICK k \in 1..n : k = q[j] - 1
      BY <3>1
    <3>3. \A i \in 1..n : q[i] = k <=> i = p[k]
      BY <1>1, <3>2
    <3> QED
      BY <1>1, <2>4, <2>6, <3>2, <3>3
  <2> QED
    BY <2>5, <2>6
<1>3. Walk(m, p[n]) = 1..n
  BY <1>2, WalkIsWhole DEF EngineAt
<1>4. Heads(m) = {p[n]}
  <2>1. ASSUME NEW i \in 1..n, NEW j \in 1..n PROVE m[j].prev = <<>> \/ m[j].prev # m[i].hash <=> q[j] # q[i] + 1
    <3>1. q[i] \in 1..n /\ q[j] \in 1..n /\ q[j] - 1 \in 0..n /\ q[i] \in 0..n /\ 0 \in 0..n
      BY <1>1
    <3>2. m[j].prev = <<>> <=> q[j] - 1 = 0
      BY <3>1 DEF EngineAt, Growing
    <3>3. m[j].prev = m[i].hash <=> q[j] - 1 = q[i]
      BY <3>1 DEF EngineAt, Growing
    <3> QED
      BY <3>1, <3>2, <3>3
  <2>2. Heads(m) = {i \in 1..n : \A j \in 1..n : q[j] # q[i] + 1}
    BY <2>1 DEF Heads, EngineAt
  <2>3. \A j \in 1..n : q[j] # q[p[n]] + 1
    BY <1>1
  <2>4. ASSUME NEW i \in 1..n, i # p[n] PROVE \E j \in 1..n : q[j] = q[i] + 1
    <3>1. q[i] # n /\ q[i] \in 1..n
      BY <1>1, <2>4
    <3>2. PICK k \in 1..n : k = q[i] + 1
      BY <3>1
    <3> QED
      BY <1>1, <3>2
  <2> QED
    BY <1>1, <2>2, <2>3, <2>4
<1>5. \A j \in 1..n : m[j].prev = <<>> \/ Before(m, j) # {}
  <2> SUFFICES ASSUME NEW j \in 1..n, m[j].prev # <<>> PROVE Before(m, j) # {}
    OBVIOUS
  <2>1. q[j] # 1
    BY DEF EngineAt, Growing
  <2> QED
    BY <1>2, <2>1
<1>6. p[n] \in DOMAIN m
  BY <1>1 DEF EngineAt
<1> QED
  BY <1>3, <1>4, <1>5, <1>6 DEF ChainHolds, EngineAt

\* Without an entry that others follow, a chain does not hold.
LEMMA RemovedBreaks ==
    ASSUME NEW n \in Nat \ {0}, NEW l \in Seq(LogEntries), NEW h, NEW i \in 1..n, i < n,
           Growing(h, n), EngineAt(l, h, [k \in 1..n |-> k], n)
    PROVE  ~ChainHolds(RemoveAt(l, i))
<1> DEFINE m == RemoveAt(l, i)
           Rank(k) == IF k < i THEN k ELSE k + 1
<1>1. Len(l) = n /\ \A k \in 1..n : l[k].prev = h[k - 1] /\ l[k].hash = h[k]
  BY DEF EngineAt
<1>2. /\ DOMAIN m = 1..(n - 1) /\ Len(m) = n - 1
      /\ \A k \in 1..(n - 1) : m[k] = l[Rank(k)]
  <2>1. PICK s : s = SubSeq(l, 1, i - 1)
    OBVIOUS
  <2>1a. s \in Seq(LogEntries) /\ Len(s) = i - 1 /\ \A k \in 1..(i - 1) : s[k] = l[k]
    BY <1>1, <2>1
  <2>2. PICK t : t = SubSeq(l, i + 1, n)
    OBVIOUS
  <2>2a. t \in Seq(LogEntries) /\ Len(t) = n - i /\ \A k \in 1..(n - i) : t[k] = l[k + i]
    BY <1>1, <2>2
  <2>3. m = s \o t
    BY <1>1, <2>1, <2>2 DEF RemoveAt
  <2>4. Len(m) = n - 1 /\ DOMAIN m = 1..(n - 1)
    <3>1. s \o t \in Seq(LogEntries) /\ Len(s \o t) = Len(s) + Len(t)
      BY <2>1a, <2>2a, ConcatProperties, Zenon
    <3>2. (i - 1) + (n - i) = n - 1
      OBVIOUS
    <3>3. Len(s \o t) = n - 1
      BY <2>1a, <2>2a, <3>1, <3>2
    <3>4. DOMAIN (s \o t) = 1..(n - 1)
      BY <3>1, <3>3
    <3> HIDE DEF m
    <3> QED
      BY <2>3, <3>3, <3>4
  <2>5. ASSUME NEW k \in 1..(n - 1) PROVE m[k] = l[Rank(k)]
    <3>1. CASE k < i
      BY <2>1a, <2>2a, <2>3, <3>1
    <3>2. CASE ~(k < i)
      <4>1. PICK j \in 1..(n - i) : j = k - (i - 1) /\ j + i = k + 1
        BY <3>2
      <4>2. (s \o t)[k] = t[j]
        BY <2>1a, <2>2a, <3>2, <4>1
      <4>3. t[j] = l[j + i]
        BY <2>2a
      <4> QED
        BY <2>3, <3>2, <4>1, <4>2, <4>3
    <3> QED
      BY <3>1, <3>2
  <2> QED
    BY <2>4, <2>5
<1> HIDE DEF m
<1>3. \A k \in 1..(n - 1) : /\ Rank(k) \in 1..n /\ Rank(k) # i
                            /\ m[k].prev = h[Rank(k) - 1] /\ m[k].hash = h[Rank(k)]
  BY <1>1, <1>2
<1>4. \A w \in 0..n, v \in 0..n : h[w] = h[v] <=> w = v
  BY DEF Growing
<1>5. h[0] = <<>>
  BY DEF Growing
<1>6. n - 1 \in 1..(n - 1) /\ m # <<>>
  BY <1>2
<1>7. ASSUME NEW k \in 1..(n - 1), \A j \in 1..(n - 1) : Rank(j) # Rank(k) + 1
      PROVE  k \in Heads(m)
  <2>1. ASSUME NEW j \in 1..(n - 1) PROVE m[j].prev # m[k].hash
    <3>1. PICK v : v = Rank(j) /\ v \in 1..n /\ m[j].prev = h[v - 1]
      BY <1>3
    <3>2. PICK w : w = Rank(k) /\ w \in 1..n /\ m[k].hash = h[w]
      BY <1>3
    <3>3. v # w + 1
      BY <1>7, <3>1, <3>2
    <3>4. v - 1 \in 0..n /\ w \in 0..n /\ v - 1 # w
      BY <3>1, <3>2, <3>3
    <3> QED
      BY <1>4, <3>1, <3>2, <3>4
  <2> QED
    BY <1>2, <2>1 DEF Heads
<1>8. n - 1 \in Heads(m)
  BY <1>3, <1>6, <1>7
<1>9. ASSUME i # 1 PROVE ~ChainHolds(m)
  <2>1. i - 1 \in 1..(n - 1) /\ i - 1 # n - 1 /\ Rank(i - 1) + 1 = i
    BY <1>9
  <2>2. i - 1 \in Heads(m)
    BY <1>3, <1>7, <2>1
  <2>3. \A k : Heads(m) # {k}
    BY <1>8, <2>1, <2>2
  <2> QED
    BY <1>6, <2>3 DEF ChainHolds
<1>10. ASSUME i = 1 PROVE ~ChainHolds(m)
  <2> DEFINE q == [k \in 1..(n - 1) |-> k]
  <2>1. n - 1 \in Nat \ {0} /\ Ordered(q, q, n - 1) /\ q[n - 1] = n - 1
    BY DEF Ordered
  <2>2. \A k \in 1..(n - 1) : m[k].prev = h[k] /\ m[k].hash = h[k + 1] /\ k \in 0..n /\ k + 1 \in 0..n
    BY <1>3, <1>10
  <2>3. \A k \in 1..(n - 1) : m[k].prev # <<>>
    <3>1. 0 \in 0..n
      OBVIOUS
    <3> QED
      BY <1>4, <1>5, <2>2, <3>1
  <2>4. ASSUME NEW j \in 1..(n - 1) PROVE Before(m, j) = {k \in 1..(n - 1) : k + 1 = j}
    <3>1. \A k \in 1..(n - 1) : m[k].hash = m[j].prev <=> k + 1 = j
      BY <1>4, <2>2
    <3> QED
      BY <1>2, <2>3, <3>1 DEF Before
  <2>5. ASSUME NEW j \in 1..(n - 1) PROVE Before(m, j) = IF q[j] = 1 THEN {} ELSE {q[q[j] - 1]}
    <3>1. CASE j = 1
      BY <2>4, <3>1
    <3>2. CASE j # 1
      <4>1. PICK k1x \in 1..(n - 1) : k1x = j - 1
        BY <3>2
      <4>2. Before(m, j) = {k1x} /\ q[j] = j /\ q[k1x] = k1x
        BY <2>4, <4>1
      <4> QED
        BY <3>2, <4>1, <4>2
    <3> QED
      BY <3>1, <3>2
  <2>6. Before(m, 1) = {} /\ 1 \in 1..(n - 1)
    BY <2>4, <1>6
  <2> HIDE DEF q
  <2>7. Walk(m, n - 1) = 1..(n - 1)
    BY <1>2, <2>1, <2>5, WalkIsWhole
  <2>8. ASSUME NEW k \in DOMAIN m, Heads(m) = {k}
        PROVE  \E j \in Walk(m, k) : m[j].prev # <<>> /\ Before(m, j) = {}
    <3>1. k = n - 1
      BY <1>8, <2>8
    <3> QED
      BY <2>3, <2>6, <2>7, <3>1
  <2> QED
    BY <1>6, <2>8 DEF ChainHolds
<1> QED
  BY <1>9, <1>10 DEF m

\* The hash of the engine over the first k entries.
EngineHash == [k \in 0..Len(entries) |-> [j \in 1..k |-> <<"engine", entries[j].id>>]]

\* The first k entries as the engine writes them.
EngineLog == [k \in 0..Len(entries) |-> [j \in 1..k |-> EngineEntry(EngineHash[j - 1], entries[j].id)]]

\* g is what the engine writes entry by entry.
Writes(g) ==
    g = [n \in 0..Len(entries) |->
            IF n = 0 THEN <<>> ELSE Append(g[n - 1], EngineEntry(LastHash(g[n - 1]), entries[n].id))]

LEMMA HashesGrow ==
    ASSUME LogInv
    PROVE  /\ Len(entries) \in Nat
           /\ \A k \in 1..Len(entries) : entries[k].id \in EntryIds
           /\ \A k \in 0..Len(entries) : EngineHash[k] \in LogHashes /\ Len(EngineHash[k]) = k
           /\ Growing(EngineHash, Len(entries))
           /\ \A k \in 1..Len(entries) : EngineHash[k] = Hash("engine", EngineHash[k - 1], entries[k].id)
<1> DEFINE n == Len(entries)
<1>1. n \in Nat /\ \A k \in 1..n : entries[k].id \in EntryIds
  <2>1. entries \in Seq(LogEntries)
    BY DEF LogInv, LogTyped
  <2>2. n \in Nat /\ \A k \in 1..n : entries[k] \in LogEntries
    BY <2>1
  <2> QED
    BY <2>2 DEF LogEntries
<1>2. \A k \in 0..n : EngineHash[k] = [j \in 1..k |-> <<"engine", entries[j].id>>]
  BY DEF EngineHash
<1> HIDE DEF n
<1>3. ASSUME NEW k \in 0..n PROVE EngineHash[k] \in LogHashes /\ Len(EngineHash[k]) = k
  <2>1. \A j \in 1..k : <<"engine", entries[j].id>> \in {"engine", "legacy"} \X EntryIds
    BY <1>1
  <2> DEFINE f == [j \in 1..k |-> <<"engine", entries[j].id>>]
  <2>2. f \in Seq({"engine", "legacy"} \X EntryIds) /\ Len(f) = k
    BY <1>1, <2>1
  <2>3. EngineHash[k] = f
    BY <1>2
  <2> HIDE DEF f
  <2> QED
    BY <2>2, <2>3 DEF LogHashes
<1>4. EngineHash[0] = <<>>
  <2>1. 0 \in 0..n
    BY <1>1
  <2> QED
    BY <1>3, <2>1 DEF LogHashes
<1>5. Growing(EngineHash, n)
  <2>1. ASSUME NEW j \in 0..n, NEW k \in 0..n, EngineHash[j] = EngineHash[k] PROVE j = k
    BY <1>3, <2>1
  <2> QED
    BY <1>4, <2>1 DEF Growing
<1>6. ASSUME NEW k \in 1..n PROVE EngineHash[k] = Hash("engine", EngineHash[k - 1], entries[k].id)
  <2>1. k \in 0..n /\ k - 1 \in 0..n /\ (k - 1) + 1 = k
    BY <1>1
  <2>2. PICK a : a = EngineHash[k - 1]
    OBVIOUS
  <2>3. PICK b : b = EngineHash[k]
    OBVIOUS
  <2>4. a \in LogHashes /\ Len(a) = k - 1 /\ b \in LogHashes /\ Len(b) = k
    BY <1>3, <2>1, <2>2, <2>3
  <2>5. PICK e : e = <<"engine", entries[k].id>>
    OBVIOUS
  <2>6. e \in {"engine", "legacy"} \X EntryIds
    BY <1>1, <2>5
  <2>7. b[k] = e /\ \A j \in 1..(k - 1) : b[j] = a[j]
    <3>1. a = [j \in 1..(k - 1) |-> <<"engine", entries[j].id>>] /\ b = [j \in 1..k |-> <<"engine", entries[j].id>>]
      BY <1>2, <2>1, <2>2, <2>3
    <3>2. \A j \in 1..(k - 1) : j \in 1..k
      BY <2>1
    <3> QED
      BY <2>1, <2>5, <3>1, <3>2
  <2>8. b = Append(a, e)
    BY <2>1, <2>4, <2>6, <2>7 DEF LogHashes
  <2> QED
    BY <2>2, <2>3, <2>5, <2>8 DEF Hash
<1> QED
  BY <1>1, <1>3, <1>5, <1>6 DEF n

LEMMA EngineLogIs ==
    ASSUME LogInv
    PROVE  /\ \A k \in 0..Len(entries) : /\ EngineLog[k] \in Seq(LogEntries) /\ Len(EngineLog[k]) = k
                                        /\ EngineAt(EngineLog[k], EngineHash, [j \in 1..k |-> j], k)
                                        /\ \A j \in 1..k : EngineLog[k][j].form = "engine"
           /\ EngineLog[0] = <<>>
           /\ \A k \in 1..Len(entries) :
                EngineLog[k] = Append(EngineLog[k - 1],
                                      EngineEntry(LastHash(EngineLog[k - 1]), entries[k].id))
<1> DEFINE n == Len(entries)
           E(j) == EngineEntry(EngineHash[j - 1], entries[j].id)
<1>1. n \in Nat
  BY HashesGrow
<1>2. \A k \in 0..n : EngineLog[k] = [j \in 1..k |-> E(j)]
  BY DEF EngineLog
<1>3. ASSUME NEW j \in 1..n
      PROVE  /\ E(j) \in LogEntries /\ E(j).form = "engine" /\ E(j).prev = EngineHash[j - 1]
             /\ E(j).hash = EngineHash[j] /\ E(j).hash = Hash("engine", E(j).prev, E(j).id)
  <2>1. j - 1 \in 0..n /\ j \in 0..n
    BY <1>1
  <2>2. EngineHash[j - 1] \in LogHashes /\ entries[j].id \in EntryIds /\ EngineHash[j] \in LogHashes
    BY <2>1, HashesGrow
  <2>3. EngineHash[j] = Hash("engine", EngineHash[j - 1], entries[j].id)
    BY HashesGrow
  <2> QED
    BY <2>2, <2>3 DEF EngineEntry, LogEntries
<1> HIDE DEF E, n
<1>4. ASSUME NEW k \in 0..n
      PROVE  /\ EngineLog[k] \in Seq(LogEntries) /\ Len(EngineLog[k]) = k /\ DOMAIN EngineLog[k] = 1..k
             /\ \A j \in 1..k : EngineLog[k][j] = E(j) /\ j \in 1..n
  <2>1. \A j \in 1..k : j \in 1..n
    BY <1>1
  <2>2. PICK f : f = [j \in 1..k |-> E(j)]
    OBVIOUS
  <2>3. f \in Seq(LogEntries) /\ Len(f) = k /\ DOMAIN f = 1..k /\ \A j \in 1..k : f[j] = E(j)
    BY <1>1, <1>3, <2>1, <2>2
  <2>4. EngineLog[k] = f
    BY <1>2, <2>2
  <2> QED
    BY <2>1, <2>3, <2>4
<1>5. ASSUME NEW k \in 0..n PROVE EngineAt(EngineLog[k], EngineHash, [j \in 1..k |-> j], k)
  BY <1>3, <1>4 DEF EngineAt
<1>6. EngineLog[0] = <<>>
  <2>1. 0 \in 0..n
    BY <1>1
  <2> QED
    BY <1>4, <2>1
<1>7. ASSUME NEW k \in 1..n
      PROVE  EngineLog[k] = Append(EngineLog[k - 1], EngineEntry(LastHash(EngineLog[k - 1]), entries[k].id))
  <2>1. k \in 0..n /\ k - 1 \in 0..n /\ (k - 1) + 1 = k
    BY <1>1
  <2>2. PICK a : a = EngineLog[k - 1]
    OBVIOUS
  <2>3. PICK b : b = EngineLog[k]
    OBVIOUS
  <2>4. /\ a \in Seq(LogEntries) /\ Len(a) = k - 1 /\ b \in Seq(LogEntries) /\ Len(b) = k
        /\ \A j \in 1..(k - 1) : a[j] = E(j)
        /\ \A j \in 1..k : b[j] = E(j)
    BY <1>4, <2>1, <2>2, <2>3
  <2>5. LastHash(a) = EngineHash[k - 1]
    <3>1. CASE k = 1
      <4>1. a = <<>>
        BY <2>4, <3>1
      <4>2. EngineHash[0] = <<>>
        BY HashesGrow DEF Growing
      <4>3. LastHash(a) = <<>>
        BY <2>4, <4>1, LastIsLast
      <4> QED
        BY <3>1, <4>2, <4>3
    <3>2. CASE k # 1
      <4>1. k - 1 \in 1..(k - 1) /\ k - 1 \in 1..n /\ a # <<>>
        BY <1>1, <2>4, <3>2
      <4>2. LastHash(a) = a[k - 1].hash
        BY <2>4, <4>1, LastIsLast
      <4> QED
        BY <1>3, <2>4, <4>1, <4>2
    <3> QED
      BY <3>1, <3>2
  <2>6. PICK e \in LogEntries : e = E(k)
    BY <1>3
  <2>7. b = Append(a, e)
    <3>1. b[k] = e /\ \A j \in 1..(k - 1) : b[j] = a[j]
      BY <2>1, <2>4, <2>6
    <3> QED
      BY <2>1, <2>4, <2>6, <3>1
  <2>8. e = EngineEntry(EngineHash[k - 1], entries[k].id)
    BY <2>6 DEF E
  <2> QED
    BY <2>2, <2>3, <2>5, <2>7, <2>8
<1> QED
  BY <1>3, <1>4, <1>5, <1>6, <1>7 DEF n

LEMMA EngineWrites ==
    ASSUME LogInv, NEW g, Writes(g)
    PROVE  g[Len(entries)] = EngineLog[Len(entries)]
<1> DEFINE n == Len(entries)
           P == {k \in 0..n : g[k] = EngineLog[k]}
<1>1. n \in Nat
  BY HashesGrow
<1>2. \A k \in 0..n : g[k] = IF k = 0 THEN <<>> ELSE Append(g[k - 1], EngineEntry(LastHash(g[k - 1]), entries[k].id))
  BY DEF Writes
<1>3. 0 \in P
  BY <1>1, <1>2, EngineLogIs
<1>4. ASSUME NEW k \in 0..n, k # n, k \in P PROVE k + 1 \in P
  <2>1. PICK i \in 1..n : i = k + 1 /\ i - 1 = k /\ i \in 0..n /\ i # 0
    BY <1>1, <1>4
  <2>2. g[i] = Append(g[i - 1], EngineEntry(LastHash(g[i - 1]), entries[i].id))
    BY <1>2, <2>1
  <2>3. EngineLog[i] = Append(EngineLog[i - 1], EngineEntry(LastHash(EngineLog[i - 1]), entries[i].id))
    BY <2>1, EngineLogIs
  <2>4. g[i - 1] = EngineLog[i - 1]
    BY <1>4, <2>1
  <2>5. g[i] = EngineLog[i]
    BY <2>2, <2>3, <2>4
  <2> QED
    BY <2>1, <2>5
<1> HIDE DEF P, n
<1>5. 0..n \subseteq P
  BY <1>1, <1>3, <1>4, UpTo
<1> QED
  BY <1>1, <1>5 DEF P, n

LEMMA EngineIsWritten == ASSUME LogInv PROVE Writes(EngineLog)
<1> DEFINE n == Len(entries)
<1>1. ASSUME NEW k \in 0..n
      PROVE  EngineLog[k] = IF k = 0 THEN <<>>
                            ELSE Append(EngineLog[k - 1], EngineEntry(LastHash(EngineLog[k - 1]), entries[k].id))
  <2>1. CASE k = 0
    BY <2>1, EngineLogIs
  <2>2. CASE k # 0
    <3>1. k \in 1..n
      BY <2>2, HashesGrow
    <3> QED
      BY <2>2, <3>1, EngineLogIs
  <2> QED
    BY <2>1, <2>2
<1>2. EngineLog = [k \in 0..n |-> EngineLog[k]]
  BY DEF EngineLog
<1> QED
  BY <1>1, <1>2 DEF Writes

LEMMA BothVerify == LogInv => VerifiersAgree
<1> SUFFICES ASSUME LogInv PROVE VerifiersAgree
  OBVIOUS
<1> DEFINE n == Len(entries)
           w == CHOOSE g : Writes(g)
<1>1. Writes(w)
  BY EngineIsWritten
<1> HIDE DEF w
<1>2. PICK l : l = w[n]
  OBVIOUS
<1>3. l = EngineLog[n]
  BY <1>1, <1>2, EngineWrites
<1>4. n \in Nat /\ Growing(EngineHash, n) /\ n \in 0..n
  BY HashesGrow
<1>5. /\ l \in Seq(LogEntries) /\ Len(l) = n /\ \A j \in 1..n : l[j].form = "engine"
      /\ EngineAt(l, EngineHash, [j \in 1..n |-> j], n)
  BY <1>3, <1>4, EngineLogIs
<1> HIDE DEF n
<1>6. BrokenAt(l) = {}
  <2>1. ASSUME NEW i \in 1..n
        PROVE  /\ l[i].hash = Hash(l[i].form, l[i].prev, l[i].id)
               /\ l[i].prev = IF i = 1 THEN <<>> ELSE l[i - 1].hash
    <3>1. l[i].prev = EngineHash[i - 1] /\ (i # 1 => i - 1 \in 1..n /\ l[i - 1].hash = EngineHash[i - 1])
      BY <1>4, <1>5 DEF EngineAt
    <3>2. EngineHash[0] = <<>>
      BY <1>4 DEF Growing
    <3> QED
      BY <1>5, <3>1, <3>2 DEF EngineAt
  <2> QED
    BY <1>5, <2>1, LinksHold
<1>7. ChainHolds(l) /\ ChainHolds(Reverse(l))
  <2>1. CASE n = 0
    <3>1. l = <<>>
      BY <1>5, <2>1
    <3>2. Reverse(l) = <<>>
      BY <3>1 DEF Reverse
    <3> QED
      BY <3>1, <3>2 DEF ChainHolds
  <2>2. CASE n # 0
    <3> DEFINE same == [j \in 1..n |-> j]
               back == [j \in 1..n |-> n + 1 - j]
    <3>1. n \in Nat \ {0} /\ Ordered(same, same, n)
      BY <1>4, <2>2 DEF Ordered
    <3>2. Ordered(back, back, n)
      <4>1. \A j \in 1..n : back[j] \in 1..n /\ back[back[j]] = j
        BY <1>4
      <4> QED
        BY <4>1 DEF Ordered
    <3>3. EngineAt(Reverse(l), EngineHash, back, n)
      <4>1. /\ DOMAIN Reverse(l) = 1..n /\ Len(Reverse(l)) = n
            /\ \A j \in 1..n : Reverse(l)[j] = l[back[j]] /\ back[j] \in 1..n
        <5>1. Reverse(l) = [j \in 1..n |-> l[(n - j) + 1]]
          BY <1>5 DEF Reverse
        <5>2. \A j \in 1..n : (n - j) + 1 = back[j] /\ back[j] \in 1..n
          BY <1>4
        <5> HIDE DEF back
        <5> QED
          BY <1>4, <5>1, <5>2
      <4> HIDE DEF back
      <4> QED
        BY <1>5, <4>1 DEF EngineAt
    <3> HIDE DEF same, back
    <3>4. EngineAt(l, EngineHash, same, n)
      BY <1>5 DEF same
    <3> QED
      BY <1>4, <3>1, <3>2, <3>3, <3>4, OrderedHolds
  <2> QED
    BY <2>1, <2>2
<1>8. ASSUME NEW i \in DOMAIN l, i < Len(l) PROVE ~ChainHolds(RemoveAt(l, i))
  <2>1. i \in 1..n /\ i < n /\ n \in Nat \ {0}
    BY <1>4, <1>5, <1>8
  <2> QED
    BY <1>4, <1>5, <2>1, RemovedBreaks
<1> QED
  BY <1>2, <1>6, <1>7, <1>8 DEF VerifiersAgree, w, Writes, n

LEMMA LogIsVerified == LogInv => ChainVerifies /\ VerifiersAgree
<1> SUFFICES ASSUME LogInv, ~inherited PROVE BrokenAt(entries) = {}
  BY BothVerify DEF ChainVerifies
<1>1. entries \in Seq(LogEntries) /\ Unbroken(entries)
  BY DEF LogInv, LogTyped
<1> QED
  BY <1>1, LinksHold DEF Unbroken

-----------------------------------------------------------------------------
(* Rooms                                                                   *)

\* A tab that is connecting, or will be, has an attempt left.
Tries(p) == p.state = "connecting" \/ p.timer => p.attempts < MaxAttempts

\* So many handlers of a socket are under way at most.
Bounded(t) == Under(t) <= MaxJoins

\* Who is in the room of a group whose user is out of it, and waits for no eviction,
\* joined after the removal; who wants the room and is neither in it nor on the way
\* was refused or taken out.
RoomsInv ==
    /\ RoomsTypeOK /\ EvictedHearNothing /\ WantedRoomIsJoined
    /\ \A t \in Tabs : Tries(tab[t]) /\ Bounded(t)

RoomTabs == [state : {"disconnected", "connecting", "connected"},
             wants : BOOLEAN, attempts : 0..MaxAttempts, timer : BOOLEAN]
Joinings == [asked : 0..MaxJoins, found : 0..MaxJoins]

\* What a step of one tab leaves: only its own records change.
RoomStep(t, p, j) ==
    /\ tab' = [tab EXCEPT ![t] = p] /\ p \in RoomTabs /\ Tries(p)
    /\ joining' = [joining EXCEPT ![t] = j] /\ j \in Joinings
    /\ j.asked + j.found <= MaxJoins
    /\ UNCHANGED memberVars
    /\ inRoom' \subseteq inRoom \cup {t} /\ inRoom \subseteq inRoom' \cup {t}
    /\ crossed \subseteq crossed' \cup {t} /\ crossed' \subseteq crossed \cup {t}
    /\ away \subseteq away' \cup {t} /\ away' \subseteq away \cup {t}
    /\ t \in inRoom' /\ ~isMember => t \in crossed' \/ (t \in inRoom /\ t \notin crossed)
    /\ p.state = "connected" /\ p.wants /\ j.asked + j.found = 0 => t \in inRoom' \cup away'

LEMMA RoomStepKeeps ==
    ASSUME RoomsInv, NEW t \in Tabs, NEW p, NEW j, RoomStep(t, p, j) PROVE RoomsInv'
  <1>1. /\ \A u \in Tabs : tab'[u] = IF u = t THEN p ELSE tab[u]
        /\ \A u \in Tabs : joining'[u] = IF u = t THEN j ELSE joining[u]
    BY DEF RoomStep, RoomsInv, RoomsTypeOK
  <1>2. RoomsTypeOK'
    BY DEF RoomStep, RoomsInv, RoomsTypeOK, RoomTabs, Joinings, memberVars
  <1>3. EvictedHearNothing'
    BY DEF RoomStep, RoomsInv, EvictedHearNothing, memberVars
  <1>4. WantedRoomIsJoined'
    <2> SUFFICES ASSUME NEW u \in Tabs, tab'[u].state = "connected", tab'[u].wants,
                        joining'[u].asked + joining'[u].found = 0
                 PROVE  u \in inRoom' \cup away'
      BY DEF WantedRoomIsJoined, Under
    <2>1. CASE u = t BY <1>1, <2>1 DEF RoomStep
    <2>2. CASE u # t
      BY <1>1, <2>2 DEF RoomStep, RoomsInv, WantedRoomIsJoined, Under
    <2> QED BY <2>1, <2>2
  <1>5. \A u \in Tabs : Tries(tab'[u]) /\ Bounded(u)'
    BY <1>1 DEF RoomStep, RoomsInv, Bounded, Under
  <1> QED BY <1>2, <1>3, <1>4, <1>5 DEF RoomsInv

LEMMA NoSocketTyped ==
    /\ 0 \in 0..MaxAttempts /\ 0 \in 0..MaxJoins /\ 1 \in 0..MaxJoins
    /\ NoSocket \in RoomTabs /\ NoSocket.state = "disconnected" /\ ~NoSocket.wants
    /\ NoJoins \in Joinings /\ [NoJoins EXCEPT !.asked = 1] \in Joinings
    /\ NoJoins.asked + NoJoins.found = 0
    /\ [NoJoins EXCEPT !.asked = 1].asked + [NoJoins EXCEPT !.asked = 1].found = 1
  <1>1. 0 \in 0..MaxAttempts /\ 0 \in 0..MaxJoins /\ 1 \in 0..MaxJoins
    BY RoomsAssumption
  <1> QED BY <1>1 DEF NoSocket, NoJoins, RoomTabs, Joinings

\* The records of one tab.
LEMMA RoomOf ==
    ASSUME RoomsInv, NEW t \in Tabs
    PROVE  /\ tab[t] \in RoomTabs /\ Tries(tab[t]) /\ joining[t] \in Joinings
           /\ joining[t].asked \in Nat /\ joining[t].found \in Nat
           /\ joining[t].asked + joining[t].found <= MaxJoins
           /\ tab = [tab EXCEPT ![t] = tab[t]] /\ joining = [joining EXCEPT ![t] = joining[t]]
           /\ tab[t].state = "connected" /\ tab[t].wants /\ Under(t) = 0 => t \in inRoom \cup away
  <1>1. tab \in [Tabs -> RoomTabs] /\ joining \in [Tabs -> Joinings]
    BY DEF RoomsInv, RoomsTypeOK, RoomTabs, Joinings
  <1>2. tab[t] \in RoomTabs /\ joining[t] \in Joinings BY <1>1
  <1>3. joining[t].asked \in Nat /\ joining[t].found \in Nat
    BY <1>2, RoomsAssumption DEF Joinings
  <1> QED BY <1>1, <1>2, <1>3 DEF RoomsInv, WantedRoomIsJoined, Bounded, Under

\* The steps that open or lose the socket.
LEMMA SocketSteps ==
    ASSUME RoomsInv, NEW t \in Tabs,
           ReplaceSocket(t) \/ LoggedOut(t) \/ Dropped(t) \/ SocketOpens(t)
             \/ Reconnect(t) \/ Refused(t)
    PROVE  RoomsInv'
  <1>0. tab[t] \in RoomTabs /\ Tries(tab[t]) /\ joining[t] \in Joinings
    BY RoomOf
  <1>1. CASE ReplaceSocket(t)
    <2> DEFINE w == tab[t].wants
               p0 == [NoSocket EXCEPT !.state = "connecting"]
               p == [p0 EXCEPT !.wants = w]
    <2>0. p0 \in RoomTabs /\ p0.state = "connecting" /\ p0.attempts = 0
      BY NoSocketTyped DEF NoSocket, RoomTabs
    <2>1. p \in RoomTabs /\ p.state = "connecting" /\ Tries(p)
      <3>1. w \in BOOLEAN BY <1>0 DEF RoomTabs
      <3> HIDE DEF p0, w
      <3> QED BY <2>0, <3>1, RoomsAssumption DEF RoomTabs, Tries
    <2>2. tab' = [tab EXCEPT ![t] = p] BY <1>1 DEF ReplaceSocket
    <2> HIDE DEF p
    <2>3. RoomStep(t, p, NoJoins)
      <3>1. Forget(t) BY <1>1 DEF ReplaceSocket
      <3> QED BY <2>1, <2>2, <3>1, NoSocketTyped, RoomsAssumption DEF RoomStep, Forget
    <2> QED BY <2>3, RoomStepKeeps
  <1>2. CASE LoggedOut(t)
    <2>1. RoomStep(t, NoSocket, NoJoins)
      BY <1>2, NoSocketTyped, RoomsAssumption DEF RoomStep, LoggedOut, Forget, NoSocket, Tries
    <2> QED BY <2>1, RoomStepKeeps
  <1>3. CASE Dropped(t)
    <2> DEFINE p == [tab[t] EXCEPT !.state = "disconnected"]
    <2>1. p \in RoomTabs /\ p.state = "disconnected" /\ Tries(p) BY <1>0 DEF RoomTabs, Tries
    <2>2. tab' = [tab EXCEPT ![t] = p] BY <1>3 DEF Dropped
    <2> HIDE DEF p
    <2>3. RoomStep(t, p, NoJoins)
      <3>1. Forget(t) BY <1>3 DEF Dropped
      <3> QED BY <2>1, <2>2, <3>1, NoSocketTyped, RoomsAssumption DEF RoomStep, Forget
    <2> QED BY <2>3, RoomStepKeeps
  <1>4. CASE SocketOpens(t)
    <2> DEFINE p0 == [tab[t] EXCEPT !.state = "connected"]
               p == [p0 EXCEPT !.attempts = 0]
    <2>1. p0 \in RoomTabs /\ p0.wants = tab[t].wants BY <1>0 DEF RoomTabs
    <2>2. p \in RoomTabs /\ p.wants = tab[t].wants /\ Tries(p)
      <3> HIDE DEF p0
      <3> QED BY <2>1, NoSocketTyped, RoomsAssumption DEF RoomTabs, Tries
    <2>3. tab' = [tab EXCEPT ![t] = p] BY <1>4 DEF SocketOpens
    <2> HIDE DEF p
    <2>4. /\ RejoinRooms(t) \in Joinings
          /\ p.wants => RejoinRooms(t).asked + RejoinRooms(t).found = 1
          /\ RejoinRooms(t).asked + RejoinRooms(t).found <= MaxJoins
      BY <2>2, NoSocketTyped, RoomsAssumption DEF RejoinRooms
    <2>5. joining' = [joining EXCEPT ![t] = RejoinRooms(t)]
      BY <1>4 DEF SocketOpens
    <2>6. UNCHANGED <<memberVars, inRoom, crossed, away>> BY <1>4 DEF SocketOpens
    <2> HIDE DEF RejoinRooms
    <2>7. RoomStep(t, p, RejoinRooms(t))
      BY <2>2, <2>3, <2>4, <2>5, <2>6 DEF RoomStep, RoomsInv, EvictedHearNothing
    <2> QED BY <2>7, RoomStepKeeps
  <1>5. CASE Reconnect(t)
    <2> DEFINE p0 == [tab[t] EXCEPT !.state = "connecting"]
               p == [p0 EXCEPT !.timer = FALSE]
    <2>1. p0 \in RoomTabs /\ p0.state = "connecting" /\ p0.attempts < MaxAttempts
      BY <1>0, <1>5 DEF RoomTabs, Reconnect, Tries
    <2>2. p \in RoomTabs /\ p.state = "connecting" /\ Tries(p)
      <3> HIDE DEF p0
      <3> QED BY <2>1 DEF RoomTabs, Tries
    <2>3. tab' = [tab EXCEPT ![t] = p] BY <1>5 DEF Reconnect
    <2> HIDE DEF p
    <2>4. RoomStep(t, p, joining[t])
      BY <1>5, <1>0, <2>2, <2>3, RoomOf DEF RoomStep, Reconnect, roomServerVars
    <2> QED BY <2>4, RoomStepKeeps
  <1>6. CASE Refused(t)
    <2> DEFINE late == tab[t].attempts + 1 < MaxAttempts
               n == tab[t].attempts + 1
               p0 == [tab[t] EXCEPT !.state = "disconnected"]
               p1 == [p0 EXCEPT !.attempts = n]
               p == [p1 EXCEPT !.timer = late]
    <2>1. p0 \in RoomTabs /\ p0.state = "disconnected" BY <1>0 DEF RoomTabs
    <2>2. n \in 0..MaxAttempts /\ late \in BOOLEAN
      BY <1>0, <1>6, RoomsAssumption DEF Refused, Tries, RoomTabs
    <2>3. p1 \in RoomTabs /\ p1.state = "disconnected" /\ p1.attempts = n
      <3> HIDE DEF p0, n
      <3> QED BY <2>1, <2>2 DEF RoomTabs
    <2>4. p \in RoomTabs /\ p.state = "disconnected" /\ p.attempts = n /\ p.timer = late
      <3> HIDE DEF p1, late, n
      <3> QED BY <2>2, <2>3 DEF RoomTabs
    <2>5. tab' = [tab EXCEPT ![t] = p] BY <1>6 DEF Refused
    <2> HIDE DEF p
    <2>6. RoomStep(t, p, joining[t])
      BY <1>6, <1>0, <2>4, <2>5, RoomOf
      DEF RoomStep, Refused, roomServerVars, RoomsInv, EvictedHearNothing, Tries
    <2> QED BY <2>6, RoomStepKeeps
  <1> QED BY <1>1, <1>2, <1>3, <1>4, <1>5, <1>6

\* The steps that ask for the room, leave it, or enter it.
LEMMA JoinSteps ==
    ASSUME RoomsInv, NEW t \in Tabs,
           AskForRoom(t) \/ LeaveRoom(t) \/ QueryMember(t) \/ JoinRefused(t) \/ JoinGroup(t)
    PROVE  RoomsInv'
  <1>0. /\ tab[t] \in RoomTabs /\ Tries(tab[t]) /\ joining[t] \in Joinings
        /\ joining[t].asked \in Nat /\ joining[t].found \in Nat
        /\ joining[t].asked + joining[t].found <= MaxJoins
        /\ tab = [tab EXCEPT ![t] = tab[t]] /\ joining = [joining EXCEPT ![t] = joining[t]]
        /\ tab[t].state = "connected" /\ tab[t].wants /\ Under(t) = 0 => t \in inRoom \cup away
    BY RoomOf
  <1>1. CASE AskForRoom(t)
    <2> DEFINE p == [tab[t] EXCEPT !.wants = TRUE]
               n == joining[t].asked + 1
               j == [joining[t] EXCEPT !.asked = n]
    <2>1. p \in RoomTabs /\ p.state = tab[t].state /\ Tries(p) BY <1>0 DEF RoomTabs, Tries
    <2>2. n \in 0..MaxJoins /\ n > 0
      BY <1>0, <1>1, RoomsAssumption DEF AskForRoom, Under
    <2>3. j \in Joinings /\ j.asked = n /\ j.found = joining[t].found
      <3> HIDE DEF n
      <3> QED BY <1>0, <2>2 DEF Joinings
    <2>4. tab' = [tab EXCEPT ![t] = p] /\ UNCHANGED <<memberVars, inRoom, crossed>>
      BY <1>1 DEF AskForRoom
    <2>5. CASE tab[t].state = "connected"
      <3>1. joining' = [joining EXCEPT ![t] = j] /\ away' = away \ {t}
        BY <1>1, <2>5 DEF AskForRoom
      <3>2. j.asked + j.found # 0 /\ j.asked + j.found <= MaxJoins
        BY <1>0, <1>1, <2>2, <2>3, RoomsAssumption DEF AskForRoom, Under
      <3> HIDE DEF p, j, n
      <3>3. RoomStep(t, p, j)
        BY <2>1, <2>3, <2>4, <3>1, <3>2 DEF RoomStep
      <3> QED BY <3>3, RoomStepKeeps
    <2>6. CASE tab[t].state # "connected"
      <3>1. UNCHANGED <<joining, away>> BY <1>1, <2>6 DEF AskForRoom
      <3> HIDE DEF p
      <3>2. RoomStep(t, p, joining[t])
        BY <1>0, <2>1, <2>4, <2>6, <3>1 DEF RoomStep
      <3> QED BY <3>2, RoomStepKeeps
    <2> QED BY <2>5, <2>6
  <1>2. CASE LeaveRoom(t)
    <2> DEFINE p == [tab[t] EXCEPT !.wants = FALSE]
    <2>1. p \in RoomTabs /\ ~p.wants /\ Tries(p) BY <1>0 DEF RoomTabs, Tries
    <2>2. tab' = [tab EXCEPT ![t] = p] /\ UNCHANGED <<memberVars, joining>>
      BY <1>2 DEF LeaveRoom
    <2> HIDE DEF p
    <2>3. RoomStep(t, p, joining[t])
      BY <1>0, <1>2, <2>1, <2>2 DEF RoomStep, LeaveRoom
    <2> QED BY <2>3, RoomStepKeeps
  <1>3. CASE QueryMember(t)
    <2> DEFINE n == joining[t].asked - 1
               k == joining[t].found + 1
               j0 == [joining[t] EXCEPT !.asked = n]
               j == [j0 EXCEPT !.found = k]
    <2>1. n \in Nat /\ k \in Nat /\ k > 0 BY <1>0, <1>3 DEF QueryMember
    <2>2. joining' = [joining EXCEPT ![t] = j] BY <1>3 DEF QueryMember
    <2> HIDE DEF n, k
    <2>3. j0 \in [asked : Nat, found : Nat] /\ j0.asked = n
      BY <1>0, <2>1 DEF Joinings
    <2>4. j \in [asked : Nat, found : Nat] /\ j.asked = n /\ j.found = k
      <3> HIDE DEF j0
      <3> QED BY <2>1, <2>3
    <2> HIDE DEF j
    <2>5. Bounded(t) /\ n + k = joining[t].asked + joining[t].found
      BY <1>0, <2>1 DEF RoomsInv, n, k
    <2>6. j \in Joinings /\ j.asked + j.found # 0 /\ j.asked + j.found <= MaxJoins
      BY <2>1, <2>4, <2>5, RoomsAssumption DEF Joinings, Bounded, Under
    <2>7. RoomStep(t, tab[t], j)
      BY <1>0, <1>3, <2>2, <2>6 DEF RoomStep, QueryMember
    <2> QED BY <2>7, RoomStepKeeps
  <1>4. CASE JoinRefused(t)
    <2> DEFINE n == joining[t].asked - 1
               j == [joining[t] EXCEPT !.asked = n]
    <2>1. n \in 0..MaxJoins /\ n < joining[t].asked
      BY <1>0, <1>4, RoomsAssumption DEF JoinRefused, Joinings
    <2>2. joining' = [joining EXCEPT ![t] = j] /\ away' = away \cup ({t} \ inRoom)
          /\ UNCHANGED <<memberVars, tab, inRoom, crossed>>
      BY <1>4 DEF JoinRefused
    <2> HIDE DEF n
    <2>3. j \in Joinings /\ j.asked = n /\ j.found = joining[t].found
      BY <1>0, <2>1 DEF Joinings
    <2> HIDE DEF j
    <2>4. j.asked + j.found <= MaxJoins
      BY <1>0, <2>1, <2>3, RoomsAssumption DEF RoomsInv, Bounded, Under
    <2>5. RoomStep(t, tab[t], j)
      BY <1>0, <2>2, <2>3, <2>4 DEF RoomStep
    <2> QED BY <2>5, RoomStepKeeps
  <1>5. CASE JoinGroup(t)
    <2> DEFINE n == joining[t].found - 1
               j == [joining[t] EXCEPT !.found = n]
    <2>1. n \in 0..MaxJoins /\ n < joining[t].found
      BY <1>0, <1>5, RoomsAssumption DEF JoinGroup, Joinings
    <2>2. joining' = [joining EXCEPT ![t] = j] BY <1>5 DEF JoinGroup
    <2> HIDE DEF n
    <2>3. j \in Joinings /\ j.found = n /\ j.asked = joining[t].asked
      BY <1>0, <2>1 DEF Joinings
    <2> HIDE DEF j
    <2>4. j.asked + j.found <= MaxJoins
      BY <1>0, <2>1, <2>3, RoomsAssumption DEF RoomsInv, Bounded, Under
    <2>5. RoomStep(t, tab[t], j)
      BY <1>0, <1>5, <2>2, <2>3, <2>4 DEF RoomStep, JoinGroup
    <2> QED BY <2>5, RoomStepKeeps
  <1> QED BY <1>1, <1>2, <1>3, <1>4, <1>5

LEMMA MemberSteps ==
    ASSUME RoomsInv, EvictUser \/ MembershipEnds \/ MembershipReturns \/ CloseServer
    PROVE  RoomsInv'
  <1>0. removals \in 0..MaxRemovals /\ evictions \in 0..removals
    BY DEF RoomsInv, RoomsTypeOK
  <1>1. CASE EvictUser
    <2>1. evictions' \in 0..removals' /\ UNCHANGED <<isMember, removals, tab, joining>>
      BY <1>0, <1>1, RoomsAssumption DEF EvictUser, Evict
    <2>2. inRoom' = {} /\ crossed' \subseteq crossed /\ away' = away \cup inRoom
      BY <1>1 DEF EvictUser, Evict
    <2> QED
      BY <2>1, <2>2
      DEF RoomsInv, RoomsTypeOK, EvictedHearNothing, WantedRoomIsJoined, Under, Bounded
  <1>2. CASE MembershipEnds \/ MembershipReturns
    <2>1. /\ evictions' \in 0..removals' /\ removals' \in 0..MaxRemovals
          /\ UNCHANGED <<tab, joining, inRoom, away>> /\ isMember' \in BOOLEAN
          /\ isMember' \/ evictions' # 0
          /\ crossed' \subseteq crossed
      <3>1. CASE MembershipEnds
        <4>1. evictions' = evictions + 1 /\ removals' = removals + 1 /\ removals < MaxRemovals
          BY <3>1 DEF MembershipEnds
        <4>2. /\ evictions' \in 0..removals' /\ removals' \in 0..MaxRemovals /\ evictions' # 0
          BY <1>0, <4>1, RoomsAssumption
        <4>3. isMember' \in BOOLEAN BY <3>1, Zenon DEF MembershipEnds
        <4> QED BY <3>1, <4>2, <4>3, Zenon DEF MembershipEnds
      <3>2. CASE MembershipReturns BY <1>0, <3>2, RoomsAssumption DEF MembershipReturns
      <3> QED BY <1>2, <3>1, <3>2
    <2> QED
      BY <2>1
      DEF RoomsInv, RoomsTypeOK, EvictedHearNothing, WantedRoomIsJoined, Under, Bounded
  <1>3. CASE CloseServer
    <2>1. \A t \in Tabs : /\ tab'[t] \in RoomTabs /\ Tries(tab'[t])
                          /\ tab'[t].state # "connected"
      <3> TAKE t \in Tabs
      <3>1. tab[t] \in RoomTabs /\ Tries(tab[t]) BY RoomOf
      <3>2. tab'[t] = IF tab[t].state = "connected"
                      THEN [tab[t] EXCEPT !.state = "disconnected"] ELSE tab[t]
        BY <1>3 DEF CloseServer
      <3> QED BY <3>1, <3>2 DEF RoomTabs, Tries
    <2>2. tab' \in [Tabs -> RoomTabs]
      <3>1. tab' = [t \in Tabs |-> tab'[t]] BY <1>3 DEF CloseServer
      <3> QED BY <2>1, <3>1
    <2>3. \A t \in Tabs : joining'[t] = NoJoins BY <1>3 DEF CloseServer
    <2>4. joining' \in [Tabs -> Joinings] BY <1>3, NoSocketTyped DEF CloseServer
    <2>5. RoomsTypeOK'
      BY <1>3, <2>2, <2>4, RoomsAssumption
      DEF CloseServer, RoomsInv, RoomsTypeOK, RoomTabs, Joinings
    <2>6. EvictedHearNothing' /\ WantedRoomIsJoined'
      BY <1>3, <2>1 DEF CloseServer, EvictedHearNothing, WantedRoomIsJoined
    <2>7. \A t \in Tabs : Bounded(t)'
      BY <2>3, RoomsAssumption DEF Bounded, Under, NoJoins
    <2> QED BY <2>1, <2>5, <2>6, <2>7 DEF RoomsInv
  <1> QED BY <1>1, <1>2, <1>3

LEMMA RoomsStart == RoomsInit => RoomsInv
  <1> SUFFICES ASSUME RoomsInit PROVE RoomsInv OBVIOUS
  <1>1. /\ tab \in [Tabs -> RoomTabs] /\ joining \in [Tabs -> Joinings]
        /\ \A t \in Tabs : tab[t] = NoSocket /\ joining[t] = NoJoins
    BY NoSocketTyped DEF RoomsInit
  <1>2. RoomsTypeOK BY <1>1, RoomsAssumption DEF RoomsInit, RoomsTypeOK, RoomTabs, Joinings
  <1>3. \A t \in Tabs : Tries(tab[t]) /\ Bounded(t)
    BY <1>1, RoomsAssumption DEF Tries, NoSocket, Bounded, Under, NoJoins
  <1> QED
    BY <1>1, <1>2, <1>3, NoSocketTyped
    DEF RoomsInit, RoomsInv, EvictedHearNothing, WantedRoomIsJoined

LEMMA RoomsSteps == RoomsInv /\ [RoomsNext]_roomVars => RoomsInv'
  <1>1. ASSUME RoomsInv, UNCHANGED roomVars PROVE RoomsInv'
    BY <1>1
    DEF RoomsInv, RoomsTypeOK, EvictedHearNothing, WantedRoomIsJoined, Under, Bounded, roomVars
  <1> QED
    BY <1>1, SocketSteps, JoinSteps, MemberSteps DEF RoomsNext

\* After the evictions no socket of a user who is out of the group is in its room,
\* save one that joined on a row read before the removal (evictUserFromGroup runs
\* after the commit; join-group awaits its query before it enters the room).
THEOREM EvictionIsHeard == RoomsSpec => []EvictedHearNothing
  <1>1. RoomsInv => EvictedHearNothing BY DEF RoomsInv
  <1> QED BY <1>1, RoomsStart, RoomsSteps, PTL DEF RoomsSpec

\* A connected tab that shows the group is in its room, or on its way into it, unless it
\* was refused or evicted since it last asked, however often it asks, leaves, drops
\* and connects again (joinedRooms, the "connect" handler, join-group).
THEOREM WantedRoomsAreJoined == RoomsSpec => []WantedRoomIsJoined
  <1>1. RoomsInv => WantedRoomIsJoined BY DEF RoomsInv
  <1> QED BY <1>1, RoomsStart, RoomsSteps, PTL DEF RoomsSpec

-----------------------------------------------------------------------------
(* Budgets                                                                 *)

BudgetBlobs == [days : [Purchases -> Nat], start : Nat \ {0}, carry : Nat]
SaveStates == [op : {"none", "add", "delete"}, blob : BudgetBlobs, before : BudgetBlobs, prev : 0..2,
               after : SUBSET Saves, late : BOOLEAN]

\* Finitely many expenses are in a blob, and what its budget carries was left by the
\* periods before its start.
EarnedIn(b) ==
    /\ b \in BudgetBlobs /\ IsFiniteSet({p \in Purchases : b.days[p] # Unspent})
    /\ kind.type = "monthly" \/ kind.span > 0 => b.carry * advancePeriod <= Base * (b.start - 1)

BudgetsTyped ==
    /\ kind \in [type : {"monthly", "custom"}, span : Spans] /\ today \in Nat \ {0}
    /\ level \in 0..2 /\ told \in 0..2
    /\ overlapped \in BOOLEAN /\ unseen \in BOOLEAN /\ repeated \in BOOLEAN
    /\ save \in [Saves -> SaveStates]

EarnedEverywhere ==
    /\ EarnedIn(blob) /\ EarnedIn(stored)
    /\ \A s \in Saves : EarnedIn(save[s].blob) /\ EarnedIn(save[s].before)

\* The user knows of the level shown, which has not fallen since a save began.
LevelIsTold ==
    unseen \/ (told >= level /\ \A s \in InFlight : save[s].prev <= level)

\* Without an overlap the user knows of no more than is shown and a save began with.
OneAtATime ==
    overlapped \/ /\ told <= level /\ ~repeated
                  /\ \A s \in InFlight : told <= save[s].prev
                  /\ \A s, t \in InFlight : s = t

BudgetsInv == BudgetsTyped /\ EarnedEverywhere /\ LevelIsTold /\ OneAtATime

LEMMA PeriodIs ==
    ASSUME kind \in [type : {"monthly", "custom"}, span : Spans]
    PROVE  /\ kind.span \in Nat /\ advancePeriod \in Nat
           /\ kind.type = "monthly" \/ kind.span > 0 => advancePeriod > 0
           /\ Base \in Nat \ {0} /\ MaxGuard \in Nat
<1>1. kind.span \in Spans
  OBVIOUS
<1>2. kind.span \in Nat /\ Base \in Nat \ {0} /\ MaxGuard \in Nat
  BY <1>1, BudgetsAssumption
<1> QED
  BY <1>2 DEF advancePeriod

\* Nothing is carried in the first blob, nor is it while no save is under way.
LEMMA NoSaveIs ==
    /\ NoSave \in SaveStates /\ NoSave.op = "none" /\ NoSave.before = NoSave.blob
    /\ NoSave.blob.start = 1 /\ NoSave.blob.carry = 0
    /\ \A p \in Purchases : NoSave.blob.days[p] = Unspent
<1> DEFINE b == Blob([p \in Purchases |-> Unspent], 1, 0)
<1>1. /\ b \in BudgetBlobs /\ b.start = 1 /\ b.carry = 0
      /\ \A p \in Purchases : b.days[p] = Unspent
  BY DEF Blob, Unspent, BudgetBlobs
<1>2. NoSave = [op |-> "none", blob |-> b, before |-> b, prev |-> 0, after |-> {}, late |-> FALSE]
  BY DEF NoSave
<1> HIDE DEF b
<1> QED
  BY <1>1, <1>2 DEF SaveStates

LEMMA NoneIsEarned ==
    ASSUME kind \in [type : {"monthly", "custom"}, span : Spans]
    PROVE  EarnedIn(NoSave.blob) /\ EarnedIn(NoSave.before)
<1>1. PICK b : b = NoSave.blob
  OBVIOUS
<1>2. b \in BudgetBlobs /\ b.start = 1 /\ b.carry = 0 /\ {p \in Purchases : b.days[p] # Unspent} = {}
  BY <1>1, NoSaveIs DEF SaveStates
<1>3. IsFiniteSet({})
  BY FS_EmptySet
<1>4. b.carry * advancePeriod <= Base * (b.start - 1)
  BY <1>2, PeriodIs
<1>5. EarnedIn(b)
  BY <1>2, <1>3, <1>4 DEF EarnedIn
<1> QED
  BY <1>1, <1>5, NoSaveIs

LEMMA BudgetsStart == BudgetsInit => BudgetsInv
<1> SUFFICES ASSUME BudgetsInit PROVE BudgetsInv
  OBVIOUS
<1>1. BudgetsTyped
  <2>1. /\ overlapped \in BOOLEAN /\ unseen \in BOOLEAN /\ repeated \in BOOLEAN
        /\ kind \in [type : {"monthly", "custom"}, span : Spans] /\ today = 1 /\ level = 0 /\ told = 0
    BY DEF BudgetsInit
  <2>2. today \in Nat \ {0} /\ level \in 0..2 /\ told \in 0..2
    BY <2>1
  <2>3. save \in [Saves -> SaveStates]
    BY NoSaveIs DEF BudgetsInit
  <2> QED
    BY <2>1, <2>2, <2>3 DEF BudgetsTyped
<1>2. InFlight = {}
  BY DEF BudgetsInit, InFlight, NoSave
<1>3. EarnedIn(NoSave.blob) /\ EarnedIn(NoSave.before)
  BY <1>1, NoneIsEarned DEF BudgetsTyped
<1> QED
  BY <1>1, <1>2, <1>3 DEF BudgetsInit, BudgetsInv, EarnedEverywhere, LevelIsTold, OneAtATime

\* What was spent is a number.
LEMMA SpentIsNat ==
    ASSUME NEW days \in [Purchases -> Nat], IsFiniteSet({p \in Purchases : days[p] # Unspent}),
           NEW first, NEW last
    PROVE  Spent(days, first, last) \in Nat
<1> DEFINE D == {p \in Purchases : days[p] # Unspent}
           f == [p \in D |-> IF days[p] \in first..last THEN Cost[p] ELSE 0]
<1>1. f \in [D -> Nat]
  BY BudgetsAssumption
<1>2. SumFunction(f) \in Nat
  <2> HIDE DEF f
  <2> QED
    BY <1>1, SumIsNat
<1> QED
  BY <1>2 DEF Spent

\* A rollover goes on by one period at least.
LEMMA StepsForward ==
    ASSUME BudgetsTyped, NEW b, b.start \in Nat PROVE Steps(b) \in Nat \ {0}
<1> DEFINE Stop(k) == k = MaxGuard + 1 \/ b.start + k * advancePeriod + kind.span >= today
           Ks == {k \in 1..(MaxGuard + 1) : Stop(k)}
<1>0. MaxGuard \in Nat /\ advancePeriod \in Nat /\ kind.span \in Nat /\ today \in Nat
  BY PeriodIs DEF BudgetsTyped
<1>1. Ks # {} /\ Ks \subseteq Nat
  <2>1. MaxGuard + 1 \in Ks
    BY <1>0
  <2>2. 1..(MaxGuard + 1) \subseteq Nat
    BY <1>0
  <2> HIDE DEF Stop
  <2> QED
    BY <2>1, <2>2
<1>2. PICK k \in Ks : \A j \in Ks : k <= j
  <2> HIDE DEF Ks
  <2> QED
    BY <1>1, LeastOf
<1>3. \A j \in 1..(k - 1) : b.start + j * advancePeriod + kind.span < today
  <2> TAKE j \in 1..(k - 1)
  <2>1. j \in 1..(MaxGuard + 1) /\ j < k /\ j \notin Ks
    BY <1>0, <1>2
  <2>2. j * advancePeriod \in Nat
    BY <1>0, <2>1
  <2> QED
    BY <1>0, <2>1, <2>2
<1>4. \E n \in 1..(MaxGuard + 1) :
        /\ n = MaxGuard + 1 \/ b.start + n * advancePeriod + kind.span >= today
        /\ \A j \in 1..(n - 1) : b.start + j * advancePeriod + kind.span < today
  BY <1>2, <1>3
<1>5. Steps(b) \in 1..(MaxGuard + 1)
  BY <1>4 DEF Steps
<1> QED
  BY <1>0, <1>5

\* A rollover carries over what its periods leave.
LEMMA RolloverEarns ==
    ASSUME BudgetsTyped, NEW b, EarnedIn(b) PROVE EarnedIn(RolledOver(b))
<1> DEFINE last == b.start + kind.span
           left == Max({0, Base + b.carry - Spent(b.days, b.start, last)})
           n == Steps(b)
<1>0. /\ b.start \in Nat \ {0} /\ b.carry \in Nat /\ Base \in Nat \ {0}
      /\ advancePeriod \in Nat /\ kind.span \in Nat
      /\ kind.type = "monthly" \/ kind.span > 0 => advancePeriod > 0
  <2>1. b.start \in Nat \ {0} /\ b.carry \in Nat
    BY DEF EarnedIn, BudgetBlobs
  <2> QED
    BY <2>1, PeriodIs DEF BudgetsTyped
<1>1. n \in Nat \ {0}
  BY <1>0, StepsForward
<1>2. left \in 0..(Base + b.carry)
  <2>1. PICK k \in Nat : k = Spent(b.days, b.start, last)
    BY SpentIsNat DEF EarnedIn, BudgetBlobs
  <2>2. PICK m \in Int : m = Base + b.carry - k /\ m <= Base + b.carry
    BY <1>0
  <2>3. \E x \in {0, m} : \A y \in {0, m} : x >= y
    <3>1. CASE m >= 0
      BY <3>1
    <3>2. CASE ~(m >= 0)
      BY <3>2
    <3> QED
      BY <3>1, <3>2
  <2>4. Max({0, m}) \in {0, m} /\ Max({0, m}) >= 0
    BY <2>3 DEF Max
  <2>5. left = Max({0, m})
    BY <2>1, <2>2
  <2> HIDE DEF left
  <2> QED
    BY <1>0, <2>2, <2>4, <2>5
<1> HIDE DEF left, n
<1>3. CASE last >= today
  BY <1>3 DEF RolledOver
<1>4. CASE ~(last >= today)
  <2>1. RolledOver(b) = Blob(b.days, b.start + n * advancePeriod, left)
    BY <1>4 DEF RolledOver, Advanced, left, n
  <2>2. PICK k \in Nat : k = n * advancePeriod
    BY <1>0, <1>1
  <2>3. ASSUME kind.type = "monthly" \/ kind.span > 0
        PROVE  left * advancePeriod <= Base * ((b.start + k) - 1)
    <3>1. b.carry * advancePeriod <= Base * (b.start - 1)
      BY <2>3 DEF EarnedIn
    <3>2. left * advancePeriod <= (Base + b.carry) * advancePeriod
      BY <1>0, <1>2
    <3>3. (Base + b.carry) * advancePeriod = Base * advancePeriod + b.carry * advancePeriod
      BY <1>0
    <3>4. advancePeriod <= k
      BY <1>0, <1>1, <2>2
    <3>5. Base * advancePeriod <= Base * k
      BY <1>0, <3>4
    <3>6. Base * ((b.start + k) - 1) = Base * (b.start - 1) + Base * k
      BY <1>0
    <3>7. PICK u \in Int, v \in Int, w \in Int, x \in Int, y \in Int :
              /\ u = left * advancePeriod /\ v = Base * advancePeriod /\ w = b.carry * advancePeriod
              /\ x = Base * (b.start - 1) /\ y = Base * k
      BY <1>0, <1>2
    <3> QED
      BY <3>1, <3>2, <3>3, <3>5, <3>6, <3>7
  <2>4. PICK r : r = RolledOver(b)
    OBVIOUS
  <2>5. r \in BudgetBlobs /\ r.days = b.days /\ r.start = b.start + k /\ r.carry = left
    <3>1. b.days \in [Purchases -> Nat] /\ b.start + k \in Nat \ {0} /\ left \in Nat
      BY <1>0, <1>2, <2>2 DEF EarnedIn, BudgetBlobs
    <3> QED
      BY <2>1, <2>2, <2>4, <3>1 DEF Blob, BudgetBlobs
  <2> QED
    BY <2>3, <2>4, <2>5 DEF EarnedIn
<1> QED
  BY <1>3, <1>4

\* So does a merge, of the server's row.
LEMMA MergeEarns ==
    ASSUME NEW b, NEW c, EarnedIn(b), EarnedIn(c) PROVE EarnedIn(Merged(b, c))
<1> DEFINE days == [p \in Purchases |-> IF b.days[p] # Unspent THEN b.days[p] ELSE c.days[p]]
           Some(d) == {p \in Purchases : d[p] # Unspent}
<1>1. days \in [Purchases -> Nat]
  BY DEF EarnedIn, BudgetBlobs
<1>2. Some(days) \subseteq Some(b.days) \cup Some(c.days)
  OBVIOUS
<1>3. IsFiniteSet(Some(days))
  <2>1. IsFiniteSet(Some(b.days)) /\ IsFiniteSet(Some(c.days))
    BY DEF EarnedIn
  <2> HIDE DEF Some
  <2>2. IsFiniteSet(Some(b.days) \cup Some(c.days))
    BY <2>1, FS_Union
  <2> QED
    BY <1>2, <2>2, FS_Subset
<1>4. PICK r : r = Merged(b, c)
  OBVIOUS
<1>5. r \in BudgetBlobs /\ r.days = days /\ r.start = b.start /\ r.carry = b.carry
  <2> HIDE DEF days
  <2>1. r = [days |-> days, start |-> b.start, carry |-> b.carry]
    BY <1>4 DEF Merged, Blob, days
  <2> QED
    BY <1>1, <2>1 DEF EarnedIn, BudgetBlobs
<1> HIDE DEF days
<1> QED
  BY <1>1, <1>3, <1>4, <1>5 DEF EarnedIn

LEMMA LevelIs ==
    ASSUME NEW b PROVE Level(b) \in 0..2
  BY DEF Level, determineStatus

\* An expense is entered or deleted.
LEMMA EntryEarns ==
    ASSUME NEW b, EarnedIn(b), NEW p \in Purchases, NEW d \in Nat
    PROVE  EarnedIn(Blob([b.days EXCEPT ![p] = d], b.start, b.carry))
<1> DEFINE days == [b.days EXCEPT ![p] = d]
           Some(f) == {q \in Purchases : f[q] # Unspent}
<1>1. days \in [Purchases -> Nat]
  BY DEF EarnedIn, BudgetBlobs
<1>2. Some(days) \subseteq Some(b.days) \cup {p}
  BY DEF EarnedIn, BudgetBlobs
<1>3. IsFiniteSet(Some(days))
  <2>1. IsFiniteSet(Some(b.days)) /\ IsFiniteSet({p})
    BY FS_Singleton DEF EarnedIn
  <2> HIDE DEF Some
  <2>2. IsFiniteSet(Some(b.days) \cup {p})
    BY <2>1, FS_Union
  <2> QED
    BY <1>2, <2>2, FS_Subset
<1>4. PICK r : r = Blob(days, b.start, b.carry)
  OBVIOUS
<1>5. r \in BudgetBlobs /\ r.days = days /\ r.start = b.start /\ r.carry = b.carry
  <2> HIDE DEF days
  <2> QED
    BY <1>1, <1>4 DEF EarnedIn, BudgetBlobs, Blob
<1> HIDE DEF days
<1>6. EarnedIn(r)
  BY <1>1, <1>3, <1>5 DEF EarnedIn
<1> QED
  BY <1>4, <1>6 DEF days

\* The budget stays what it is, so that what was earned is.
LEMMA EarnedNext ==
    ASSUME kind' = kind, NEW b, NEW c, NEW x, b = blob', c = stored', x = save',
           EarnedIn(b), EarnedIn(c),
           \A s \in Saves : EarnedIn(x[s].blob) /\ EarnedIn(x[s].before)
    PROVE  EarnedEverywhere'
<1>1. ASSUME NEW d, EarnedIn(d) PROVE EarnedIn(d)'
  BY <1>1 DEF EarnedIn, advancePeriod
<1>2. EarnedIn(b)' /\ EarnedIn(c)' /\ \A s \in Saves : EarnedIn(x[s].blob)' /\ EarnedIn(x[s].before)'
  BY <1>1
<1> QED
  BY <1>2 DEF EarnedEverywhere

\* A save begins.
LEMMA PublishKeeps ==
    ASSUME BudgetsInv, NEW s \in Saves, NEW op \in {"add", "delete"}, NEW p \in Purchases, NEW d \in Nat,
           Publish(s, op, [blob.days EXCEPT ![p] = d])
    PROVE  BudgetsInv'
<1> DEFINE b == Blob([blob.days EXCEPT ![p] = d], blob.start, blob.carry)
           new == [op |-> op, blob |-> b, before |-> blob, prev |-> level, after |-> InFlight, late |-> FALSE]
<1>1. /\ save[s].op = "none" /\ blob' = b /\ save' = [save EXCEPT ![s] = new]
      /\ overlapped' = (overlapped \/ InFlight # {})
      /\ UNCHANGED <<kind, today, stored, level, told, unseen, repeated>>
  BY DEF Publish
<1>2. EarnedIn(b) /\ EarnedIn(blob)
  BY EntryEarns DEF BudgetsInv, EarnedEverywhere
<1>3. /\ new \in SaveStates /\ new.op = op /\ new.blob = b /\ new.before = blob /\ new.prev = level
      /\ op # "none"
  <2>1. b \in BudgetBlobs /\ blob \in BudgetBlobs /\ InFlight \subseteq Saves /\ level \in 0..2
    BY <1>2 DEF EarnedIn, InFlight, BudgetsInv, BudgetsTyped
  <2> HIDE DEF b
  <2> QED
    BY <2>1 DEF SaveStates
<1> HIDE DEF b, new
<1>4. save' \in [Saves -> SaveStates] /\ save'[s] = new /\ \A t \in Saves : t # s => save'[t] = save[t]
  BY <1>1, <1>3 DEF BudgetsInv, BudgetsTyped
<1>5. EarnedEverywhere'
  <2>1. PICK x, y, z : x = save' /\ y = blob' /\ z = stored'
    OBVIOUS
  <2>2. EarnedIn(y) /\ EarnedIn(z)
    BY <1>1, <1>2, <2>1 DEF BudgetsInv, EarnedEverywhere
  <2>3. \A t \in Saves : EarnedIn(x[t].blob) /\ EarnedIn(x[t].before)
    BY <1>2, <1>3, <1>4, <2>1 DEF BudgetsInv, EarnedEverywhere
  <2>4. kind' = kind
    BY <1>1
  <2> QED
    BY <2>1, <2>2, <2>3, <2>4, EarnedNext
<1>6. BudgetsTyped'
  <2>1. overlapped' \in BOOLEAN
    BY <1>1 DEF BudgetsInv, BudgetsTyped
  <2> QED
    BY <1>1, <1>4, <2>1 DEF BudgetsInv, BudgetsTyped
<1>7. InFlight' = InFlight \cup {s}
  BY <1>3, <1>4 DEF InFlight
<1>8. \A t \in InFlight : t # s /\ t \in Saves
  BY <1>1 DEF InFlight
<1>9. LevelIsTold'
  <2> SUFFICES ASSUME ~unseen PROVE told >= level /\ \A t \in InFlight' : save'[t].prev <= level
    BY <1>1 DEF LevelIsTold
  <2>1. told >= level /\ \A t \in InFlight : save[t].prev <= level
    BY DEF BudgetsInv, LevelIsTold
  <2>2. level \in Int
    BY DEF BudgetsInv, BudgetsTyped
  <2> QED
    BY <1>3, <1>4, <1>7, <1>8, <2>1, <2>2
<1>10. OneAtATime'
  <2> SUFFICES ASSUME ~overlapped, InFlight = {}
               PROVE  /\ told <= level /\ ~repeated
                      /\ \A t \in InFlight' : told <= save'[t].prev
                      /\ \A t, u \in InFlight' : t = u
    BY <1>1 DEF OneAtATime
  <2>1. told <= level /\ ~repeated
    BY DEF BudgetsInv, OneAtATime
  <2>2. InFlight' = {s}
    BY <1>7
  <2> QED
    BY <1>3, <1>4, <2>1, <2>2
<1> QED
  BY <1>5, <1>6, <1>9, <1>10 DEF BudgetsInv

\* A save ends: the others are what they were.
LEMMA SaveEnds ==
    ASSUME BudgetsInv, NEW s \in Saves, NEW merges \in BOOLEAN, Ended(s, merges), save[s].op # "none"
    PROVE  /\ save' \in [Saves -> SaveStates]
           /\ s \in InFlight /\ InFlight' = InFlight \ {s}
           /\ \A t \in InFlight : t # s => save'[t].prev = save[t].prev
           /\ \A x : x = save' => \A t \in Saves : EarnedIn(x[t].blob) /\ EarnedIn(x[t].before)
<1> DEFINE new(t) == [save[t] EXCEPT !.after = @ \ {s}, !.late = @ \/ (merges /\ t \in save[s].after)]
<1>1. save' = [t \in Saves |-> IF t = s THEN NoSave ELSE new(t)]
  BY DEF Ended
<1>2. ASSUME NEW t \in Saves
      PROVE  /\ new(t) \in SaveStates /\ new(t).op = save[t].op /\ new(t).prev = save[t].prev
             /\ new(t).blob = save[t].blob /\ new(t).before = save[t].before
  <2>1. PICK r \in SaveStates : r = save[t]
    BY DEF BudgetsInv, BudgetsTyped
  <2>2. PICK a \in SUBSET Saves : a = r.after \ {s}
    BY DEF SaveStates
  <2>3. PICK l \in BOOLEAN : l = (r.late \/ (merges /\ t \in save[s].after))
    OBVIOUS
  <2>4. new(t) = [r EXCEPT !.after = a, !.late = l]
    BY <2>1, <2>2, <2>3
  <2> QED
    BY <2>1, <2>4 DEF SaveStates
<1> HIDE DEF new
<1>3. save'[s] = NoSave /\ \A t \in Saves : t # s => save'[t] = new(t)
  BY <1>1
<1>4. save' \in [Saves -> SaveStates]
  BY <1>1, <1>2, NoSaveIs
<1>5. s \in InFlight /\ InFlight' = InFlight \ {s}
  BY <1>2, <1>3, NoSaveIs DEF InFlight
<1>6. \A t \in InFlight : t # s => save'[t].prev = save[t].prev
  BY <1>2, <1>3 DEF InFlight
<1>7. ASSUME NEW x, x = save', NEW t \in Saves PROVE EarnedIn(x[t].blob) /\ EarnedIn(x[t].before)
  <2>1. EarnedIn(NoSave.blob) /\ EarnedIn(NoSave.before)
    BY NoneIsEarned DEF BudgetsInv, BudgetsTyped
  <2>2. EarnedIn(save[t].blob) /\ EarnedIn(save[t].before)
    BY DEF BudgetsInv, EarnedEverywhere
  <2>3. t # s => x[t].blob = save[t].blob /\ x[t].before = save[t].before
    BY <1>2, <1>3, <1>7
  <2>4. t = s => x[t] = NoSave
    BY <1>3, <1>7
  <2> QED
    BY <2>1, <2>2, <2>3, <2>4
<1> QED
  BY <1>4, <1>5, <1>6, <1>7

\* A save succeeds.
LEMMA SuccessKeeps ==
    ASSUME BudgetsInv, NEW s \in Saves, SaveSucceeds(s) PROVE BudgetsInv'
<1>1. PICK b : b = RolledOver(Landed(s))
  OBVIOUS
<1>2. /\ save[s].op # "none" /\ stored' = Landed(s) /\ Ended(s, TRUE) /\ blob' = b /\ level' = Level(b)
      /\ unseen' = (unseen \/ Falls(InFlight \ {s}) \/ (save[s].op = "delete" /\ level' > level))
      /\ told' = IF Crossed(s, level') \/ level' < told THEN level' ELSE told
      /\ repeated' = (repeated \/ (Crossed(s, level') /\ level' <= told))
      /\ UNCHANGED <<kind, today, sent, overlapped>>
  BY <1>1 DEF SaveSucceeds, Show
<1>3. EarnedIn(Landed(s)) /\ EarnedIn(b)
  <2>1. EarnedIn(Landed(s))
    BY MergeEarns DEF Landed, BudgetsInv, EarnedEverywhere
  <2>2. PICK c : c = Landed(s)
    OBVIOUS
  <2> QED
    BY <1>1, <2>1, <2>2, RolloverEarns DEF BudgetsInv
<1>4. /\ save' \in [Saves -> SaveStates]
      /\ s \in InFlight /\ InFlight' = InFlight \ {s}
      /\ \A t \in InFlight : t # s => save'[t].prev = save[t].prev
      /\ \A x : x = save' => \A t \in Saves : EarnedIn(x[t].blob) /\ EarnedIn(x[t].before)
  BY <1>2, SaveEnds
<1>5. EarnedEverywhere'
  <2>1. PICK x, y, z : x = save' /\ y = blob' /\ z = stored'
    OBVIOUS
  <2>2. EarnedIn(y) /\ EarnedIn(z) /\ kind' = kind
    BY <1>2, <1>3, <2>1
  <2>3. \A t \in Saves : EarnedIn(x[t].blob) /\ EarnedIn(x[t].before)
    BY <1>4, <2>1
  <2> QED
    BY <2>1, <2>2, <2>3, EarnedNext
<1>6. level' \in 0..2 /\ told' \in 0..2
  BY <1>2, LevelIs DEF BudgetsInv, BudgetsTyped
<1>7. BudgetsTyped'
  <2>1. unseen' \in BOOLEAN /\ repeated' \in BOOLEAN /\ overlapped' \in BOOLEAN
    BY <1>2 DEF BudgetsInv, BudgetsTyped
  <2> QED
    BY <1>2, <1>4, <1>6, <2>1 DEF BudgetsInv, BudgetsTyped
<1>8. /\ level \in 0..2 /\ told \in 0..2
      /\ \A t \in InFlight : save[t].prev \in 0..2 /\ save[t].op \in {"add", "delete"}
  BY DEF BudgetsInv, BudgetsTyped, SaveStates, InFlight
<1>9. LevelIsTold'
  <2> SUFFICES ASSUME ~unseen' PROVE told' >= level' /\ \A t \in InFlight' : save'[t].prev <= level'
    BY DEF LevelIsTold
  <2>1. /\ told >= level /\ \A t \in InFlight : save[t].prev <= level
        /\ ~Falls(InFlight \ {s}) /\ ~(save[s].op = "delete" /\ level' > level)
    BY <1>2 DEF BudgetsInv, LevelIsTold
  <2>2. told' >= level'
    <3>1. CASE Crossed(s, level') \/ level' < told
      BY <1>2, <1>6, <3>1
    <3>2. CASE ~(Crossed(s, level') \/ level' < told)
      <4>1. level' <= level
        BY <1>4, <1>6, <1>8, <2>1, <3>2 DEF Crossed
      <4> QED
        BY <1>2, <1>6, <1>8, <2>1, <3>2, <4>1
    <3> QED
      BY <3>1, <3>2
  <2>3. ASSUME NEW t \in InFlight' PROVE save'[t].prev <= level'
    <3>1. t \in InFlight /\ t # s /\ InFlight \ {s} # {}
      BY <1>4
    <3>2. level' >= level
      BY <1>6, <1>8, <2>1, <3>1 DEF Falls
    <3> QED
      BY <1>4, <1>6, <1>8, <2>1, <3>1, <3>2
  <2> QED
    BY <2>2, <2>3
<1>10. OneAtATime'
  <2> SUFFICES ASSUME ~overlapped
               PROVE  /\ told' <= level' /\ ~repeated' /\ InFlight' = {}
    BY <1>2 DEF OneAtATime
  <2>1. /\ told <= level /\ ~repeated /\ told <= save[s].prev
        /\ \A t \in InFlight : t = s
    BY <1>4 DEF BudgetsInv, OneAtATime
  <2>2. ~(Crossed(s, level') /\ level' <= told)
    BY <1>4, <1>6, <1>8, <2>1 DEF Crossed
  <2>3. told' <= level'
    <3>1. CASE Crossed(s, level') \/ level' < told
      BY <1>2, <1>6, <3>1
    <3>2. CASE ~(Crossed(s, level') \/ level' < told)
      BY <1>2, <1>6, <1>8, <3>2
    <3> QED
      BY <3>1, <3>2
  <2>4. InFlight' = {}
    BY <1>4, <2>1
  <2> QED
    BY <1>2, <2>1, <2>2, <2>3, <2>4
<1> QED
  BY <1>5, <1>7, <1>9, <1>10 DEF BudgetsInv

\* A save fails.
LEMMA FailKeeps ==
    ASSUME BudgetsInv, NEW s \in Saves, SaveFails(s) PROVE BudgetsInv'
<1>1. /\ save[s].op # "none" /\ blob' = save[s].before /\ Ended(s, FALSE)
      /\ UNCHANGED <<kind, today, stored, level, sent, told, overlapped, unseen, repeated>>
  BY DEF SaveFails
<1>2. /\ save' \in [Saves -> SaveStates]
      /\ s \in InFlight /\ InFlight' = InFlight \ {s}
      /\ \A t \in InFlight : t # s => save'[t].prev = save[t].prev
      /\ \A x : x = save' => \A t \in Saves : EarnedIn(x[t].blob) /\ EarnedIn(x[t].before)
  BY <1>1, SaveEnds
<1>3. EarnedEverywhere'
  <2>1. PICK x, y, z : x = save' /\ y = blob' /\ z = stored'
    OBVIOUS
  <2>2. EarnedIn(y) /\ EarnedIn(z) /\ kind' = kind
    BY <1>1, <2>1 DEF BudgetsInv, EarnedEverywhere
  <2>3. \A t \in Saves : EarnedIn(x[t].blob) /\ EarnedIn(x[t].before)
    BY <1>2, <2>1
  <2> QED
    BY <2>1, <2>2, <2>3, EarnedNext
<1>4. BudgetsTyped'
  BY <1>1, <1>2 DEF BudgetsInv, BudgetsTyped
<1>5. LevelIsTold'
  BY <1>1, <1>2 DEF BudgetsInv, LevelIsTold
<1>6. OneAtATime'
  BY <1>1, <1>2 DEF BudgetsInv, OneAtATime
<1> QED
  BY <1>3, <1>4, <1>5, <1>6 DEF BudgetsInv

\* The blob is loaded.
LEMMA BlobFetchKeeps == ASSUME BudgetsInv, FetchPersonalBlob PROVE BudgetsInv'
<1>1. PICK b : b = RolledOver(stored)
  OBVIOUS
<1>2. /\ blob' = b /\ level' = Level(b) /\ told' = level'
      /\ unseen' = (unseen \/ Falls(InFlight))
      /\ overlapped' = (overlapped \/ InFlight # {})
      /\ UNCHANGED <<kind, today, stored, save, sent, repeated>>
  BY <1>1 DEF FetchPersonalBlob, Show
<1>3. EarnedIn(b)
  <2>1. PICK c : c = stored
    OBVIOUS
  <2> QED
    BY <1>1, <2>1, RolloverEarns DEF BudgetsInv, EarnedEverywhere
<1>4. EarnedEverywhere'
  <2>1. PICK x, y, z : x = save' /\ y = blob' /\ z = stored'
    OBVIOUS
  <2>2. EarnedIn(y) /\ EarnedIn(z) /\ kind' = kind
    BY <1>2, <1>3, <2>1 DEF BudgetsInv, EarnedEverywhere
  <2>3. \A t \in Saves : EarnedIn(x[t].blob) /\ EarnedIn(x[t].before)
    BY <1>2, <2>1 DEF BudgetsInv, EarnedEverywhere
  <2> QED
    BY <2>1, <2>2, <2>3, EarnedNext
<1>5. level' \in 0..2 /\ told' \in 0..2
  BY <1>2, LevelIs
<1>6. BudgetsTyped'
  <2>1. unseen' \in BOOLEAN /\ repeated' \in BOOLEAN /\ overlapped' \in BOOLEAN
    BY <1>2 DEF BudgetsInv, BudgetsTyped
  <2> QED
    BY <1>2, <1>5, <2>1 DEF BudgetsInv, BudgetsTyped
<1>7. InFlight' = InFlight
  BY <1>2 DEF InFlight
<1>8. level \in 0..2 /\ \A t \in InFlight : save[t].prev \in 0..2
  BY DEF BudgetsInv, BudgetsTyped, SaveStates, InFlight
<1>9. LevelIsTold'
  <2> SUFFICES ASSUME ~unseen' PROVE told' >= level' /\ \A t \in InFlight' : save'[t].prev <= level'
    BY DEF LevelIsTold
  <2>1. (\A t \in InFlight : save[t].prev <= level) /\ ~Falls(InFlight)
    BY <1>2 DEF BudgetsInv, LevelIsTold
  <2>2. InFlight # {} => level' >= level
    BY <1>5, <1>8, <2>1 DEF Falls
  <2> QED
    BY <1>2, <1>5, <1>7, <1>8, <2>1, <2>2
<1>10. OneAtATime'
  <2> SUFFICES ASSUME ~overlapped, InFlight = {} PROVE told' <= level' /\ ~repeated /\ InFlight' = {}
    BY <1>2 DEF OneAtATime
  <2>1. ~repeated
    BY DEF BudgetsInv, OneAtATime
  <2> QED
    BY <1>2, <1>5, <1>7, <2>1
<1> QED
  BY <1>4, <1>6, <1>9, <1>10 DEF BudgetsInv

LEMMA BudgetRests ==
    ASSUME BudgetsInv,
           UNCHANGED <<kind, blob, stored, level, save, sent, told, overlapped, unseen, repeated>>,
           today' \in Nat \ {0}
    PROVE  BudgetsInv'
<1>1. EarnedEverywhere'
  BY DEF BudgetsInv, EarnedEverywhere, EarnedIn, advancePeriod
<1>2. BudgetsTyped'
  BY DEF BudgetsInv, BudgetsTyped
<1>3. LevelIsTold' /\ OneAtATime'
  BY DEF BudgetsInv, LevelIsTold, OneAtATime, InFlight
<1> QED
  BY <1>1, <1>2, <1>3 DEF BudgetsInv

LEMMA BudgetsSteps == BudgetsInv /\ [BudgetsNext]_budgetsVars => BudgetsInv'
<1> SUFFICES ASSUME BudgetsInv, [BudgetsNext]_budgetsVars PROVE BudgetsInv'
  OBVIOUS
<1>0. today \in Nat \ {0}
  BY DEF BudgetsInv, BudgetsTyped
<1>1. CASE NextDay \/ UNCHANGED budgetsVars
  <2>1. today' \in Nat \ {0}
    BY <1>0, <1>1 DEF NextDay, budgetsVars
  <2> QED
    BY <1>1, <2>1, BudgetRests DEF NextDay, budgetsVars
<1>2. CASE FetchPersonalBlob
  BY <1>2, BlobFetchKeeps
<1>3. CASE \E s \in Saves, p \in Purchases : addExpense(s, p) \/ deleteExpense(s, p)
  <2>1. Unspent \in Nat /\ today \in Nat
    BY <1>0 DEF Unspent
  <2>2. PICK s \in Saves, p \in Purchases : addExpense(s, p) \/ deleteExpense(s, p)
    BY <1>3
  <2>3. \/ Publish(s, "add", [blob.days EXCEPT ![p] = today])
        \/ Publish(s, "delete", [blob.days EXCEPT ![p] = Unspent])
    BY <2>2 DEF addExpense, deleteExpense
  <2>4. PICK d \in Nat, op \in {"add", "delete"} : Publish(s, op, [blob.days EXCEPT ![p] = d])
    BY <2>1, <2>3
  <2> QED
    BY <2>4, PublishKeeps
<1>4. CASE \E s \in Saves : SaveSucceeds(s) \/ SaveFails(s)
  BY <1>4, SuccessKeeps, FailKeeps
<1> QED
  BY <1>1, <1>2, <1>3, <1>4 DEF BudgetsNext

LEMMA BudgetsSafe == BudgetsInv => CarryIsEarned /\ AlertsFollowStatus
  BY DEF BudgetsInv, EarnedEverywhere, EarnedIn, LevelIsTold, OneAtATime, CarryIsEarned, AlertsFollowStatus

-----------------------------------------------------------------------------
(* Reports                                                                 *)

Entered == DOMAIN bought

ReportsInv ==
    /\ bought \in [Entered -> Buy] /\ Entered \subseteq Buys
    /\ IsFiniteSet(Entered)

LEMMA ReportsStart == ReportsInit => ReportsInv
<1> SUFFICES ASSUME ReportsInit PROVE ReportsInv
  OBVIOUS
<1>1. bought = <<>> /\ Entered = {}
  BY DEF ReportsInit, Entered
<1> QED
  BY <1>1, FS_EmptySet DEF ReportsInv, Entered

LEMMA ReportsSteps == ReportsInv /\ [ReportsNext]_bought => ReportsInv'
<1> SUFFICES ASSUME ReportsInv, [ReportsNext]_bought PROVE ReportsInv'
  OBVIOUS
<1>1. CASE UNCHANGED bought
  BY <1>1 DEF ReportsInv, Entered
<1>2. ASSUME NEW x \in Buys, NEW buy \in Buy, EnterExpense(x, buy) PROVE ReportsInv'
  <2>1. bought' \in [Entered \cup {x} -> Buy] /\ Entered' = Entered \cup {x}
    BY <1>2 DEF EnterExpense, ReportsInv, Entered
  <2>2. IsFiniteSet(Entered \cup {x})
    BY FS_AddElement DEF ReportsInv
  <2> QED
    BY <2>1, <2>2 DEF ReportsInv
<1> QED
  BY <1>1, <1>2 DEF ReportsNext

\* What the expenses of a set cost together.
PriceList == [x \in Entered |-> Price(x)]

LEMMA PriceListIs ==
    ASSUME ReportsInv
    PROVE  /\ PriceList \in [Entered -> Nat] /\ PriceList \in [Entered -> Int] /\ IsFiniteSet(Entered)
           /\ \A x \in Entered : /\ Price(x) \in Nat \ {0} /\ PriceList[x] = Price(x)
                                 /\ bought[x].day \in 1..Present /\ bought[x].category \in Categories
           /\ \A xs \in SUBSET Entered : Total(xs) = SumFunction(Restrict(PriceList, xs))
<1>1. IsFiniteSet(Entered)
  BY DEF ReportsInv
<1>2. ASSUME NEW x \in Entered
      PROVE  /\ Price(x) \in Nat \ {0} /\ PriceList[x] = Price(x)
             /\ bought[x].day \in 1..Present /\ bought[x].category \in Categories
  <2>1. bought[x] \in [day : 1..Present, category : Categories, price : Prices]
    BY DEF ReportsInv, Buy, ReportDays
  <2>2. Price(x) \in Prices
    BY <2>1 DEF Price
  <2> QED
    BY <2>1, <2>2, ReportsAssumption DEF PriceList
<1>3. PriceList \in [Entered -> Nat] /\ PriceList \in [Entered -> Int]
  BY <1>2 DEF PriceList
<1>4. ASSUME NEW xs \in SUBSET Entered PROVE Total(xs) = SumFunction(Restrict(PriceList, xs))
  <2>1. [x \in xs |-> Price(x)] = Restrict(PriceList, xs)
    BY DEF Restrict, PriceList
  <2> QED
    BY <2>1 DEF Total
<1> QED
  BY <1>1, <1>2, <1>3, <1>4

LEMMA TotalGrows ==
    ASSUME ReportsInv, NEW xs \in SUBSET Entered
    PROVE  /\ Total(xs) \in Nat /\ Total(xs) <= Total(Entered)
           /\ \A ys \in SUBSET xs : Total(ys) <= Total(xs)
           /\ \A x \in xs : Price(x) <= Total(xs)
<1>1. ASSUME NEW zs \in SUBSET Entered
      PROVE  /\ Total(zs) \in Nat
             /\ \A ys \in SUBSET zs : Total(ys) <= Total(zs)
             /\ \A x \in zs : Price(x) <= Total(zs)
  <2>1. /\ SumFunction(Restrict(PriceList, zs)) \in Nat
        /\ \A ys \in SUBSET zs : SumFunction(Restrict(PriceList, ys)) <= SumFunction(Restrict(PriceList, zs))
        /\ \A x \in zs : PriceList[x] <= SumFunction(Restrict(PriceList, zs))
    BY PriceListIs, SumGrows
  <2>2. \A ys \in SUBSET zs : ys \in SUBSET Entered
    OBVIOUS
  <2> QED
    BY <2>1, <2>2, PriceListIs
<1> QED
  BY <1>1

LEMMA TotalOfTwo ==
    ASSUME ReportsInv, NEW xs \in SUBSET Entered, NEW ys \in SUBSET Entered, xs \cap ys = {}
    PROVE  Total(xs \cup ys) = Total(xs) + Total(ys)
<1>1. xs \cup ys \in SUBSET Entered
  OBVIOUS
<1>2. SumFunction(Restrict(PriceList, xs \cup ys))
        = SumFunction(Restrict(PriceList, xs)) + SumFunction(Restrict(PriceList, ys))
  BY PriceListIs, SumOfUnion
<1> QED
  BY <1>1, <1>2, PriceListIs

\* A set of expenses cut in parts.
PartsOf(xs, I, p) ==
    /\ IsFiniteSet(I) /\ p \in [I -> SUBSET Entered]
    /\ \A i, j \in I : i # j => p[i] \cap p[j] = {}
    /\ \A x \in Entered : x \in xs <=> \E i \in I : x \in p[i]

LEMMA TotalOfParts ==
    ASSUME ReportsInv, NEW xs \in SUBSET Entered, NEW I, NEW p, PartsOf(xs, I, p)
    PROVE  SumFunction([i \in I |-> Total(p[i])]) = Total(xs)
<1>1. /\ IsFiniteSet(I) /\ p \in [I -> SUBSET Entered] /\ \A i, j \in I : i # j => p[i] \cap p[j] = {}
      /\ xs = UNION {p[i] : i \in I}
  BY DEF PartsOf
<1>2. PICK totals : totals = [i \in I |-> Total(p[i])] /\ totals = [i \in I |-> SumFunction(Restrict(PriceList, p[i]))]
  BY <1>1, PriceListIs
<1>3. \A i, j \in I : i # j => p[i] \cap p[j] = {}
  BY <1>1
<1>4. SumFunction(totals) = SumFunction(Restrict(PriceList, UNION {p[i] : i \in I}))
  BY <1>1, <1>2, <1>3, PriceListIs, SumOfParts
<1> QED
  BY <1>1, <1>2, <1>4, PriceListIs

\* By category.
LEMMA TotalByCategory ==
    ASSUME ReportsInv, NEW xs \in SUBSET Entered, NEW totals, totals = [c \in Categories |-> Total(Of(xs, c))]
    PROVE  SumFunction(totals) = Total(xs)
<1>1. PICK p : p = [c \in Categories |-> Of(xs, c)]
  OBVIOUS
<1>2. PartsOf(xs, Categories, p)
  <2>1. p \in [Categories -> SUBSET Entered] /\ IsFiniteSet(Categories)
    BY <1>1, ReportsAssumption DEF Of
  <2>2. \A i, j \in Categories : i # j => p[i] \cap p[j] = {}
    BY <1>1 DEF Of
  <2>3. \A x \in Entered : x \in xs <=> \E i \in Categories : x \in p[i]
    BY <1>1, PriceListIs DEF Of
  <2> QED
    BY <2>1, <2>2, <2>3 DEF PartsOf
<1>3. totals = [c \in Categories |-> Total(p[c])]
  BY <1>1
<1> QED
  BY <1>2, <1>3, TotalOfParts

\* The quotient of a number.
LEMMA Quotient ==
    ASSUME NEW a \in Nat, NEW n \in Nat \ {0}
    PROVE  \E q \in Nat : q = a \div n /\ q * n <= a /\ a < (q + 1) * n
<1>1. a = n * (a \div n) + (a % n) /\ a \div n \in Int /\ a % n \in 0..(n - 1)
  OBVIOUS
<1>2. PICK q \in Int, r \in 0..(n - 1) : q = a \div n /\ r = a % n /\ a = n * q + r
  BY <1>1
<1>3. q >= 0
  <2> SUFFICES ASSUME q <= -1 PROVE FALSE
    OBVIOUS
  <2>1. n * q <= n * (-1)
    OBVIOUS
  <2> QED
    BY <1>2, <2>1
<1>4. q * n = n * q /\ (q + 1) * n = n * q + n
  OBVIOUS
<1> QED
  BY <1>2, <1>3, <1>4

\* A day is in one month.
LEMMA MonthOfDay ==
    ASSUME NEW d \in 1..Present PROVE \E m \in Months : d \in MonthDays(m)
<1>0. Present \in Nat /\ MonthLength \in Nat \ {0} /\ d \in Nat \ {0} /\ d <= Present
  BY ReportsAssumption
<1>1. PICK q \in Nat : q = (d - 1) \div MonthLength /\ q * MonthLength <= d - 1
                       /\ d - 1 < (q + 1) * MonthLength
  BY <1>0, Quotient
<1>2. PICK l \in Nat : l = (Present - 1) \div MonthLength /\ l * MonthLength <= Present - 1
                       /\ Present - 1 < (l + 1) * MonthLength
  BY <1>0, Quotient
<1>3. q <= l
  <2> SUFFICES ASSUME l + 1 <= q PROVE FALSE
    OBVIOUS
  <2>1. (l + 1) * MonthLength <= q * MonthLength
    BY <1>0
  <2> QED
    BY <1>0, <1>1, <1>2, <2>1
<1>4. q \in Months
  BY <1>2, <1>3 DEF Months
<1>5. d \in MonthDays(q)
  BY <1>0, <1>1 DEF MonthDays
<1> QED
  BY <1>4, <1>5

LEMMA MonthIsOne ==
    ASSUME NEW m \in Months, NEW k \in Months, m # k PROVE MonthDays(m) \cap MonthDays(k) = {}
<1>1. MonthLength \in Nat \ {0} /\ m \in Int /\ k \in Int
  BY ReportsAssumption DEF Months
<1>2. ASSUME NEW a \in Int, NEW b \in Int, a < b PROVE MonthDays(a) \cap MonthDays(b) = {}
  <2>1. (a + 1) * MonthLength <= b * MonthLength
    BY <1>1, <1>2
  <2> QED
    BY <1>1, <2>1 DEF MonthDays
<1>3. m < k \/ k < m
  BY <1>1
<1> QED
  BY <1>1, <1>2, <1>3

LEMMA MonthsAreFinite == IsFiniteSet(Months)
<1>1. (Present - 1) \div MonthLength \in Int
  BY ReportsAssumption
<1> QED
  BY <1>1, FS_Interval DEF Months

\* By month, of any of the expenses.
LEMMA TotalByMonth ==
    ASSUME ReportsInv, NEW xs \in SUBSET Entered
    PROVE  SumFunction([m \in Months |-> Total(On(MonthDays(m)) \cap xs)]) = Total(xs)
<1>1. PICK p : p = [m \in Months |-> On(MonthDays(m)) \cap xs]
  OBVIOUS
<1>2. PartsOf(xs, Months, p)
  <2>1. p \in [Months -> SUBSET Entered]
    BY <1>1
  <2>2. \A i, j \in Months : i # j => p[i] \cap p[j] = {}
    BY <1>1, MonthIsOne DEF On
  <2>3. ASSUME NEW x \in Entered PROVE x \in xs <=> \E i \in Months : x \in p[i]
    <3>1. PICK m \in Months : bought[x].day \in MonthDays(m)
      BY PriceListIs, MonthOfDay
    <3> QED
      BY <1>1, <3>1 DEF On, Entered
  <2> QED
    BY <2>1, <2>2, <2>3, MonthsAreFinite DEF PartsOf
<1>3. [m \in Months |-> Total(On(MonthDays(m)) \cap xs)] = [m \in Months |-> Total(p[m])]
  BY <1>1
<1>4. SumFunction([m \in Months |-> Total(p[m])]) = Total(xs)
  BY <1>2, TotalOfParts
<1> QED
  BY <1>3, <1>4

\* The largest of some numbers that have a bound.
LEMMA LargestIs ==
    ASSUME NEW b \in Nat, NEW ns \in SUBSET (0..b)
    PROVE  /\ Largest(ns) \in {0} \cup ns /\ Largest(ns) \in 0..b
           /\ \A n \in ns : n <= Largest(ns)
<1> DEFINE all == {0} \cup ns
           Below == {b - n : n \in all}
<1>0. \A n \in all : n \in Nat /\ n <= b
  OBVIOUS
<1>1. PICK k \in Below : \A j \in Below : k <= j
  <2>1. Below \subseteq Nat /\ Below # {}
    BY <1>0
  <2> HIDE DEF Below
  <2> QED
    BY <2>1, LeastOf
<1>2. PICK x \in all : k = b - x
  OBVIOUS
<1>3. \A y \in all : x >= y
  BY <1>0, <1>1, <1>2
<1>4. Largest(ns) = Max(all)
  BY DEF Largest
<1>5. Max(all) \in all /\ \A y \in all : Max(all) >= y
  <2> HIDE DEF all
  <2> QED
    BY <1>3 DEF Max
<1> HIDE DEF Below, all
<1>6. PICK y \in all : y = Max(all)
  BY <1>5
<1>7. Max(all) \in 0..b
  BY <1>0, <1>6
<1> USE DEF all
<1> QED
  BY <1>4, <1>5, <1>7

-----------------------------------------------------------------------------
\* Periods count every expense of their days once.
RecapsOf == [m \in Months |-> RecapOf(m)]

LEMMA RecapIs ==
    ASSUME NEW m \in Months
    PROVE  LET xs == On(MonthDays(m))
               r == RecapsOf[m]
           IN  /\ r["totalSpent"] = Total(xs)
               /\ r["weekendTotal"] = Total({x \in xs : Weekend(x)})
               /\ r["weekdayTotal"] = Total({x \in xs : ~Weekend(x)})
               /\ \A c \in Categories : r.categories[c] = Total(Of(xs, c))
               /\ r.topSpendingDay = Largest({Total(On({d})) : d \in MonthDays(m)})
               /\ r.biggestExpense = Largest({Price(x) : x \in xs})
  BY DEF RecapsOf, RecapOf

LEMMA TotalOfRecaps ==
    ASSUME ReportsInv
    PROVE  /\ Sum(RecapsOf, Months, "totalSpent") = Total(Entered)
           /\ Sum(RecapsOf, Months, "weekendTotal") = Total({x \in Entered : Weekend(x)})
           /\ Sum(RecapsOf, Months, "weekdayTotal") = Total({x \in Entered : ~Weekend(x)})
           /\ \A c \in Categories :
                SumFunction([m \in Months |-> RecapsOf[m].categories[c]]) = Total(Of(Entered, c))
<1>1. \A xs \in SUBSET Entered :
        SumFunction([m \in Months |-> Total(On(MonthDays(m)) \cap xs)]) = Total(xs)
  BY TotalByMonth
<1>2. Sum(RecapsOf, Months, "totalSpent") = Total(Entered)
  <2>1. \A m \in Months : On(MonthDays(m)) = On(MonthDays(m)) \cap Entered
    BY DEF On, Entered
  <2>2. [m \in Months |-> RecapsOf[m]["totalSpent"]] = [m \in Months |-> Total(On(MonthDays(m)) \cap Entered)]
    BY <2>1, RecapIs
  <2> QED
    BY <1>1, <2>2 DEF Sum
<1>3. Sum(RecapsOf, Months, "weekendTotal") = Total({x \in Entered : Weekend(x)})
  <2> DEFINE xs == {x \in Entered : Weekend(x)}
  <2>1. \A m \in Months : {x \in On(MonthDays(m)) : Weekend(x)} = On(MonthDays(m)) \cap xs
    BY DEF On, Entered
  <2>2. [m \in Months |-> RecapsOf[m]["weekendTotal"]] = [m \in Months |-> Total(On(MonthDays(m)) \cap xs)]
    BY <2>1, RecapIs
  <2>3. xs \in SUBSET Entered
    OBVIOUS
  <2> HIDE DEF xs
  <2>4. Sum(RecapsOf, Months, "weekendTotal") = Total(xs)
    BY <1>1, <2>2, <2>3 DEF Sum
  <2> QED
    BY <2>4 DEF xs
<1>4. Sum(RecapsOf, Months, "weekdayTotal") = Total({x \in Entered : ~Weekend(x)})
  <2> DEFINE xs == {x \in Entered : ~Weekend(x)}
  <2>1. \A m \in Months : {x \in On(MonthDays(m)) : ~Weekend(x)} = On(MonthDays(m)) \cap xs
    BY DEF On, Entered
  <2>2. [m \in Months |-> RecapsOf[m]["weekdayTotal"]] = [m \in Months |-> Total(On(MonthDays(m)) \cap xs)]
    BY <2>1, RecapIs
  <2>3. xs \in SUBSET Entered
    OBVIOUS
  <2> HIDE DEF xs
  <2>4. Sum(RecapsOf, Months, "weekdayTotal") = Total(xs)
    BY <1>1, <2>2, <2>3 DEF Sum
  <2> QED
    BY <2>4 DEF xs
<1>5. ASSUME NEW c \in Categories
      PROVE  SumFunction([m \in Months |-> RecapsOf[m].categories[c]]) = Total(Of(Entered, c))
  <2> DEFINE xs == Of(Entered, c)
  <2>1. \A m \in Months : Of(On(MonthDays(m)), c) = On(MonthDays(m)) \cap xs
    BY DEF On, Entered, Of
  <2>2. [m \in Months |-> RecapsOf[m].categories[c]] = [m \in Months |-> Total(On(MonthDays(m)) \cap xs)]
    BY <2>1, RecapIs
  <2>3. xs \in SUBSET Entered
    BY DEF Of
  <2> HIDE DEF xs
  <2>4. SumFunction([m \in Months |-> RecapsOf[m].categories[c]]) = Total(xs)
    BY <1>1, <2>2, <2>3
  <2> QED
    BY <2>4 DEF xs
<1> QED
  BY <1>2, <1>3, <1>4, <1>5

\* The periods of the detector follow each other.
LEMMA TotalByPeriod ==
    ASSUME ReportsInv
    PROVE  SumFunction([i \in 0..Lookback |-> SumFunction([c \in Categories |-> groupByCategory(i, c)])])
                = Total(On((Present - (Lookback + 1) * AlertDays + 1)..Present))
<1> DEFINE xs == On((Present - (Lookback + 1) * AlertDays + 1)..Present)
           p == [i \in 0..Lookback |-> On(getPeriodRanges(i))]
           totals == [i \in 0..Lookback |-> SumFunction([c \in Categories |-> groupByCategory(i, c)])]
<1>0. Present \in Nat /\ AlertDays \in Nat \ {0} /\ Lookback \in Nat
  BY ReportsAssumption
<1>1. \A days : On(days) \in SUBSET Entered
  BY DEF On, Entered
<1>2. totals = [i \in 0..Lookback |-> Total(p[i])]
  <2> SUFFICES ASSUME NEW i \in 0..Lookback
               PROVE  SumFunction([c \in Categories |-> groupByCategory(i, c)]) = Total(On(getPeriodRanges(i)))
    OBVIOUS
  <2>1. [c \in Categories |-> groupByCategory(i, c)] = [c \in Categories |-> Total(Of(On(getPeriodRanges(i)), c))]
    BY DEF groupByCategory
  <2> QED
    BY <1>1, <2>1, TotalByCategory
<1>3. p \in [0..Lookback -> SUBSET Entered]
  BY <1>1
<1>4. \A i, j \in 0..Lookback : i # j => p[i] \cap p[j] = {}
  <2>1. ASSUME NEW i \in 0..Lookback, NEW j \in 0..Lookback, i < j
        PROVE  getPeriodRanges(i) \cap getPeriodRanges(j) = {}
    <3>1. (i + 1) * AlertDays <= j * AlertDays
      BY <1>0, <2>1
    <3> QED
      BY <1>0, <3>1 DEF getPeriodRanges
  <2>2. \A i, j \in 0..Lookback : i # j => i < j \/ j < i
    BY <1>0
  <2> QED
    BY <2>1, <2>2 DEF On
<1>5. ASSUME NEW x \in Entered PROVE x \in xs <=> \E i \in 0..Lookback : x \in p[i]
  <2>1. PICK d \in 1..Present : d = bought[x].day
    BY PriceListIs
  <2>2. PICK q \in Nat : q * AlertDays <= Present - d /\ Present - d < (q + 1) * AlertDays
    <3>1. Present - d \in Nat
      BY <1>0
    <3> QED
      BY <1>0, <3>1, Quotient
  <2>3. d \in getPeriodRanges(q)
    BY <1>0, <2>2 DEF getPeriodRanges
  <2>4. ASSUME x \in xs PROVE \E i \in 0..Lookback : x \in p[i]
    <3>1. Present - d < (Lookback + 1) * AlertDays
      BY <1>0, <2>1, <2>4 DEF On
    <3>2. q <= Lookback
      <4> SUFFICES ASSUME Lookback + 1 <= q PROVE FALSE
        BY <1>0
      <4>1. (Lookback + 1) * AlertDays <= q * AlertDays
        BY <1>0
      <4> QED
        BY <1>0, <2>2, <3>1, <4>1
    <3> QED
      BY <1>0, <2>1, <2>3, <3>2 DEF On, Entered
  <2>5. ASSUME NEW i \in 0..Lookback, x \in p[i] PROVE x \in xs
    <3>1. d \in getPeriodRanges(i)
      BY <2>1, <2>5 DEF On
    <3>2. (i + 1) * AlertDays <= (Lookback + 1) * AlertDays
      BY <1>0
    <3>3. d \in (Present - (Lookback + 1) * AlertDays + 1)..Present
      BY <1>0, <3>1, <3>2 DEF getPeriodRanges
    <3> QED
      BY <2>1, <3>3 DEF On, Entered
  <2> QED
    BY <2>4, <2>5
<1>6. IsFiniteSet(0..Lookback) /\ xs \in SUBSET Entered
  BY <1>0, <1>1, FS_Interval
<1> HIDE DEF xs, p, totals
<1>7. PartsOf(xs, 0..Lookback, p)
  <2>1. \A x \in Entered : x \in xs <=> \E i \in 0..Lookback : x \in p[i]
    BY <1>5
  <2> QED
    BY <1>3, <1>4, <1>6, <2>1 DEF PartsOf
<1>8. SumFunction(totals) = Total(xs)
  BY <1>2, <1>6, <1>7, TotalOfParts
<1> QED
  BY <1>8 DEF totals, xs

LEMMA PeriodsAreCounted == ASSUME ReportsInv PROVE PeriodsCountOnce
<1>0. Present \in Nat /\ Period \in Nat \ {0}
  BY ReportsAssumption
<1>1. \A days : On(days) \in SUBSET Entered
  BY DEF On, Entered
<1>2. Total(On(periodRange)) + Total(On(prevRange)) = Total(On((Present - 2 * Period - 1)..Present))
  <2>1. periodRange \cap prevRange = {} /\ periodRange \cup prevRange = (Present - 2 * Period - 1)..Present
    BY <1>0 DEF periodRange, prevRange
  <2>2. /\ On(periodRange) \cap On(prevRange) = {}
        /\ On(periodRange) \cup On(prevRange) = On((Present - 2 * Period - 1)..Present)
    BY <2>1 DEF On
  <2>3. Total(On(periodRange) \cup On(prevRange)) = Total(On(periodRange)) + Total(On(prevRange))
    BY <1>1, <2>2, TotalOfTwo
  <2> QED
    BY <2>2, <2>3
<1> QED
  BY <1>2, TotalOfRecaps, TotalByPeriod DEF PeriodsCountOnce, RecapsOf, Entered

-----------------------------------------------------------------------------
\* Parts make the total.
LEMMA LargestOfAll ==
    ASSUME ReportsInv, NEW ns, ns \subseteq {Price(x) : x \in Entered} \cup {Total(xs) : xs \in SUBSET Entered} \cup {0}
    PROVE  /\ Largest(ns) \in {0} \cup ns /\ Largest(ns) \in 0..Total(Entered)
           /\ \A n \in ns : n <= Largest(ns)
<1>1. Total(Entered) \in Nat
  BY TotalGrows
<1>2. ns \in SUBSET (0..Total(Entered))
  <2>1. \A x \in Entered : Price(x) \in 0..Total(Entered)
    BY <1>1, TotalGrows, PriceListIs
  <2>2. \A xs \in SUBSET Entered : Total(xs) \in 0..Total(Entered)
    BY <1>1, TotalGrows
  <2> QED
    BY <1>1, <2>1, <2>2
<1> QED
  BY <1>1, <1>2, LargestIs

LEMMA BiggestOfRecap ==
    ASSUME ReportsInv, NEW m \in Months
    PROVE  /\ RecapsOf[m].biggestExpense \in {0} \cup {Price(x) : x \in Entered}
           /\ RecapsOf[m].biggestExpense <= RecapsOf[m].topSpendingDay
<1> DEFINE prices == {Price(x) : x \in On(MonthDays(m))}
           days == {Total(On({d})) : d \in MonthDays(m)}
<1>0. \A ds : On(ds) \in SUBSET Entered
  BY DEF On, Entered
<1>1. RecapsOf[m].biggestExpense = Largest(prices) /\ RecapsOf[m].topSpendingDay = Largest(days)
  BY RecapIs
<1>2. prices \subseteq {Price(x) : x \in Entered} /\ days \subseteq {Total(xs) : xs \in SUBSET Entered}
  BY <1>0
<1>3. /\ Largest(prices) \in {0} \cup prices
      /\ Largest(days) \in 0..Total(Entered) /\ \A n \in days : n <= Largest(days)
  <2> HIDE DEF prices, days
  <2> QED
    BY <1>2, LargestOfAll
<1>4. Largest(prices) <= Largest(days)
  <2>1. CASE Largest(prices) = 0
    BY <1>3, <2>1
  <2>2. CASE Largest(prices) \in prices
    <3>1. PICK x \in On(MonthDays(m)) : Largest(prices) = Price(x)
      BY <2>2
    <3>2. PICK d \in MonthDays(m) : d = bought[x].day /\ x \in On({d})
      BY <3>1 DEF On
    <3>3. Price(x) <= Total(On({d})) /\ Total(On({d})) <= Largest(days)
      BY <1>0, <1>3, <3>2, TotalGrows
    <3>4. Price(x) \in Int /\ Total(On({d})) \in Int /\ Largest(days) \in Int
      BY <1>0, <1>3, TotalGrows, PriceListIs
    <3> HIDE DEF prices, days
    <3> QED
      BY <3>1, <3>3, <3>4
  <2> QED
    BY <1>3, <2>1, <2>2
<1> HIDE DEF prices, days
<1>5. prices \subseteq {Price(x) : x \in Entered}
  BY <1>2
<1> QED
  BY <1>1, <1>3, <1>4, <1>5

LEMMA PartsAreTotals == ASSUME ReportsInv PROVE PartsMakeTheTotal
<1> DEFINE all == aggregateRecaps(RecapsOf, Months)
           ofPage == computeSpendingByCategory(periodRange)
<1>0. /\ Entered \in SUBSET Entered /\ \A ds : On(ds) \in SUBSET Entered
      /\ \A c : \A xs \in SUBSET Entered : Of(xs, c) \in SUBSET Entered
  BY DEF On, Of, Entered
<1>1. /\ all.totalSpent = Total(Entered)
      /\ all.weekendTotal = Total({x \in Entered : Weekend(x)})
      /\ all.weekdayTotal = Total({x \in Entered : ~Weekend(x)})
      /\ all.categories = [c \in Categories |-> Total(Of(Entered, c))]
      /\ all.topCategory = Largest({all.categories[c] : c \in Categories})
      /\ all.biggestExpense = Largest({RecapsOf[m].biggestExpense : m \in Months})
  <2>1. [c \in Categories |-> SumFunction([m \in Months |-> RecapsOf[m].categories[c]])]
            = [c \in Categories |-> Total(Of(Entered, c))]
    BY TotalOfRecaps
  <2>2. /\ all.totalSpent = Sum(RecapsOf, Months, "totalSpent")
        /\ all.weekendTotal = Sum(RecapsOf, Months, "weekendTotal")
        /\ all.weekdayTotal = Sum(RecapsOf, Months, "weekdayTotal")
        /\ all.categories = [c \in Categories |-> SumFunction([m \in Months |-> RecapsOf[m].categories[c]])]
        /\ all.topCategory = Largest({all.categories[c] : c \in Categories})
        /\ all.biggestExpense = Largest({RecapsOf[m].biggestExpense : m \in Months})
    BY DEF aggregateRecaps
  <2> HIDE DEF all
  <2> QED
    BY <2>1, <2>2, TotalOfRecaps
<1> HIDE DEF all
<1>2. all.weekdayTotal + all.weekendTotal = all.totalSpent
  <2>1. PICK xs \in SUBSET Entered, ys \in SUBSET Entered :
            xs = {x \in Entered : ~Weekend(x)} /\ ys = {x \in Entered : Weekend(x)}
    OBVIOUS
  <2>2. xs \cap ys = {} /\ xs \cup ys = Entered
    BY <2>1
  <2>3. Total(xs \cup ys) = Total(xs) + Total(ys)
    BY <2>2, TotalOfTwo
  <2> QED
    BY <1>1, <2>1, <2>2, <2>3
<1>3. SumFunction(all.categories) = all.totalSpent
  BY <1>0, <1>1, TotalByCategory
<1>4. /\ Largest({all.categories[c] : c \in Categories}) \in 0..Total(Entered)
      /\ \A c \in Categories : Total(Of(Entered, c)) <= all.topCategory
  <2> DEFINE ns == {all.categories[c] : c \in Categories}
  <2>1. ns = {Total(Of(Entered, c)) : c \in Categories}
    BY <1>1
  <2>2. ns \subseteq {Total(xs) : xs \in SUBSET Entered}
    BY <1>0, <2>1
  <2>3. all.topCategory = Largest(ns)
    BY <1>1
  <2> HIDE DEF ns
  <2>4. Largest(ns) \in 0..Total(Entered) /\ \A n \in ns : n <= Largest(ns)
    BY <2>2, LargestOfAll
  <2> QED
    BY <2>1, <2>3, <2>4 DEF ns
<1>5. all.topCategory <= all.totalSpent
  BY <1>1, <1>4
<1>6. all.biggestExpense <= all.topCategory
  <2> DEFINE ns == {RecapsOf[m].biggestExpense : m \in Months}
  <2>1. ns \subseteq {0} \cup {Price(x) : x \in Entered}
    BY BiggestOfRecap
  <2>2. all.biggestExpense = Largest(ns)
    BY <1>1
  <2> HIDE DEF ns
  <2>3. Largest(ns) \in {0} \cup ns
    BY <2>1, LargestOfAll
  <2>4. all.topCategory \in Nat
    BY <1>1, <1>4
  <2>5. ASSUME NEW x \in Entered PROVE Price(x) <= all.topCategory
    <3>1. PICK c \in Categories : c = bought[x].category
      BY PriceListIs
    <3>2. x \in Of(Entered, c)
      BY <3>1 DEF Of
    <3>3. Price(x) <= Total(Of(Entered, c)) /\ Total(Of(Entered, c)) <= all.topCategory
      BY <1>0, <1>4, <3>2, TotalGrows
    <3>4. Price(x) \in Int /\ Total(Of(Entered, c)) \in Int
      BY <1>0, TotalGrows, PriceListIs
    <3> QED
      BY <2>4, <3>3, <3>4
  <2>6. Largest(ns) = 0 \/ \E x \in Entered : Largest(ns) = Price(x)
    BY <2>1, <2>3
  <2> QED
    BY <2>2, <2>4, <2>5, <2>6
<1>7. \A m \in Months : RecapOf(m).biggestExpense <= RecapOf(m).topSpendingDay
  BY BiggestOfRecap DEF RecapsOf
<1>8. SumFunction(ofPage) = Total(On(periodRange))
  <2>1. ofPage = [c \in Categories |-> Total(Of(On(periodRange), c))]
    BY DEF computeSpendingByCategory
  <2> QED
    BY <1>0, <2>1, TotalByCategory
<1>9. Total(On(periodRange)) - Total(On(barDays)) = Total(On({Present - Period}))
  <2>1. Present \in Nat /\ Period \in Nat \ {0}
    BY ReportsAssumption
  <2>2. barDays \cap {Present - Period} = {} /\ barDays \cup {Present - Period} = periodRange
    BY <2>1 DEF barDays, periodRange
  <2>3. On(barDays) \cap On({Present - Period}) = {} /\ On(barDays) \cup On({Present - Period}) = On(periodRange)
    BY <2>2 DEF On
  <2>4. Total(On(periodRange)) = Total(On(barDays)) + Total(On({Present - Period}))
    BY <1>0, <2>3, TotalOfTwo
  <2>5. Total(On(barDays)) \in Int /\ Total(On({Present - Period})) \in Int
    BY <1>0, TotalGrows
  <2> QED
    BY <2>4, <2>5
<1>10. aggregateRecaps([m \in Months |-> RecapOf(m)], Months) = all
  BY DEF all, RecapsOf
<1> HIDE DEF ofPage
<1> QED
  BY <1>2, <1>3, <1>5, <1>6, <1>7, <1>8, <1>9, <1>10 DEF PartsMakeTheTotal, ofPage

\* What is compared with the average of some periods, and exceeds it, exceeds one of them.
LEMMA AlertsOutgrow == ASSUME ReportsInv PROVE AlertsAreOutgrowth
<1> SUFFICES ASSUME NEW c \in Categories, detectUnusualSpending(c) # "none"
             PROVE  \E i \in 1..Lookback : 0 < groupByCategory(i, c) /\ groupByCategory(i, c) < groupByCategory(0, c)
  BY DEF AlertsAreOutgrowth
<1> DEFINE f == [i \in Past(c) |-> groupByCategory(i, c)]
<1>1. \A i : groupByCategory(i, c) \in Nat
  <2>1. \A i : Of(On(getPeriodRanges(i)), c) \in SUBSET Entered
    BY DEF Of, On, Entered
  <2> QED
    BY <2>1, TotalGrows DEF groupByCategory
<1>2. PICK k \in Nat : k = groupByCategory(0, c)
  BY <1>1
<1>3. IsFiniteSet(Past(c))
  <2>1. IsFiniteSet(1..Lookback) /\ Past(c) \subseteq 1..Lookback
    BY ReportsAssumption, FS_Interval DEF Past
  <2> QED
    BY <2>1, FS_Subset
<1>4. PICK n \in Nat : n = PeriodsCompared(c) /\ n = Cardinality(Past(c))
  BY <1>3, FS_CardinalityType DEF PeriodsCompared
<1>5. PICK h \in Int : h = SumFunction(f)
  <2>1. f \in [Past(c) -> Int]
    BY <1>1
  <2> HIDE DEF f
  <2> QED
    BY <1>3, <2>1, SumIsInt
<1>6. k * n # 0 /\ 10 * (k * n) >= 12 * h
  <2>1. PICK kn \in Int : kn = k * n
    OBVIOUS
  <2>2. kn # 0 /\ ~(10 * kn < 12 * h)
    BY <1>2, <1>4, <1>5, <2>1 DEF detectUnusualSpending
  <2> QED
    BY <2>1, <2>2
<1> SUFFICES ASSUME \A i \in Past(c) : groupByCategory(i, c) >= k PROVE FALSE
  <2>1. PICK i \in Past(c) : ~(groupByCategory(i, c) >= k)
    OBVIOUS
  <2>2. i \in 1..Lookback /\ 0 < groupByCategory(i, c)
    BY <2>1 DEF Past
  <2> QED
    BY <1>1, <1>2, <2>1, <2>2
<1>7. h >= n * k
  <2>1. f \in [Past(c) -> Int] /\ \A i \in Past(c) : f[i] >= k
    BY <1>1
  <2> HIDE DEF f
  <2> QED
    BY <1>3, <1>4, <1>5, <2>1, SumAtLeast
<1>8. PICK u \in Nat : u = k * n /\ u = n * k
  OBVIOUS
<1> QED
  BY <1>6, <1>7, <1>8

LEMMA ReportsSafe == ReportsInv => PeriodsCountOnce /\ PartsMakeTheTotal /\ AlertsAreOutgrowth
  BY PeriodsAreCounted, PartsAreTotals, AlertsOutgrow

-----------------------------------------------------------------------------
(* The notifications                                                       *)

EntryLists == Seq(Entries)
Asked == [kind : {"none", "fetched", "read", "all", "delete"}, id : Notices, rows : EntryLists]

\* No notification twice.
Distinct(l) == \A i, j \in DOMAIN l : l[i].id = l[j].id => i = j
UnreadPlaces(l) == {i \in DOMAIN l : ~l[i].isRead}

AsksAre == ask \in [Asks -> Asked] /\ \A q \in Asks : Distinct(ask[q].rows)

Counts ==
    /\ list \in EntryLists /\ unreadCount \in Nat /\ unreadCount >= Unread(list)
    /\ doubled \in BOOLEAN /\ (~doubled => unreadCount = Unread(list) /\ Distinct(list))

InboxInv == AsksAre /\ events \subseteq Notices /\ Counts

LEMMA ListIs ==
    ASSUME NEW l \in EntryLists
    PROVE  /\ Len(l) \in Nat /\ DOMAIN l = 1..Len(l) /\ l = [i \in 1..Len(l) |-> l[i]]
           /\ \A i \in DOMAIN l : i \in Nat /\ l[i] \in Entries
           /\ IsFiniteSet(DOMAIN l) /\ IsFiniteSet(UnreadPlaces(l)) /\ Unread(l) \in Nat
           /\ Unread(l) = Cardinality(UnreadPlaces(l))
<1>1. Len(l) \in Nat /\ DOMAIN l = 1..Len(l) /\ l = [i \in 1..Len(l) |-> l[i]] /\ \A i \in DOMAIN l : l[i] \in Entries
  BY DEF EntryLists
<1>2. IsFiniteSet(DOMAIN l)
  <2>1. 1 \in Int /\ Len(l) \in Int
    BY <1>1
  <2> QED
    BY <1>1, <2>1, FS_Interval
<1>3. IsFiniteSet(UnreadPlaces(l)) /\ Cardinality(UnreadPlaces(l)) \in Nat
  BY <1>2, FS_Subset, FS_CardinalityType DEF UnreadPlaces
<1> QED
  BY <1>1, <1>2, <1>3 DEF Unread, UnreadPlaces

\* The places of a list by their rank.
LEMMA PlacesRanked ==
    ASSUME NEW N \in Nat, NEW places \in SUBSET (1..N)
    PROVE  /\ IsFiniteSet(places) /\ Cardinality(places) \in Nat
           /\ \A k \in 1..Cardinality(places) : \E i \in places : Ordinal(places, i) = k
           /\ \A i \in places : Ordinal(places, i) \in 1..Cardinality(places)
           /\ \A i, j \in places : Ordinal(places, i) = Ordinal(places, j) => i = j
           /\ \A i, j \in places : i < j => Ordinal(places, i) < Ordinal(places, j)
<1>1. IsFiniteSet(places) /\ Cardinality(places) \in Nat
  <2>1. IsFiniteSet(1..N)
    <3>1. 1 \in Int /\ N \in Int
      OBVIOUS
    <3> QED
      BY <3>1, FS_Interval
  <2>2. IsFiniteSet(places)
    BY <2>1, FS_Subset
  <2> QED
    BY <2>2, FS_CardinalityType
<1> DEFINE Upto(i) == {j \in places : j <= i}
           rank == [i \in places |-> Ordinal(places, i)]
<1>2. \A i : IsFiniteSet(Upto(i)) /\ Cardinality(Upto(i)) \in Nat /\ Cardinality(Upto(i)) <= Cardinality(places)
  <2> TAKE i
  <2>1. Upto(i) \in SUBSET places
    OBVIOUS
  <2> HIDE DEF Upto
  <2> QED
    BY <1>1, <2>1, FS_Subset, FS_CardinalityType
<1>3. \A i, j \in places : i < j => Ordinal(places, i) < Ordinal(places, j)
  <2> SUFFICES ASSUME NEW i \in places, NEW j \in places, i < j PROVE Cardinality(Upto(i)) < Cardinality(Upto(j))
    BY DEF Ordinal
  <2>1. Upto(i) \in SUBSET Upto(j)
    <3>1. i \in Nat /\ j \in Nat /\ \A k \in places : k \in Nat
      OBVIOUS
    <3>2. \A k \in places : k <= i => k <= j
      BY <3>1
    <3> QED
      BY <3>2
  <2>2. j \in Upto(j) /\ j \notin Upto(i)
    OBVIOUS
  <2> HIDE DEF Upto
  <2>3. Cardinality(Upto(i)) <= Cardinality(Upto(j)) /\ (Cardinality(Upto(j)) = Cardinality(Upto(i)) => Upto(j) = Upto(i))
    BY <1>2, <2>1, FS_Subset
  <2> QED
    BY <1>2, <2>2, <2>3
<1>4. \A i, j \in places : Ordinal(places, i) = Ordinal(places, j) => i = j
  <2> SUFFICES ASSUME NEW i \in places, NEW j \in places, Ordinal(places, i) = Ordinal(places, j) PROVE i = j
    OBVIOUS
  <2>1. Ordinal(places, i) \in Nat /\ i \in Nat /\ j \in Nat
    BY <1>2 DEF Ordinal
  <2> QED
    BY <1>3, <2>1
<1>5. \A i \in places : Ordinal(places, i) \in 1..Cardinality(places)
  <2> SUFFICES ASSUME NEW i \in places PROVE Cardinality(Upto(i)) \in 1..Cardinality(places)
    BY DEF Ordinal
  <2>1. i \in Upto(i)
    OBVIOUS
  <2> HIDE DEF Upto
  <2>2. Cardinality(Upto(i)) # 0
    BY <1>2, <2>1, FS_EmptySet
  <2> QED
    BY <1>1, <1>2, <2>2
<1>6. rank \in Injection(places, 1..Cardinality(places))
  BY <1>4, <1>5 DEF Injection, IsInjective
<1>7. IsFiniteSet(1..Cardinality(places)) /\ Cardinality(1..Cardinality(places)) = Cardinality(places)
  <2>1. PICK n \in Nat : n = Cardinality(places)
    BY <1>1
  <2>2. IsFiniteSet(1..n) /\ Cardinality(1..n) = IF 1 > n THEN 0 ELSE n - 1 + 1
    <3>1. 1 \in Int /\ n \in Int
      OBVIOUS
    <3> QED
      BY <3>1, FS_Interval
  <2> QED
    BY <2>1, <2>2
<1>8. rank \in Surjection(places, 1..Cardinality(places))
  BY <1>6, <1>7, FS_Injection
<1>9. \A k \in 1..Cardinality(places) : \E i \in places : Ordinal(places, i) = k
  BY <1>8 DEF Surjection
<1> QED
  BY <1>1, <1>3, <1>4, <1>5, <1>9

\* What is picked of a list is found at its places, each of them once.
PicksBy(f, l, places) ==
    /\ Cardinality(places) \in Nat /\ DOMAIN Picked(l, places) = 1..Cardinality(places)
    /\ f \in [1..Cardinality(places) -> places]
    /\ \A j, k \in 1..Cardinality(places) : f[j] = f[k] => j = k
    /\ \A i \in places : \E k \in 1..Cardinality(places) : f[k] = i
    /\ \A k \in 1..Cardinality(places) : Picked(l, places)[k] = l[f[k]]

LEMMA PickedIs ==
    ASSUME NEW N \in Nat, NEW places \in SUBSET (1..N), NEW l
    PROVE  \E f : PicksBy(f, l, places)
<1> DEFINE n == Cardinality(places)
           f == [k \in 1..n |-> CHOOSE i \in places : Ordinal(places, i) = k]
<1>1. /\ n \in Nat /\ \A k \in 1..n : \E i \in places : Ordinal(places, i) = k
      /\ \A i \in places : Ordinal(places, i) \in 1..n
      /\ \A i, j \in places : Ordinal(places, i) = Ordinal(places, j) => i = j
  BY PlacesRanked
<1>2. \A k \in 1..n : f[k] \in places /\ Ordinal(places, f[k]) = k
  BY <1>1
<1>3. DOMAIN Picked(l, places) = 1..n /\ \A k \in 1..n : Picked(l, places)[k] = l[f[k]]
  BY DEF Picked
<1>4. f \in [1..n -> places]
  BY <1>2
<1> HIDE DEF n, f
<1>5. \A j, k \in 1..n : f[j] = f[k] => j = k
  BY <1>2
<1>6. \A i \in places : \E k \in 1..n : f[k] = i
  <2> TAKE i \in places
  <2>1. PICK k \in 1..n : k = Ordinal(places, i)
    BY <1>1
  <2>2. f[k] \in places /\ Ordinal(places, f[k]) = Ordinal(places, i)
    BY <1>2, <2>1
  <2> QED
    BY <1>1, <2>2
<1>7. PicksBy(f, l, places)
  BY <1>1, <1>3, <1>4, <1>5, <1>6 DEF PicksBy, n
<1> QED
  BY <1>7

LEMMA InboxStart == InboxInit => InboxInv
<1> SUFFICES ASSUME InboxInit PROVE InboxInv
  OBVIOUS
<1>1. <<>> \in EntryLists /\ Distinct(<<>>) /\ UnreadPlaces(<<>>) = {}
  BY DEF EntryLists, Distinct, UnreadPlaces
<1>2. Unread(<<>>) = 0
  BY <1>1, ListIs, FS_EmptySet
<1>3. NoAsk \in Asked /\ NoAsk.rows = <<>>
  BY <1>1, InboxAssumption DEF NoAsk, Asked, Notices
<1>4. ask \in [Asks -> Asked] /\ \A q \in Asks : Distinct(ask[q].rows)
  BY <1>1, <1>3 DEF InboxInit
<1>5. events \subseteq Notices /\ doubled = FALSE /\ list = <<>> /\ unreadCount = 0
  BY DEF InboxInit
<1>6. Unread(list) = 0 /\ list \in EntryLists /\ Distinct(list)
  BY <1>1, <1>2, <1>5
<1>7. doubled \in BOOLEAN /\ (~doubled => unreadCount = Unread(list) /\ Distinct(list))
  BY <1>5, <1>6
<1>8. unreadCount \in Nat /\ unreadCount >= Unread(list)
  BY <1>5, <1>6
<1> QED
  BY <1>4, <1>5, <1>6, <1>7, <1>8 DEF InboxInv, AsksAre, Counts

\* What is picked of entries are entries, and as many of them are unread as at the places.
LEMMA PickedEntries ==
    ASSUME NEW l \in EntryLists, NEW places \in SUBSET (DOMAIN l)
    PROVE  /\ Picked(l, places) \in EntryLists
           /\ Distinct(l) => Distinct(Picked(l, places))
           /\ Unread(Picked(l, places)) = Cardinality(UnreadPlaces(l) \cap places)
<1>1. Len(l) \in Nat /\ places \in SUBSET (1..Len(l)) /\ \A i \in DOMAIN l : l[i] \in Entries
  BY ListIs
<1> DEFINE n == Cardinality(places)
           m == Picked(l, places)
<1>2. PICK f : PicksBy(f, l, places)
  BY <1>1, PickedIs
<1>3. m = [k \in 1..n |-> m[k]]
  BY DEF Picked
<1>4. /\ DOMAIN m = 1..n /\ n \in Nat /\ \A k \in 1..n : m[k] = l[f[k]]
      /\ \A k \in 1..n : f[k] \in places
      /\ \A j, k \in 1..n : f[j] = f[k] => j = k
      /\ \A i \in places : \E k \in 1..n : f[k] = i
  BY <1>2 DEF PicksBy
<1> HIDE DEF n, m
<1>5. m \in EntryLists
  <2>1. \A k \in 1..n : m[k] \in Entries
    BY <1>1, <1>4
  <2>2. [k \in 1..n |-> m[k]] \in [1..n -> Entries]
    BY <2>1
  <2> QED
    BY <1>3, <1>4, <2>2 DEF EntryLists
<1>6. Distinct(l) => Distinct(m)
  BY <1>4 DEF Distinct
<1> DEFINE U == UnreadPlaces(m)
           V == UnreadPlaces(l) \cap places
           g == [k \in U |-> f[k]]
<1>7. g \in Bijection(U, V)
  <2>1. \A k \in U : k \in 1..n /\ f[k] \in V
    BY <1>4 DEF UnreadPlaces
  <2>2. \A i \in V : \E k \in U : f[k] = i
    BY <1>4 DEF UnreadPlaces
  <2>3. g \in [U -> V]
    BY <2>1
  <2> HIDE DEF U, V
  <2>4. g \in Injection(U, V)
    BY <1>4, <2>1, <2>3 DEF Injection, IsInjective
  <2>5. g \in Surjection(U, V)
    BY <2>2, <2>3 DEF Surjection
  <2> QED
    BY <2>4, <2>5 DEF Bijection
<1>8. IsFiniteSet(U) /\ Unread(m) = Cardinality(U)
  BY <1>5, ListIs
<1>9. Cardinality(V) = Cardinality(U)
  <2>1. ExistsBijection(U, V)
    BY <1>7 DEF ExistsBijection
  <2> HIDE DEF U, V
  <2> QED
    BY <1>8, <2>1, FS_Bijection
<1> QED
  BY <1>5, <1>6, <1>8, <1>9 DEF m

\* Some place is the first, and some the last.
LEMMA EndsAre ==
    ASSUME NEW N \in Nat, NEW places \in SUBSET (1..N), places # {}
    PROVE  /\ \E i \in places : \A j \in places : i <= j
           /\ \E i \in places : \A j \in places : j <= i
<1>1. PICK n : n = Cardinality(places)
  OBVIOUS
<1>2. /\ n \in Nat /\ \A k \in 1..n : \E i \in places : Ordinal(places, i) = k
      /\ \A i \in places : Ordinal(places, i) \in 1..n
      /\ \A i, j \in places : i < j => Ordinal(places, i) < Ordinal(places, j)
  BY <1>1, PlacesRanked
<1>3. \A i \in places : i \in Nat
  OBVIOUS
<1>4. n >= 1
  <2>1. PICK i \in places : TRUE
    OBVIOUS
  <2>2. Ordinal(places, i) \in 1..n
    BY <1>2
  <2> QED
    BY <1>2, <2>2
<1>5. PICK a \in places : Ordinal(places, a) = 1
  BY <1>2, <1>4
<1>6. PICK z \in places : Ordinal(places, z) = n
  BY <1>2, <1>4
<1>7. \A j \in places : a <= j
  <2> SUFFICES ASSUME NEW j \in places, ~(a <= j) PROVE FALSE
    OBVIOUS
  <2>1. j < a
    BY <1>3
  <2> QED
    BY <1>2, <1>5, <2>1
<1>8. \A j \in places : j <= z
  <2> SUFFICES ASSUME NEW j \in places, ~(j <= z) PROVE FALSE
    OBVIOUS
  <2>1. z < j
    BY <1>3
  <2> QED
    BY <1>2, <1>6, <2>1
<1> QED
  BY <1>7, <1>8

\* An unread entry on top.
LEMMA OnTop ==
    ASSUME NEW l \in EntryLists, NEW n \in Notices, NEW m, m = <<Entry(n, FALSE)>> \o l
    PROVE  /\ m \in EntryLists /\ Unread(m) = Unread(l) + 1
           /\ Distinct(l) /\ (\A i \in DOMAIN l : l[i].id # n) => Distinct(m)
<1>1. Entry(n, FALSE) \in Entries
  BY DEF Entry, Entries
<1>2. m \in EntryLists /\ Len(m) = Len(l) + 1 /\ m[1] = Entry(n, FALSE) /\ \A i \in 1..Len(l) : m[i + 1] = l[i]
  <2>1. PICK e \in Entries : e = Entry(n, FALSE)
    BY <1>1
  <2>2. PICK t : t = <<e>>
    OBVIOUS
  <2>3. t \in Seq(Entries) /\ Len(t) = 1 /\ t[1] = e
    BY <2>2
  <2>6. m = t \o l
    BY <2>1, <2>2
  <2>7. l \in Seq(Entries)
    BY DEF EntryLists
  <2>8. /\ m \in Seq(Entries) /\ Len(m) = Len(l) + 1 /\ Len(l) \in Nat
        /\ \A i \in 1..Len(t) + Len(l) : m[i] = IF i <= Len(t) THEN t[i] ELSE l[i - Len(t)]
    <3>1. t \o l \in Seq(Entries) /\ Len(t \o l) = Len(t) + Len(l)
      BY <2>3, <2>7, ConcatProperties
    <3>2. \A i \in 1..Len(t) + Len(l) : (t \o l)[i] = IF i <= Len(t) THEN t[i] ELSE l[i - Len(t)]
      BY <2>3, <2>7, ConcatProperties
    <3>3. Len(l) \in Nat
      BY <2>7
    <3>4. m \in Seq(Entries) /\ Len(m) = Len(t) + Len(l)
      BY <2>6, <3>1, Zenon
    <3>5. \A i \in 1..Len(t) + Len(l) : m[i] = IF i <= Len(t) THEN t[i] ELSE l[i - Len(t)]
      BY <2>6, <3>2, Zenon
    <3>6. Len(t) + Len(l) = Len(l) + 1
      BY <2>3, <3>3
    <3> QED
      BY <3>3, <3>4, <3>5, <3>6
  <2>4. m[1] = e
    <3>1. 1 \in 1..Len(t) + Len(l) /\ 1 <= Len(t)
      BY <2>3, <2>8
    <3>2. m[1] = t[1]
      BY <2>8, <3>1
    <3> QED
      BY <2>3, <3>2
  <2>5. \A i \in 1..Len(l) : m[i + 1] = l[i]
    <3> SUFFICES ASSUME NEW i \in 1..Len(l) PROVE m[i + 1] = l[i]
      OBVIOUS
    <3>1. i + 1 \in 1..Len(t) + Len(l) /\ ~(i + 1 <= Len(t)) /\ (i + 1) - Len(t) = i
      BY <2>3, <2>8
    <3> QED
      BY <2>8, <3>1
  <2> QED
    BY <2>1, <2>8, <2>4, <2>5 DEF EntryLists
<1>3. Len(l) \in Nat /\ DOMAIN l = 1..Len(l) /\ DOMAIN m = 1..Len(m)
  BY <1>2, ListIs
<1>4. \A j \in DOMAIN m : j = 1 \/ \E i \in DOMAIN l : j = i + 1
  <2> SUFFICES ASSUME NEW j \in DOMAIN m, j # 1 PROVE j - 1 \in DOMAIN l /\ j = (j - 1) + 1
    OBVIOUS
  <2> QED
    BY <1>2, <1>3
<1>5. 1 \in DOMAIN m /\ \A i \in DOMAIN l : i + 1 \in DOMAIN m /\ m[i + 1] = l[i] /\ i + 1 # 1 /\ i \in Nat
  BY <1>2, <1>3
<1>6. Distinct(l) /\ (\A i \in DOMAIN l : l[i].id # n) => Distinct(m)
  <2> SUFFICES ASSUME Distinct(l), \A i \in DOMAIN l : l[i].id # n,
                      NEW i \in DOMAIN m, NEW j \in DOMAIN m, m[i].id = m[j].id
               PROVE  i = j
    BY DEF Distinct
  <2>1. m[1].id = n /\ \A k \in DOMAIN m : m[k].id = n => k = 1
    <3>1. m[1].id = n
      BY <1>2 DEF Entry
    <3>2. ASSUME NEW k \in DOMAIN m, k # 1 PROVE m[k].id # n
      <4>1. PICK a \in DOMAIN l : k = a + 1
        BY <1>4, <3>2
      <4>2. m[k] = l[a]
        BY <1>5, <4>1
      <4> QED
        BY <4>2
    <3> QED
      BY <3>1, <3>2
  <2>2. CASE i = 1
    BY <2>1, <2>2
  <2>3. CASE j = 1
    BY <2>1, <2>3
  <2>4. CASE i # 1 /\ j # 1
    <3>1. PICK a \in DOMAIN l, b \in DOMAIN l : i = a + 1 /\ j = b + 1
      BY <1>4, <2>4
    <3>2. l[a].id = l[b].id
      BY <1>5, <3>1
    <3> QED
      BY <3>1, <3>2 DEF Distinct
  <2> QED
    BY <2>2, <2>3, <2>4
<1> DEFINE U == UnreadPlaces(l)
           V == {i + 1 : i \in U}
           g == [i \in U |-> i + 1]
<1>7. IsFiniteSet(U) /\ Unread(l) = Cardinality(U) /\ Unread(m) = Cardinality(UnreadPlaces(m)) /\ Unread(l) \in Nat
  BY <1>2, ListIs
<1>8. \A i \in U : i \in DOMAIN l /\ i \in Nat
  BY <1>5 DEF UnreadPlaces
<1>9. UnreadPlaces(m) = V \cup {1} /\ 1 \notin V
  <2>1. \A j \in DOMAIN m : j \in UnreadPlaces(m) <=> ~m[j].isRead
    BY DEF UnreadPlaces
  <2>2. 1 \in UnreadPlaces(m)
    <3>1. m[1].isRead = FALSE
      BY <1>2 DEF Entry
    <3> QED
      BY <1>5, <2>1, <3>1
  <2>3. \A i \in DOMAIN l : i + 1 \in UnreadPlaces(m) <=> i \in U
    BY <1>5, <2>1 DEF UnreadPlaces
  <2>4. \A j \in UnreadPlaces(m) : j \in DOMAIN m
    BY DEF UnreadPlaces
  <2>5. 1 \notin V
    BY <1>5, <1>8
  <2>6. ASSUME NEW j \in UnreadPlaces(m) PROVE j \in V \cup {1}
    <3>1. CASE j = 1
      BY <3>1
    <3>2. CASE j # 1
      <4>1. PICK i \in DOMAIN l : j = i + 1
        BY <1>4, <2>4, <3>2
      <4>2. i \in U
        BY <2>3, <4>1
      <4> QED
        BY <4>1, <4>2
    <3> QED
      BY <3>1, <3>2
  <2>7. ASSUME NEW j \in V PROVE j \in UnreadPlaces(m)
    <3>1. PICK i \in U : j = i + 1
      OBVIOUS
    <3> QED
      BY <1>8, <2>3, <3>1
  <2> HIDE DEF V, U
  <2> QED
    BY <2>2, <2>5, <2>6, <2>7
<1>10. ExistsBijection(U, V)
  <2>1. \A i \in U : g[i] = i + 1 /\ i + 1 \in V
    OBVIOUS
  <2>2. \A i, j \in U : g[i] = g[j] => i = j
    BY <1>8, <2>1
  <2>3. \A v \in V : \E i \in U : g[i] = v
    BY <2>1
  <2>4. g \in [U -> V]
    BY <2>1
  <2> HIDE DEF U, V, g
  <2>5. g \in Injection(U, V)
    BY <2>2, <2>4 DEF Injection, IsInjective
  <2>6. g \in Surjection(U, V)
    BY <2>3, <2>4 DEF Surjection
  <2> QED
    BY <2>5, <2>6 DEF Bijection, ExistsBijection
<1> HIDE DEF U, V
<1>11. IsFiniteSet(V) /\ Cardinality(V) = Cardinality(U)
  BY <1>7, <1>10, FS_Bijection
<1>12. Cardinality(V \cup {1}) = Cardinality(V) + 1
  BY <1>9, <1>11, FS_AddElement
<1> QED
  BY <1>2, <1>6, <1>7, <1>9, <1>11, <1>12

\* What is unread without the entries of one notification, of which c is one.
LEMMA Losing ==
    ASSUME NEW l \in EntryLists, NEW n, NEW copies, copies = {i \in DOMAIN l : l[i].id = n},
           NEW c, copies # {} => c \in copies
    PROVE  /\ Cardinality(UnreadPlaces(l) \ copies) \in Nat
           /\ Cardinality(UnreadPlaces(l) \ copies) <= Unread(l)
           /\ copies # {} /\ ~l[c].isRead => Cardinality(UnreadPlaces(l) \ copies) <= Unread(l) - 1
           /\ Distinct(l) /\ copies # {} /\ ~l[c].isRead => Cardinality(UnreadPlaces(l) \ copies) = Unread(l) - 1
           /\ Distinct(l) /\ ~(copies # {} /\ ~l[c].isRead) => Cardinality(UnreadPlaces(l) \ copies) = Unread(l)
<1> DEFINE U == UnreadPlaces(l)
           V == U \ copies
<1>1. IsFiniteSet(U) /\ Unread(l) = Cardinality(U) /\ Unread(l) \in Nat
  BY ListIs
<1>2. copies # {} /\ ~l[c].isRead => c \in U /\ c \notin V
  BY DEF UnreadPlaces
<1>3. copies # {} /\ l[c].isRead => c \notin U
  BY DEF UnreadPlaces
<1>4. Distinct(l) => copies \subseteq {c}
  BY DEF Distinct
<1>5. V \in SUBSET U
  OBVIOUS
<1>6. Distinct(l) => V = U \/ V = U \ {c}
  BY <1>4
<1> HIDE DEF U
<1>7. Distinct(l) /\ copies # {} /\ ~l[c].isRead => V = U \ {c}
  BY <1>4
<1>8. Distinct(l) /\ ~(copies # {} /\ ~l[c].isRead) => V = U
  BY <1>3, <1>4
<1>9. c \in U => Cardinality(U \ {c}) = Cardinality(U) - 1
  BY <1>1, FS_RemoveElement
<1> HIDE DEF V
<1>10. Cardinality(V) \in Nat /\ Cardinality(V) <= Cardinality(U) /\ (Cardinality(V) = Cardinality(U) => V = U)
  BY <1>1, <1>5, FS_Subset, FS_CardinalityType
<1>11. copies # {} /\ ~l[c].isRead => Cardinality(V) <= Cardinality(U) - 1
  BY <1>1, <1>2, <1>10
<1>12. Distinct(l) /\ copies # {} /\ ~l[c].isRead => Cardinality(V) = Cardinality(U) - 1
  BY <1>2, <1>7, <1>9
<1> QED
  BY <1>1, <1>8, <1>10, <1>11, <1>12 DEF U, V

\* The rows the server lists.
LEMMA ListedRows == Rows \in EntryLists /\ Distinct(Rows)
<1> DEFINE newest == [i \in 1..Latest |-> Latest + 1 - i]
           places == {i \in 1..Latest : row[newest[i]] \in {"unread", "read"}}
           live == Picked(newest, places)
           n == Cardinality(places)
<1>1. Latest \in Nat /\ \A i \in 1..Latest : newest[i] = Latest + 1 - i /\ newest[i] \in 1..Latest
  BY InboxAssumption
<1>2. places \in SUBSET (1..Latest)
  OBVIOUS
<1>3. Rows = [i \in DOMAIN live |-> Entry(live[i], row[live[i]] = "read")]
  BY DEF Rows
<1> HIDE DEF newest, places
<1>4. PICK f : PicksBy(f, newest, places)
  BY <1>1, <1>2, PickedIs
<1> HIDE DEF live
<1>5. /\ n \in Nat /\ DOMAIN live = 1..n
      /\ \A k \in 1..n : live[k] = newest[f[k]] /\ f[k] \in places
      /\ \A j, k \in 1..n : f[j] = f[k] => j = k
  BY <1>4 DEF PicksBy, live
<1> HIDE DEF n
<1>6. \A k \in 1..n : live[k] \in Notices
  BY <1>1, <1>2, <1>5 DEF Notices
<1>7. \A j, k \in 1..n : live[j] = live[k] => j = k
  <2> SUFFICES ASSUME NEW j \in 1..n, NEW k \in 1..n, live[j] = live[k] PROVE f[j] = f[k]
    BY <1>5
  <2>1. f[j] \in 1..Latest /\ f[k] \in 1..Latest
    BY <1>2, <1>5
  <2>2. newest[f[j]] = newest[f[k]]
    BY <1>5
  <2>3. newest[f[j]] = Latest + 1 - f[j] /\ newest[f[k]] = Latest + 1 - f[k]
    BY <1>1, <2>1
  <2>4. Latest + 1 - f[j] = Latest + 1 - f[k]
    BY <2>2, <2>3
  <2> QED
    BY <1>1, <2>1, <2>4
<1> DEFINE made == [i \in 1..n |-> Entry(live[i], row[live[i]] = "read")]
<1>8. Rows = made
  BY <1>3, <1>5
<1>9. made \in [1..n -> Entries]
  <2>1. \A i \in 1..n : Entry(live[i], row[live[i]] = "read") \in Entries
    BY <1>6 DEF Entry, Entries
  <2> QED
    BY <2>1
<1>10. made \in Seq(Entries)
  BY <1>5, <1>9
<1>11. \A i, j \in 1..n : made[i].id = made[j].id => i = j
  BY <1>7 DEF Entry
<1>12. DOMAIN made = 1..n
  OBVIOUS
<1> HIDE DEF made
<1> QED
  BY <1>8, <1>10, <1>11, <1>12 DEF EntryLists, Distinct

\* One request begins or ends.
LEMMA AskSet ==
    ASSUME AsksAre, NEW q \in Asks, NEW a \in Asked, Distinct(a.rows), ask' = [ask EXCEPT ![q] = a]
    PROVE  AsksAre'
<1>1. \A p \in Asks : ask'[p] = IF p = q THEN a ELSE ask[p]
  BY DEF AsksAre
<1>2. ask' \in [Asks -> Asked]
  BY DEF AsksAre
<1> QED
  BY <1>1, <1>2 DEF AsksAre

LEMMA AskFree ==
    ASSUME AsksAre, NEW q \in Asks, ask' = [ask EXCEPT ![q] = NoAsk]
    PROVE  AsksAre'
<1>1. <<>> \in EntryLists /\ Distinct(<<>>)
  BY DEF EntryLists, Distinct
<1>2. NoAsk \in Asked /\ NoAsk.rows = <<>>
  BY <1>1, InboxAssumption DEF NoAsk, Asked, Notices
<1> QED
  BY <1>1, <1>2, AskSet

LEMMA AskBegins ==
    ASSUME AsksAre, NEW q \in Asks, NEW sort \in {"fetched", "read", "all", "delete"}, NEW n \in Notices,
           NEW shownRows \in EntryLists, Distinct(shownRows), Ask(q, sort, n, shownRows)
    PROVE  AsksAre' /\ UNCHANGED <<events, list, unreadCount, doubled>>
<1> DEFINE a == [kind |-> sort, id |-> n, rows |-> shownRows]
<1>1. a \in Asked /\ a.rows = shownRows
  BY DEF Asked
<1>2. ask' = [ask EXCEPT ![q] = a] /\ UNCHANGED <<events, list, unreadCount, doubled>>
  BY DEF Ask
<1> HIDE DEF a
<1> QED
  BY <1>1, <1>2, AskSet

LEMMA SameList == Counts /\ UNCHANGED <<list, unreadCount, doubled>> => Counts'
  BY DEF Counts

LEMMA CreateStep == ASSUME InboxInv, NEW n \in Notices, CreateNotification(n) PROVE InboxInv'
<1>1. AsksAre' /\ Counts'
  BY SameList DEF InboxInv, CreateNotification, AsksAre
<1>2. events' \subseteq Notices
  BY DEF InboxInv, CreateNotification
<1> QED
  BY <1>1, <1>2 DEF InboxInv

LEMMA AddStep == ASSUME InboxInv, NEW n \in Notices, AddNotification(n) PROVE InboxInv'
<1>1. AsksAre' /\ events' \subseteq Notices
  BY DEF InboxInv, AddNotification, AsksAre
<1>2. PICK l : l = list
  OBVIOUS
<1>3. PICK m : m = <<Entry(n, FALSE)>> \o l
  OBVIOUS
<1>4. l \in EntryLists /\ unreadCount \in Nat /\ unreadCount >= Unread(l) /\ (~doubled => unreadCount = Unread(l) /\ Distinct(l))
  BY <1>2 DEF InboxInv, Counts
<1>5. list' = m /\ unreadCount' = unreadCount + 1 /\ (~doubled' => ~doubled /\ \A i \in DOMAIN l : l[i].id # n)
  BY <1>2, <1>3 DEF AddNotification
<1>6. m \in EntryLists /\ Unread(m) = Unread(l) + 1 /\ Unread(l) \in Nat
  BY <1>3, <1>4, OnTop, ListIs
<1>7. Distinct(l) /\ (\A i \in DOMAIN l : l[i].id # n) => Distinct(m)
  BY <1>3, <1>4, OnTop
<1>8. doubled' \in BOOLEAN
  BY DEF AddNotification, InboxInv, Counts
<1>9. list' \in EntryLists /\ unreadCount' \in Nat /\ unreadCount' >= Unread(list')
  BY <1>4, <1>5, <1>6
<1>10. ~doubled' => unreadCount' = Unread(list') /\ Distinct(list')
  BY <1>4, <1>5, <1>6, <1>7
<1> QED
  BY <1>1, <1>8, <1>9, <1>10 DEF InboxInv, Counts

LEMMA RequestSteps ==
    ASSUME InboxInv, NEW q \in Asks, NEW n \in Notices,
           FetchRows(q) \/ ReadAllRows(q) \/ ReadRow(q, n) \/ DeleteRow(q, n)
    PROVE  InboxInv'
<1>1. <<>> \in EntryLists /\ Distinct(<<>>) /\ 1 \in Notices /\ AsksAre
  BY InboxAssumption DEF EntryLists, Distinct, Notices, InboxInv
<1>2. AsksAre' /\ UNCHANGED <<events, list, unreadCount, doubled>>
  <2>1. CASE FetchRows(q)
    BY <1>1, <2>1, ListedRows, AskBegins DEF FetchRows
  <2>2. CASE ReadAllRows(q)
    BY <1>1, <2>2, AskBegins DEF ReadAllRows
  <2>3. CASE ReadRow(q, n)
    BY <1>1, <2>3, AskBegins DEF ReadRow
  <2>4. CASE DeleteRow(q, n)
    BY <1>1, <2>4, AskBegins DEF DeleteRow
  <2> QED
    BY <2>1, <2>2, <2>3, <2>4
<1> QED
  BY <1>2, SameList DEF InboxInv

LEMMA FailStep == ASSUME InboxInv, NEW q \in Asks, AskFails(q) PROVE InboxInv'
<1>1. AsksAre'
  BY AskFree DEF AskFails, InboxInv
<1> QED
  BY <1>1, SameList DEF AskFails, InboxInv

LEMMA AnswerEnds ==
    ASSUME InboxInv, NEW q \in Asks, NEW sort, Answered(q, sort)
    PROVE  AsksAre' /\ events' \subseteq Notices /\ doubled' = doubled
<1>1. AsksAre'
  BY AskFree DEF Answered, InboxInv
<1> QED
  BY <1>1 DEF Answered, InboxInv

LEMMA ShowStep == ASSUME InboxInv, NEW q \in Asks, ShowRows(q) PROVE InboxInv'
<1>1. AsksAre' /\ events' \subseteq Notices /\ doubled' = doubled
  BY AnswerEnds DEF ShowRows
<1>2. PICK l : l = ask[q].rows
  OBVIOUS
<1>3. l \in EntryLists /\ Distinct(l)
  BY <1>2 DEF InboxInv, AsksAre, Asked
<1>4. Unread(l) \in Nat
  BY <1>3, ListIs
<1>5. list' = l /\ unreadCount' = Unread(l)
  BY <1>2 DEF ShowRows
<1>6. Counts'
  BY <1>1, <1>3, <1>4, <1>5 DEF InboxInv, Counts
<1> QED
  BY <1>1, <1>6 DEF InboxInv

\* A list of entries with some of them made read.
ReadAt(l, places) == [i \in DOMAIN l |-> IF i \in places THEN Entry(l[i].id, TRUE) ELSE l[i]]

LEMMA MadeRead ==
    ASSUME NEW l \in EntryLists, NEW places
    PROVE  /\ ReadAt(l, places) \in EntryLists /\ (Distinct(l) => Distinct(ReadAt(l, places)))
           /\ Unread(ReadAt(l, places)) = Cardinality(UnreadPlaces(l) \ places)
<1> DEFINE m == ReadAt(l, places)
<1>1. Len(l) \in Nat /\ DOMAIN l = 1..Len(l) /\ \A i \in DOMAIN l : l[i] \in Entries
  BY ListIs
<1>2. PICK n \in Nat : n = Len(l)
  BY <1>1
<1>3. DOMAIN m = 1..n /\ DOMAIN l = 1..n /\ \A i \in 1..n : m[i] = IF i \in places THEN Entry(l[i].id, TRUE) ELSE l[i]
  BY <1>1, <1>2 DEF ReadAt
<1> HIDE DEF m
<1>4. \A i \in 1..n : m[i] \in Entries /\ m[i].id = l[i].id
  <2> SUFFICES ASSUME NEW i \in 1..n PROVE m[i] \in Entries /\ m[i].id = l[i].id
    OBVIOUS
  <2>1. l[i] \in Entries
    BY <1>1, <1>3
  <2>2. Entry(l[i].id, TRUE) \in Entries /\ Entry(l[i].id, TRUE).id = l[i].id
    BY <2>1 DEF Entry, Entries
  <2> QED
    BY <1>3, <2>1, <2>2
<1>5. \A i \in 1..n : ~m[i].isRead <=> i \notin places /\ ~l[i].isRead
  BY <1>3 DEF Entry
<1>6. m = [i \in 1..n |-> m[i]]
  BY <1>3 DEF ReadAt, m
<1>7. m \in EntryLists
  <2>1. [i \in 1..n |-> m[i]] \in [1..n -> Entries]
    BY <1>4
  <2>2. [i \in 1..n |-> m[i]] \in Seq(Entries)
    <3>1. n \in Nat
      BY <1>2
    <3> QED
      BY <2>1, <3>1
  <2> QED
    BY <1>6, <2>2 DEF EntryLists
<1>8. UnreadPlaces(m) = UnreadPlaces(l) \ places
  BY <1>3, <1>5 DEF UnreadPlaces
<1>9. Unread(m) = Cardinality(UnreadPlaces(m))
  BY <1>7, ListIs
<1>10. Distinct(l) => Distinct(m)
  <2> SUFFICES ASSUME Distinct(l), NEW i \in 1..n, NEW j \in 1..n, m[i].id = m[j].id PROVE i = j
    BY <1>3 DEF Distinct
  <2>1. l[i].id = l[j].id
    BY <1>4
  <2> QED
    BY <1>3, <2>1 DEF Distinct
<1> QED
  BY <1>7, <1>8, <1>9, <1>10 DEF m

\* Where the copies of a notification are, some is the first and some the last.
LEMMA CopiesEnd ==
    ASSUME NEW l \in EntryLists, NEW copies \in SUBSET (DOMAIN l), copies # {}
    PROVE  /\ (CHOOSE i \in copies : \A j \in copies : i <= j) \in copies
           /\ (CHOOSE i \in copies : \A j \in copies : j <= i) \in copies
<1>1. Len(l) \in Nat /\ copies \in SUBSET (1..Len(l))
  BY ListIs
<1>2. PICK N \in Nat : N = Len(l)
  BY <1>1
<1> QED
  BY <1>1, <1>2, EndsAre

LEMMA MarkStep == ASSUME InboxInv, NEW q \in Asks, MarkAsRead(q) PROVE InboxInv'
<1> DEFINE copies == {i \in DOMAIN list : list[i].id = ask[q].id}
           c == CHOOSE i \in copies : \A j \in copies : j <= i
           m == [i \in DOMAIN list |-> IF i \in copies THEN Entry(ask[q].id, TRUE) ELSE list[i]]
           left == Cardinality(UnreadPlaces(list) \ copies)
<1>1. AsksAre' /\ events' \subseteq Notices /\ doubled' = doubled
  BY AnswerEnds DEF MarkAsRead
<1>2. list' = m
  BY DEF MarkAsRead
<1>3. unreadCount' = IF copies # {} /\ ~list[c].isRead /\ unreadCount > 0 THEN unreadCount - 1 ELSE unreadCount
  BY DEF MarkAsRead
<1>4. /\ list \in EntryLists /\ unreadCount \in Nat /\ unreadCount >= Unread(list) /\ doubled \in BOOLEAN
      /\ ~doubled => unreadCount = Unread(list) /\ Distinct(list)
  BY DEF InboxInv, Counts
<1>5. m = ReadAt(list, copies)
  BY DEF ReadAt
<1>6. copies \in SUBSET (DOMAIN list) /\ copies = {i \in DOMAIN list : list[i].id = ask[q].id}
  OBVIOUS
<1> HIDE DEF m
<1>7. m \in EntryLists /\ (Distinct(list) => Distinct(m)) /\ Unread(m) = left
  BY <1>4, <1>5, MadeRead
<1> HIDE DEF copies
<1>8. copies # {} => c \in copies
  BY <1>4, <1>6, CopiesEnd
<1>9. Unread(list) \in Nat
  BY <1>4, ListIs
<1> HIDE DEF c
<1>10. /\ left \in Nat /\ left <= Unread(list)
       /\ copies # {} /\ ~list[c].isRead => left <= Unread(list) - 1
       /\ Distinct(list) /\ copies # {} /\ ~list[c].isRead => left = Unread(list) - 1
       /\ Distinct(list) /\ ~(copies # {} /\ ~list[c].isRead) => left = Unread(list)
  BY <1>4, <1>6, <1>8, Losing
<1> HIDE DEF left
<1>11. PICK was \in BOOLEAN : was <=> copies # {} /\ ~list[c].isRead
  OBVIOUS
<1>12. /\ was => left <= Unread(list) - 1
       /\ Distinct(list) /\ was => left = Unread(list) - 1
       /\ Distinct(list) /\ ~was => left = Unread(list)
  BY <1>10, <1>11
<1>13. unreadCount' = IF was /\ unreadCount > 0 THEN unreadCount - 1 ELSE unreadCount
  BY <1>3, <1>11
<1>14. unreadCount' \in Nat /\ unreadCount' >= left
  BY <1>4, <1>9, <1>10, <1>12, <1>13
<1>15. ~doubled => unreadCount' = left
  BY <1>4, <1>9, <1>10, <1>12, <1>13
<1>16. Counts'
  BY <1>1, <1>2, <1>4, <1>7, <1>14, <1>15 DEF Counts
<1> QED
  BY <1>1, <1>16 DEF InboxInv

LEMMA MarkAllStep == ASSUME InboxInv, NEW q \in Asks, MarkAllAsRead(q) PROVE InboxInv'
<1>1. AsksAre' /\ events' \subseteq Notices /\ doubled' = doubled
  BY AnswerEnds DEF MarkAllAsRead
<1> DEFINE m == ReadAt(list, DOMAIN list)
<1>2. list' = m /\ unreadCount' = 0
  BY DEF MarkAllAsRead, ReadAt
<1>3. list \in EntryLists /\ doubled \in BOOLEAN /\ (~doubled => Distinct(list))
  BY DEF InboxInv, Counts
<1>4. m \in EntryLists /\ (Distinct(list) => Distinct(m)) /\ Unread(m) = Cardinality(UnreadPlaces(list) \ DOMAIN list)
  BY <1>3, MadeRead
<1>5. UnreadPlaces(list) \ DOMAIN list = {}
  BY DEF UnreadPlaces
<1> HIDE DEF m
<1>6. Unread(m) = 0
  BY <1>4, <1>5, FS_EmptySet
<1>7. Counts'
  BY <1>1, <1>2, <1>3, <1>4, <1>6 DEF Counts
<1> QED
  BY <1>1, <1>7 DEF InboxInv

LEMMA DeleteStep == ASSUME InboxInv, NEW q \in Asks, DeleteNotification(q) PROVE InboxInv'
<1> DEFINE copies == {i \in DOMAIN list : list[i].id = ask[q].id}
           c == CHOOSE i \in copies : \A j \in copies : i <= j
           m == Picked(list, DOMAIN list \ copies)
           left == Cardinality(UnreadPlaces(list) \ copies)
<1>1. AsksAre' /\ events' \subseteq Notices /\ doubled' = doubled
  BY AnswerEnds DEF DeleteNotification
<1>2. list' = m
  BY DEF DeleteNotification
<1>3. unreadCount' = IF copies # {} /\ ~list[c].isRead THEN unreadCount - 1 ELSE unreadCount
  BY DEF DeleteNotification, WasUnread
<1>4. /\ list \in EntryLists /\ unreadCount \in Nat /\ unreadCount >= Unread(list) /\ doubled \in BOOLEAN
      /\ ~doubled => unreadCount = Unread(list) /\ Distinct(list)
  BY DEF InboxInv, Counts
<1>6. copies \in SUBSET (DOMAIN list) /\ copies = {i \in DOMAIN list : list[i].id = ask[q].id}
  OBVIOUS
<1> HIDE DEF copies
<1>7. m \in EntryLists /\ (Distinct(list) => Distinct(m)) /\ Unread(m) = left
  <2>1. PICK P : P = DOMAIN list \ copies
    OBVIOUS
  <2>2. P \in SUBSET (DOMAIN list) /\ m = Picked(list, P)
    BY <2>1
  <2>3. UnreadPlaces(list) \cap P = UnreadPlaces(list) \ copies
    BY <2>1 DEF UnreadPlaces
  <2> HIDE DEF m
  <2> QED
    BY <1>4, <2>2, <2>3, PickedEntries
<1> HIDE DEF m
<1>8. copies # {} => c \in copies
  BY <1>4, <1>6, CopiesEnd
<1>9. Unread(list) \in Nat
  BY <1>4, ListIs
<1> HIDE DEF c
<1>10. /\ left \in Nat /\ left <= Unread(list)
       /\ copies # {} /\ ~list[c].isRead => left <= Unread(list) - 1
       /\ Distinct(list) /\ copies # {} /\ ~list[c].isRead => left = Unread(list) - 1
       /\ Distinct(list) /\ ~(copies # {} /\ ~list[c].isRead) => left = Unread(list)
  BY <1>4, <1>6, <1>8, Losing
<1> HIDE DEF left
<1>11. PICK was \in BOOLEAN : was <=> copies # {} /\ ~list[c].isRead
  OBVIOUS
<1>12. /\ was => left <= Unread(list) - 1
       /\ Distinct(list) /\ was => left = Unread(list) - 1
       /\ Distinct(list) /\ ~was => left = Unread(list)
  BY <1>10, <1>11
<1>13. unreadCount' = IF was THEN unreadCount - 1 ELSE unreadCount
  BY <1>3, <1>11
<1>14. unreadCount' \in Nat /\ unreadCount' >= left
  BY <1>4, <1>9, <1>10, <1>12, <1>13
<1>15. ~doubled => unreadCount' = left
  BY <1>4, <1>9, <1>10, <1>12, <1>13
<1>16. Counts'
  BY <1>1, <1>2, <1>4, <1>7, <1>14, <1>15 DEF Counts
<1> QED
  BY <1>1, <1>16 DEF InboxInv

LEMMA ForgetStep == ASSUME InboxInv, ForgetNotifications PROVE InboxInv'
<1>1. <<>> \in EntryLists /\ Distinct(<<>>) /\ UnreadPlaces(<<>>) = {}
  BY DEF EntryLists, Distinct, UnreadPlaces
<1>2. Unread(<<>>) = 0
  BY <1>1, ListIs, FS_EmptySet
<1>3. list' = <<>> /\ unreadCount' = 0 /\ doubled' = doubled /\ events' = events /\ ask' = ask
  BY DEF ForgetNotifications
<1>4. AsksAre' /\ events' \subseteq Notices
  BY <1>3 DEF InboxInv, AsksAre
<1>5. Counts'
  BY <1>1, <1>2, <1>3 DEF InboxInv, Counts
<1> QED
  BY <1>4, <1>5 DEF InboxInv

\* Every step of the inbox keeps its invariant.
LEMMA InboxSteps == ASSUME InboxInv, [InboxNext]_inboxVars PROVE InboxInv'
<1>1. CASE UNCHANGED inboxVars
  <2>1. ask' = ask /\ events' = events /\ UNCHANGED <<list, unreadCount, doubled>>
    BY <1>1 DEF inboxVars
  <2>2. AsksAre'
    BY <2>1 DEF InboxInv, AsksAre
  <2> QED
    BY <2>1, <2>2, SameList DEF InboxInv
<1>2. CASE InboxNext
  <2>1. CASE \E n \in Notices : CreateNotification(n) \/ AddNotification(n)
    BY <2>1, CreateStep, AddStep
  <2>2. CASE \E q \in Asks : \E n \in Notices :
               FetchRows(q) \/ ReadAllRows(q) \/ ReadRow(q, n) \/ DeleteRow(q, n)
    BY <2>2, RequestSteps
  <2>3. CASE \E q \in Asks : AskFails(q) \/ ShowRows(q) \/ MarkAsRead(q) \/ MarkAllAsRead(q) \/ DeleteNotification(q)
    BY <2>3, FailStep, ShowStep, MarkStep, MarkAllStep, DeleteStep
  <2>4. CASE ForgetNotifications
    BY <2>4, ForgetStep
  <2>5. 1 \in Notices
    BY InboxAssumption DEF Notices
  <2> QED
    BY <1>2, <2>1, <2>2, <2>3, <2>4, <2>5 DEF InboxNext
<1> QED
  BY <1>1, <1>2

LEMMA BadgeIs == InboxInv => BadgeFollowsList
  BY DEF InboxInv, Counts, BadgeFollowsList

-----------------------------------------------------------------------------
(* Splits                                                                  *)

\* The two ways of adding up are one.
LEMMA SumOverIs == ASSUME NEW f PROVE SumOver(f) = SumFunction(f)
  BY DEF SumOver, MapThenSumSet, SumFunction, SumFunctionOnSet, FoldFunctionOnSet, MapThenFoldSet

LEMMA SumScale ==
    ASSUME NEW D, IsFiniteSet(D), NEW f \in [D -> Int], NEW k \in Int, NEW h \in [D -> Int],
           \A x \in D : h[x] = k * f[x]
    PROVE  SumFunction(h) = k * SumFunction(f)
<1> DEFINE P == {s \in SUBSET D : SumFunction(Restrict(h, s)) = k * SumFunction(Restrict(f, s))}
<1>1. {} \in P
  <2>1. k * 0 = 0
    OBVIOUS
  <2> QED
    BY <2>1, SumOfNone
<1>2. ASSUME NEW s \in SUBSET D, NEW x \in s, s \ {x} \in P PROVE s \in P
  <2>1. PICK a \in Int, b \in Int : /\ a = f[x] /\ b = SumFunction(Restrict(f, s \ {x}))
                                    /\ SumFunction(Restrict(f, s)) = a + b
    BY SumOfPart
  <2>2. SumFunction(Restrict(h, s)) = h[x] + SumFunction(Restrict(h, s \ {x}))
    BY SumOfPart
  <2>3. SumFunction(Restrict(h, s \ {x})) = k * b /\ h[x] = k * a
    BY <1>2, <2>1
  <2>4. k * a + k * b = k * (a + b)
    BY <2>1
  <2> QED
    BY <2>1, <2>2, <2>3, <2>4
<1> HIDE DEF P
<1>3. D \in P
  <2>1. \A s \in SUBSET D : s \in P
    BY <1>1, <1>2, RemovalInduction
  <2> QED
    BY <2>1
<1>4. Restrict(f, D) = f /\ Restrict(h, D) = h
  BY RestrictAll
<1> QED
  BY <1>3, <1>4 DEF P

LEMMA SumMonotone ==
    ASSUME NEW D, IsFiniteSet(D), NEW f \in [D -> Int], NEW g \in [D -> Int], \A x \in D : f[x] <= g[x]
    PROVE  SumFunction(f) <= SumFunction(g)
<1>1. PICK h : h = [x \in D |-> g[x] - f[x]]
  OBVIOUS
<1>2. h \in [D -> Nat] /\ h \in [D -> Int] /\ \A x \in D : g[x] = f[x] + h[x]
  <2>1. ASSUME NEW x \in D PROVE h[x] \in Nat /\ g[x] = f[x] + h[x]
    <3>1. f[x] \in Int /\ g[x] \in Int /\ f[x] <= g[x]
      OBVIOUS
    <3> QED
      BY <1>1, <3>1
  <2> QED
    BY <1>1, <2>1
<1>3. SumFunction(g) = SumFunction(f) + SumFunction(h)
  BY <1>2, SumAdd
<1>4. SumFunction(h) \in Nat /\ SumFunction(f) \in Int
  BY <1>2, SumIsNat, SumIsInt
<1> QED
  BY <1>3, <1>4

LEMMA SumOfSame ==
    ASSUME NEW D, IsFiniteSet(D), NEW f \in [D -> Int], NEW k \in Int, \A x \in D : f[x] = k
    PROVE  SumFunction(f) = Cardinality(D) * k
<1> DEFINE P == {s \in SUBSET D : SumFunction(Restrict(f, s)) = Cardinality(s) * k}
<1>1. {} \in P
  BY SumOfNone, FS_EmptySet
<1>2. ASSUME NEW s \in SUBSET D, NEW x \in s, s \ {x} \in P PROVE s \in P
  <2>1. SumFunction(Restrict(f, s)) = f[x] + SumFunction(Restrict(f, s \ {x}))
    BY SumOfPart
  <2>2. PICK n \in Nat : n = Cardinality(s \ {x}) /\ Cardinality(s) = n + 1
    BY SmallerWithout
  <2>3. SumFunction(Restrict(f, s \ {x})) = n * k /\ f[x] = k
    BY <1>2, <2>2
  <2>4. (n + 1) * k = k + n * k
    BY <2>2
  <2> QED
    BY <2>1, <2>2, <2>3, <2>4
<1> HIDE DEF P
<1>3. D \in P
  <2>1. \A s \in SUBSET D : s \in P
    BY <1>1, <1>2, RemovalInduction
  <2> QED
    BY <2>1
<1>4. Restrict(f, D) = f
  BY RestrictAll
<1> QED
  BY <1>3, <1>4 DEF P

\* A sum of ones and zeros counts the ones.
LEMMA SumCounts ==
    ASSUME NEW D, IsFiniteSet(D), NEW T \in SUBSET D, NEW f \in [D -> Int],
           \A x \in D : f[x] = IF x \in T THEN 1 ELSE 0
    PROVE  SumFunction(f) = Cardinality(T)
<1>1. PICK r \in SUBSET D : r = D \ T
  OBVIOUS
<1>2. T \cup r = D /\ T \cap r = {}
  BY <1>1
<1>3. SumFunction(Restrict(f, D)) = SumFunction(Restrict(f, T)) + SumFunction(Restrict(f, r))
  BY <1>2, SumOfUnion
<1>4. IsFiniteSet(T) /\ IsFiniteSet(r)
  BY FS_Subset
<1>5. SumFunction(Restrict(f, T)) = Cardinality(T) * 1
  <2>1. Restrict(f, T) \in [T -> Int] /\ \A x \in T : Restrict(f, T)[x] = 1
    BY DEF Restrict
  <2> QED
    BY <1>4, <2>1, SumOfSame
<1>6. SumFunction(Restrict(f, r)) = 0
  <2>1. Restrict(f, r) \in [r -> Int] /\ \A x \in r : Restrict(f, r)[x] = 0
    BY <1>1 DEF Restrict
  <2> QED
    BY <1>4, <2>1, SumZero
<1>7. Cardinality(T) \in Nat
  BY <1>4, FS_CardinalityType
<1>8. Restrict(f, D) = f
  BY RestrictAll
<1> QED
  BY <1>3, <1>5, <1>6, <1>7, <1>8

\* Rounding is off by half a cent at most.
LEMMA RoundBounds ==
    ASSUME NEW num \in Nat, NEW den \in Nat \ {0}
    PROVE  \E r \in Nat : /\ r = RoundCents(num, den)
                          /\ 2 * (den * r) <= 2 * num + den
                          /\ 2 * num <= 2 * (den * r) + den
<1>1. PICK a \in Nat, n \in Nat \ {0} : a = 2 * num + den /\ n = 2 * den
  OBVIOUS
<1>2. PICK q \in Nat : q = a \div n /\ q * n <= a /\ a < (q + 1) * n
  BY Quotient
<1>3. (q + 1) * n = q * n + n
  OBVIOUS
<1>4. q * n = 2 * (den * q)
  <2>1. q * (2 * den) = 2 * (den * q)
    OBVIOUS
  <2> QED
    BY <1>1, <2>1
<1>5. PICK p \in Nat : p = den * q
  OBVIOUS
<1>6. 2 * p <= 2 * num + den /\ 2 * num <= 2 * p + den
  BY <1>1, <1>2, <1>3, <1>4, <1>5
<1>7. q = RoundCents(num, den)
  BY <1>1, <1>2 DEF RoundCents
<1> QED
  BY <1>5, <1>6, <1>7

LEMMA CancelFactor ==
    ASSUME NEW k \in Nat \ {0}, NEW a \in Int, NEW b \in Int, k * a <= k * b PROVE a <= b
<1> SUFFICES ASSUME a >= b + 1 PROVE FALSE
  OBVIOUS
<1>1. PICK d \in Nat : a = b + d /\ d >= 1
  <2>1. a - b \in Nat /\ a = b + (a - b) /\ a - b >= 1
    OBVIOUS
  <2> QED
    BY <2>1
<1>2. k * (b + d) = k * b + k * d
  OBVIOUS
<1>3. k * d >= 1
  BY <1>1
<1>4. k * b \in Int /\ k * d \in Int
  OBVIOUS
<1> QED
  BY <1>1, <1>2, <1>3, <1>4

RoundsTo(r, f, den) == r = [x \in DOMAIN f |-> RoundCents(f[x], den)]

LEMMA SumRounded ==
    ASSUME NEW D, IsFiniteSet(D), NEW f \in [D -> Nat], NEW den \in Nat \ {0},
           NEW r, RoundsTo(r, f, den)
    PROVE  /\ r \in [D -> Nat]
           /\ 2 * (den * SumFunction(r)) <= 2 * SumFunction(f) + Cardinality(D) * den
           /\ 2 * SumFunction(f) <= 2 * (den * SumFunction(r)) + Cardinality(D) * den
<1>1. \A x \in D : /\ r[x] \in Nat
                   /\ 2 * (den * r[x]) <= 2 * f[x] + den
                   /\ 2 * f[x] <= 2 * (den * r[x]) + den
  <2> TAKE x \in D
  <2>1. f[x] \in Nat /\ r[x] = RoundCents(f[x], den)
    BY DEF RoundsTo
  <2> QED
    BY <2>1, RoundBounds
<1>2. r \in [D -> Nat]
  BY <1>1 DEF RoundsTo
<1>3. PICK F \in Int, R \in Int, n \in Nat : F = SumFunction(f) /\ R = SumFunction(r) /\ n = Cardinality(D)
  <2>1. SumFunction(f) \in Nat /\ SumFunction(r) \in Nat
    BY <1>2, SumIsNat
  <2>2. Cardinality(D) \in Nat
    BY FS_CardinalityType
  <2>3. SumFunction(f) \in Int /\ SumFunction(r) \in Int
    BY <2>1
  <2> QED
    BY <2>2, <2>3, Zenon
<1>4. PICK a, b, k : /\ a = [x \in D |-> (2 * den) * r[x]] /\ b = [x \in D |-> 2 * f[x]]
                     /\ k = [x \in D |-> den]
  OBVIOUS
<1>5. a \in [D -> Int] /\ b \in [D -> Int] /\ k \in [D -> Int] /\ f \in [D -> Int] /\ r \in [D -> Int]
  BY <1>2, <1>4
<1>6. SumFunction(a) = (2 * den) * R /\ SumFunction(b) = 2 * F /\ SumFunction(k) = n * den
  <2>1. \A x \in D : a[x] = (2 * den) * r[x] /\ b[x] = 2 * f[x] /\ k[x] = den
    BY <1>4
  <2>2. 2 * den \in Int /\ den \in Int /\ 2 \in Int
    OBVIOUS
  <2>6. PICK t \in Int : t = 2 * den
    BY <2>2
  <2>7. SumFunction(a) = t * SumFunction(r)
    <3>1. \A x \in D : a[x] = t * r[x]
      BY <2>1, <2>6
    <3> QED
      BY <1>5, <3>1, SumScale
  <2>3. SumFunction(a) = (2 * den) * R
    BY <1>3, <2>6, <2>7
  <2>4. SumFunction(b) = 2 * F
    <3>1. PICK k2 \in Int : k2 = 2
      OBVIOUS
    <3>2. \A x \in D : b[x] = k2 * f[x]
      BY <2>1, <3>1
    <3>3. SumFunction(b) = k2 * SumFunction(f)
      BY <1>5, <3>2, SumScale
    <3> QED
      BY <1>3, <3>1, <3>3
  <2>5. SumFunction(k) = n * den
    BY <1>3, <1>5, <2>1, <2>2, SumOfSame
  <2> QED
    BY <2>3, <2>4, <2>5
<1>7. PICK ak, bk : ak = [x \in D |-> a[x] + k[x]] /\ bk = [x \in D |-> b[x] + k[x]]
  OBVIOUS
<1>8. /\ ak \in [D -> Int] /\ bk \in [D -> Int]
      /\ \A x \in D : ak[x] = a[x] + k[x] /\ bk[x] = b[x] + k[x]
  BY <1>5, <1>7
<1>9. SumFunction(ak) = SumFunction(a) + SumFunction(k) /\ SumFunction(bk) = SumFunction(b) + SumFunction(k)
  BY <1>5, <1>8, SumAdd
<1>10. \A x \in D : a[x] <= bk[x] /\ b[x] <= ak[x]
  <2> TAKE x \in D
  <2>1. a[x] = (2 * den) * r[x] /\ b[x] = 2 * f[x] /\ k[x] = den
    BY <1>4
  <2>2. (2 * den) * r[x] = 2 * (den * r[x])
    BY <1>1
  <2>3. bk[x] = 2 * f[x] + den /\ ak[x] = 2 * (den * r[x]) + den
    BY <1>8, <2>1, <2>2
  <2> QED
    BY <1>1, <2>1, <2>2, <2>3
<1>11. SumFunction(a) <= SumFunction(bk) /\ SumFunction(b) <= SumFunction(ak)
  BY <1>5, <1>8, <1>10, SumMonotone
<1>12. (2 * den) * R = 2 * (den * R)
  BY <1>3
<1> QED
  BY <1>2, <1>3, <1>6, <1>9, <1>11, <1>12

\* A function without one of its arguments.
LEMMA SumWithout ==
    ASSUME NEW n \in Nat \ {0}, NEW f \in [1..n -> Int], NEW g \in [1..(n - 1) -> Int],
           \A i \in 1..(n - 1) : g[i] = f[i]
    PROVE  /\ IsFiniteSet(1..n) /\ IsFiniteSet(1..(n - 1)) /\ Cardinality(1..(n - 1)) = n - 1
           /\ SumFunction(g) \in Int
           /\ SumFunction(f) = SumFunction(g) + f[n]
<1>1. /\ IsFiniteSet(1..n) /\ IsFiniteSet(1..(n - 1))
      /\ Cardinality(1..(n - 1)) = IF 1 > n - 1 THEN 0 ELSE n - 1 - 1 + 1
  <2>1. 1 \in Int /\ n \in Int /\ n - 1 \in Int
    OBVIOUS
  <2> QED
    BY <2>1, FS_Interval
<1>2. n \in 1..n /\ (1..n) \ {n} = 1..(n - 1)
  OBVIOUS
<1>3. SumFunction(f) = f[n] + SumFunction(Restrict(f, (1..n) \ {n}))
  BY <1>1, <1>2, SumRemove
<1>4. Restrict(f, (1..n) \ {n}) = g
  BY <1>2 DEF Restrict
<1>5. SumFunction(g) \in Int /\ f[n] \in Int
  BY <1>1, <1>2, SumIsInt
<1> QED
  BY <1>1, <1>3, <1>4, <1>5

\* The shares by weights reach the total, and exceed it only when the last
\* member's weight is too small.
SharesReach(shares, n, total) ==
    shares \in [1..n -> Nat] /\ SumFunction(shares) \in Nat /\ SumFunction(shares) >= total

LEMMA AllocatedShares ==
    ASSUME NEW total \in Nat, NEW n \in Nat \ {0}, NEW w \in [1..n -> Nat], NEW W \in Nat \ {0}
    PROVE  /\ SharesReach(AllocateByWeights(total, w, W), n, total)
           /\ SumFunction(w) = W /\ 2 * (total * w[n]) >= (n - 1) * W
              => SumFunction(AllocateByWeights(total, w, W)) = total
<1>0. Len(w) = n
  <2>1. DOMAIN w = 1..n /\ w \in Seq(Nat)
    OBVIOUS
  <2> QED
    BY <2>1, SMT
<1>14. PICK D : D = 1..(n - 1)
  OBVIOUS
<1>1. PICK tw : tw = [i \in 1..(n - 1) |-> total * w[i]]
  OBVIOUS
<1>2. PICK firsts : firsts = [i \in 1..(n - 1) |-> RoundCents(total * w[i], W)]
  OBVIOUS
<1>3. tw \in [1..(n - 1) -> Nat] /\ RoundsTo(firsts, tw, W)
  <2>1. \A i \in 1..(n - 1) : w[i] \in Nat /\ total * w[i] \in Nat
    <3> TAKE i \in 1..(n - 1)
    <3>1. w[i] \in Nat
      OBVIOUS
    <3> QED
      BY <3>1
  <2>2. tw \in [1..(n - 1) -> Nat]
    BY <1>1, <2>1
  <2>3. DOMAIN tw = 1..(n - 1) /\ \A i \in 1..(n - 1) : tw[i] = total * w[i]
    BY <1>1
  <2> QED
    BY <1>2, <2>2, <2>3 DEF RoundsTo
<1>4. PICK shares : shares = AllocateByWeights(total, w, W)
  OBVIOUS
<1>5. IsFiniteSet(1..n) /\ IsFiniteSet(1..(n - 1)) /\ Cardinality(1..(n - 1)) = n - 1
  <2>1. w \in [1..n -> Int] /\ [i \in 1..(n - 1) |-> w[i]] \in [1..(n - 1) -> Int]
    OBVIOUS
  <2> QED
    BY <2>1, SumWithout
<1>6. /\ firsts \in [1..(n - 1) -> Nat]
      /\ 2 * (W * SumFunction(firsts)) <= 2 * SumFunction(tw) + (n - 1) * W
  <2>1. IsFiniteSet(D) /\ Cardinality(D) = n - 1 /\ tw \in [D -> Nat]
    BY <1>3, <1>5, <1>14
  <2>2. firsts \in [D -> Nat] /\ 2 * (W * SumFunction(firsts)) <= 2 * SumFunction(tw) + Cardinality(D) * W
    BY <1>3, <2>1, SumRounded
  <2> QED
    BY <1>14, <2>1, <2>2
<1>7. PICK R \in Nat : R = SumFunction(firsts)
  BY <1>5, <1>6, SumIsNat
<1>8. Max({0, total - R}) = IF total >= R THEN total - R ELSE 0
  BY <1>7 DEF Max
<1>9. PICK last \in Nat : last = (IF total >= R THEN total - R ELSE 0)
  <2>1. (IF total >= R THEN total - R ELSE 0) \in Nat
    BY <1>7
  <2> QED
    BY <2>1
<1>10. shares = [i \in 1..n |-> IF i < n THEN firsts[i] ELSE last]
  <2>1. AllocateByWeights(total, w, W)
            = [i \in 1..n |-> IF i < n THEN firsts[i] ELSE Max({0, total - SumOver(firsts)})]
    BY <1>0, <1>2 DEF AllocateByWeights, LastShare
  <2>2. Max({0, total - SumOver(firsts)}) = last
    BY <1>7, <1>8, <1>9, SumOverIs
  <2> QED
    BY <1>4, <2>1, <2>2
<1>11. shares \in [1..n -> Nat] /\ shares[n] = last /\ \A i \in 1..(n - 1) : firsts[i] = shares[i]
  <2>1. \A i \in 1..n : i < n => i \in 1..(n - 1)
    OBVIOUS
  <2>2. \A i \in 1..n : shares[i] \in Nat
    BY <1>6, <1>10, <2>1
  <2>3. n \in 1..n /\ \A i \in 1..(n - 1) : i \in 1..n /\ i < n
    OBVIOUS
  <2> QED
    BY <1>10, <2>2, <2>3
<1>12. SumFunction(shares) = R + last
  <2>1. shares \in [1..n -> Int] /\ firsts \in [1..(n - 1) -> Int]
    BY <1>6, <1>11
  <2> QED
    BY <1>7, <1>11, <2>1, SumWithout
<1>13. ASSUME SumFunction(w) = W, 2 * (total * w[n]) >= (n - 1) * W PROVE R <= total
  <2>1. PICK v : v = [i \in 1..(n - 1) |-> w[i]]
    OBVIOUS
  <2>2. v \in [1..(n - 1) -> Int] /\ w \in [1..n -> Int] /\ \A i \in 1..(n - 1) : v[i] = w[i]
    BY <2>1
  <2>3. PICK V \in Int, l \in Nat : V = SumFunction(v) /\ l = w[n] /\ W = V + l
    <3>1. n \in 1..n /\ w[n] \in Nat
      OBVIOUS
    <3>2. SumFunction(v) \in Int /\ SumFunction(w) = SumFunction(v) + w[n]
      BY <2>2, SumWithout
    <3> QED
      BY <1>13, <3>1, <3>2, Zenon
  <2>4. SumFunction(tw) = total * V
    <3>1. tw \in [D -> Int] /\ v \in [D -> Int] /\ \A i \in D : tw[i] = total * v[i]
      BY <1>1, <1>3, <1>14, <2>1, <2>2
    <3>2. IsFiniteSet(D) /\ total \in Int
      BY <1>5, <1>14
    <3>3. SumFunction(tw) = total * SumFunction(v)
      BY <3>1, <3>2, SumScale
    <3> QED
      BY <2>3, <3>3
  <2>5. PICK p \in Int, q \in Int, m \in Int : p = total * V /\ q = total * l /\ m = (n - 1) * W
    <3>1. total * V \in Int /\ total * l \in Int
      BY <2>3
    <3>2. (n - 1) * W \in Int
      OBVIOUS
    <3> QED
      BY <3>1, <3>2, Zenon
  <2>6. W * total = p + q
    <3>1. (V + l) * total = total * V + total * l
      BY <2>3
    <3> QED
      BY <2>3, <2>5, <3>1
  <2>7. 2 * (W * R) <= 2 * p + m /\ 2 * q >= m
    BY <1>6, <1>7, <1>13, <2>3, <2>4, <2>5
  <2>8. W * R <= W * total
    <3>1. W * R \in Int
      BY <1>7
    <3> QED
      BY <2>5, <2>6, <2>7, <3>1
  <2> QED
    BY <1>7, <2>8, CancelFactor
<1>15. SharesReach(shares, n, total)
  <2>1. R + last \in Nat /\ R + last >= total
    BY <1>7, <1>9
  <2> QED
    BY <1>11, <1>12, <2>1, Zenon DEF SharesReach
<1>16. R <= total => SumFunction(shares) = total
  BY <1>7, <1>9, <1>12
<1> QED
  BY <1>4, <1>13, <1>15, <1>16, Zenon

\* The loop that corrects the shares gives up what they exceed the total by, at most.
LEMMA CorrectedShares ==
    ASSUME NEW total \in Nat, NEW n \in Nat \ {0}, NEW shares, SharesReach(shares, n, total)
    PROVE  /\ SharesReach(CorrectShares(total, shares), n, total)
           /\ SumFunction(shares) = total => CorrectShares(total, shares) = shares
<1>0. Len(shares) = n /\ shares \in [1..n -> Nat]
  <2>1. DOMAIN shares = 1..n /\ shares \in Seq(Nat) /\ shares \in [1..n -> Nat]
    BY DEF SharesReach
  <2> QED
    BY <2>1, SMT
<1>1. PICK S \in Nat, d \in Nat : S = SumFunction(shares) /\ d = S - total
  <2>1. SumFunction(shares) - total \in Nat
    BY DEF SharesReach
  <2> QED
    BY <2>1 DEF SharesReach
<1>2. total - SumOver(shares) = -d /\ Magnitude(-d) = d
  <2>1. SumOver(shares) = S
    BY <1>1, SumOverIs
  <2>2. total - S = -d /\ (IF -d < 0 THEN -(-d) ELSE -d) = d
    BY <1>1
  <2> QED
    BY <2>1, <2>2 DEF Magnitude
<1>3. PICK corrected : corrected = CorrectShares(total, shares)
  OBVIOUS
<1>4. corrected = [i \in 1..n |-> IF n - i < d THEN Max({0, shares[i] - 1}) ELSE shares[i]]
  <2>1. \A i \in 1..n : Max({0, shares[i] + -1}) = Max({0, shares[i] - 1})
    BY <1>0
  <2>2. ~(-d > 0)
    BY <1>1
  <2>3. corrected = [i \in 1..n |-> IF n - i < d THEN Max({0, shares[i] + -1}) ELSE shares[i]]
    BY <1>0, <1>2, <1>3, <2>2 DEF CorrectShares
  <2> QED
    BY <2>1, <2>3
<1>5. PICK T \in SUBSET (1..n) : T = {i \in 1..n : n - i < d}
  OBVIOUS
<1>6. PICK g : g = [i \in 1..n |-> IF i \in T THEN 1 ELSE 0]
  OBVIOUS
<1>7. g \in [1..n -> Int] /\ IsFiniteSet(1..n) /\ SumFunction(g) = Cardinality(T)
  <2>1. 1 \in Int /\ n \in Int
    OBVIOUS
  <2>2. IsFiniteSet(1..n)
    BY <2>1, FS_Interval
  <2>3. g \in [1..n -> Int] /\ \A i \in 1..n : g[i] = IF i \in T THEN 1 ELSE 0
    BY <1>6
  <2> QED
    BY <2>2, <2>3, SumCounts
<1>8. Cardinality(T) <= d
  <2>1. n - d + 1 \in Int /\ n \in Int
    BY <1>1
  <2>2. PICK l \in Int : l = n - d + 1
    BY <2>1
  <2>3. IsFiniteSet(l..n) /\ Cardinality(l..n) = IF l > n THEN 0 ELSE n - l + 1
    BY <2>2, FS_Interval
  <2>4. T \in SUBSET (l..n)
    BY <1>1, <1>5, <2>2
  <2>5. Cardinality(T) <= Cardinality(l..n) /\ Cardinality(T) \in Nat
    BY <2>3, <2>4, FS_Subset, FS_CardinalityType
  <2>6. Cardinality(l..n) <= d
    <3>1. (IF l > n THEN 0 ELSE n - l + 1) <= d
      BY <1>1, <2>2
    <3> QED
      BY <2>3, <3>1, Zenon
  <2> QED
    BY <1>1, <2>3, <2>5, <2>6
<1>9. \A i \in 1..n : corrected[i] \in Nat /\ shares[i] <= corrected[i] + g[i]
  <2> TAKE i \in 1..n
  <2>1. shares[i] \in Nat
    BY <1>0
  <2>2. Max({0, shares[i] - 1}) = IF shares[i] >= 1 THEN shares[i] - 1 ELSE 0
    BY <2>1 DEF Max
  <2>3. CASE i \in T
    BY <1>4, <1>5, <1>6, <2>1, <2>2, <2>3
  <2>4. CASE i \notin T
    BY <1>4, <1>5, <1>6, <2>1, <2>4
  <2> QED
    BY <2>3, <2>4
<1>10. corrected \in [1..n -> Nat] /\ corrected \in [1..n -> Int] /\ shares \in [1..n -> Int]
  BY <1>0, <1>4, <1>9
<1>11. PICK cg : cg = [i \in 1..n |-> corrected[i] + g[i]]
  OBVIOUS
<1>12. cg \in [1..n -> Int] /\ \A i \in 1..n : cg[i] = corrected[i] + g[i]
  BY <1>7, <1>10, <1>11
<1>13. SumFunction(cg) = SumFunction(corrected) + SumFunction(g) /\ SumFunction(shares) <= SumFunction(cg)
  <2>1. SumFunction(cg) = SumFunction(corrected) + SumFunction(g)
    <3>1. /\ IsFiniteSet(1..n) /\ g \in [1..n -> Int] /\ corrected \in [1..n -> Int]
          /\ cg \in [1..n -> Int] /\ \A i \in 1..n : cg[i] = corrected[i] + g[i]
      BY <1>7, <1>10, <1>12
    <3>2. PICK D : D = 1..n
      OBVIOUS
    <3>3. /\ IsFiniteSet(D) /\ g \in [D -> Int] /\ corrected \in [D -> Int]
          /\ cg \in [D -> Int] /\ \A i \in D : cg[i] = corrected[i] + g[i]
      BY <3>1, <3>2
    <3> QED
      BY <3>3, SumAdd
  <2>2. \A i \in 1..n : shares[i] <= cg[i]
    BY <1>9, <1>12
  <2>3. SumFunction(shares) <= SumFunction(cg)
    BY <1>7, <1>10, <1>12, <2>2, SumMonotone
  <2> QED
    BY <2>1, <2>3
<1>14. SumFunction(corrected) \in Nat
  BY <1>7, <1>10, SumIsNat
<1>15. SumFunction(corrected) >= total
  <2>1. Cardinality(T) \in Nat
    BY <1>7, FS_Subset, FS_CardinalityType
  <2> QED
    BY <1>1, <1>7, <1>8, <1>13, <1>14, <2>1
<1>16. ASSUME SumFunction(shares) = total PROVE corrected = shares
  <2>1. d = 0
    BY <1>1, <1>16
  <2>2. \A i \in 1..n : corrected[i] = shares[i]
    BY <1>4, <2>1
  <2> QED
    BY <1>10, <2>2
<1> QED
  BY <1>3, <1>10, <1>14, <1>15, <1>16 DEF SharesReach

LEMMA SharersAre == Count \in Nat \ {0} /\ Sharers = 1..Count /\ IsFiniteSet(Sharers) /\ Cardinality(Sharers) = Count
<1>1. Count \in Nat \ {0}
  BY SplitsAssumption
<1>2. 1 \in Int /\ Count \in Int
  BY <1>1
<1>3. IsFiniteSet(1..Count) /\ Cardinality(1..Count) = IF 1 > Count THEN 0 ELSE Count - 1 + 1
  BY <1>2, FS_Interval
<1> QED
  BY <1>1, <1>3 DEF Sharers

\* What the engine does with weights, with and without the correction.
LEMMA EngineShares ==
    ASSUME NEW total \in Nat, NEW w \in [Sharers -> Nat], NEW W \in Nat \ {0}, NEW shares,
           shares \in {AllocateByWeights(total, w, W),
                       CorrectShares(total, AllocateByWeights(total, w, W))}
    PROVE  /\ SharesReach(shares, Count, total)
           /\ SumOver(w) = W /\ 2 * total * w[Count] >= (Count - 1) * W => SumOver(shares) = total
<1>1. PICK n \in Nat \ {0} : n = Count /\ w \in [1..n -> Nat]
  BY SharersAre
<1>2. /\ SharesReach(AllocateByWeights(total, w, W), n, total)
      /\ SumFunction(w) = W /\ 2 * (total * w[n]) >= (n - 1) * W
         => SumFunction(AllocateByWeights(total, w, W)) = total
  BY <1>1, AllocatedShares
<1>3. PICK s : s = AllocateByWeights(total, w, W)
  OBVIOUS
<1>4. /\ SharesReach(CorrectShares(total, s), n, total)
      /\ SumFunction(s) = total => CorrectShares(total, s) = s
  BY <1>1, <1>2, <1>3, CorrectedShares
<1>5. SharesReach(shares, n, total) /\ (SumFunction(s) = total => SumFunction(shares) = total)
  BY <1>2, <1>3, <1>4
<1>6. 2 * total * w[n] = 2 * (total * w[n])
  <2>1. n \in 1..n
    OBVIOUS
  <2>2. w[n] \in Nat
    BY <1>1, <2>1
  <2> QED
    BY <2>2
<1>7. SumOver(w) = SumFunction(w) /\ SumOver(shares) = SumFunction(shares)
  BY SumOverIs
<1> QED
  BY <1>1, <1>2, <1>3, <1>5, <1>6, <1>7

\* Weights of ratios.
LEMMA RatioWeightsAre ==
    ASSUME NEW given \in SUBSET Sharers, NEW ratios, given = {} \/ ratios \in [given -> Nat]
    PROVE  /\ RatioWeights(given, ratios).w \in [Sharers -> Nat]
           /\ RatioWeights(given, ratios).of \in Nat \ {0}
<1>1. IsFiniteSet(given) /\ Cardinality(given) \in Nat /\ Cardinality(given) <= Count
  <2>1. IsFiniteSet(given) /\ Cardinality(given) <= Count
    BY SharersAre, FS_Subset
  <2> QED
    BY <2>1, FS_CardinalityType
<1>2. PICK g : g = [i \in given |-> ratios[i]]
  OBVIOUS
<1>3. g \in [given -> Nat] /\ SumOver(g) = SumFunction(g) /\ \A i \in given : ratios[i] \in Nat
  BY <1>2, SumOverIs
<1>4. PICK total \in Nat : total = SumOver(g)
  BY <1>1, <1>3, SumIsNat
<1>5. PICK named \in Nat : named = Cardinality(given) /\ named <= Count
  BY <1>1
<1>6. Count \in Nat \ {0} /\ Whole \in Nat \ {0}
  BY SplitsAssumption
<1>7. CASE total <= 0
  <2>1. RatioWeights(given, ratios) = [w |-> [i \in Sharers |-> 1], of |-> Count]
    BY <1>2, <1>4, <1>7 DEF RatioWeights
  <2> QED
    BY <1>6, <2>1
<1>8. CASE total > 0 /\ given # Sharers
  <2>1. RatioWeights(given, ratios)
            = [w |-> [i \in Sharers |-> IF i \in given THEN ratios[i] * named ELSE total],
               of |-> total * named + total * (Count - named)]
    BY <1>2, <1>4, <1>5, <1>8 DEF RatioWeights
  <2>2. \A i \in given : ratios[i] * named \in Nat
    <3> TAKE i \in given
    <3>1. ratios[i] \in Nat
      BY <1>3
    <3> QED
      BY <3>1
  <2>3. total * named + total * (Count - named) \in Nat \ {0}
    <3>1. PICK free \in Nat : free = Count - named /\ named + free = Count
      <4>1. Count - named \in Nat /\ named + (Count - named) = Count
        BY <1>5, <1>6
      <4> QED
        BY <4>1
    <3>2. total * named + total * free = total * (named + free)
      OBVIOUS
    <3>3. total * Count \in Nat \ {0}
      BY <1>6, <1>8
    <3> QED
      BY <3>1, <3>2, <3>3
  <2> QED
    BY <2>1, <2>2, <2>3
<1>9. CASE total > 0 /\ given = Sharers
  <2>1. /\ RatioWeights(given, ratios).w = ratios
        /\ RatioWeights(given, ratios).of \in {total, Whole}
    BY <1>2, <1>4, <1>9 DEF RatioWeights
  <2>2. ratios \in [Sharers -> Nat]
    BY <1>6, <1>9, SharersAre
  <2> QED
    BY <1>6, <1>9, <2>1, <2>2
<1> QED
  BY <1>7, <1>8, <1>9

LEMMA RatioSplits ==
    ASSUME NEW total \in Nat, NEW given \in SUBSET Sharers, NEW ratios,
           given = {} \/ ratios \in [given -> Nat]
    PROVE  LET rw == RatioWeights(given, ratios)
               shares == calculateRatioSplits(total, given, ratios)
           IN  /\ SharesReach(shares, Count, total)
               /\ SumOver(rw.w) = rw.of /\ 2 * total * rw.w[Count] >= (Count - 1) * rw.of
                  => SumOver(shares) = total
<1>1. PICK w \in [Sharers -> Nat], W \in Nat \ {0} :
        w = RatioWeights(given, ratios).w /\ W = RatioWeights(given, ratios).of
  BY RatioWeightsAre
<1>2. PICK shares : shares = calculateRatioSplits(total, given, ratios)
  OBVIOUS
<1>3. shares = CorrectShares(total, AllocateByWeights(total, w, W))
  BY <1>1, <1>2 DEF calculateRatioSplits
<1>4. shares \in {AllocateByWeights(total, w, W), CorrectShares(total, AllocateByWeights(total, w, W))}
  BY <1>3
<1>5. /\ SharesReach(shares, Count, total)
      /\ SumOver(w) = W /\ 2 * total * w[Count] >= (Count - 1) * W => SumOver(shares) = total
  BY <1>4, EngineShares
<1> QED
  BY <1>1, <1>2, <1>5

\* Amounts, none of them negative, are the weights.
LEMMA FixedSplits ==
    ASSUME NEW total \in Nat, NEW amounts \in [Sharers -> Nat], SumOver(amounts) > 0
    PROVE  /\ SharesReach(calculateFixedSplits(total, amounts), Count, total)
           /\ 2 * total * amounts[Count] >= (Count - 1) * SumOver(amounts)
              => SumOver(calculateFixedSplits(total, amounts)) = total
<1>1. PICK safe : safe = [i \in Sharers |-> Max({0, amounts[i]})]
  OBVIOUS
<1>2. safe = amounts
  <2>1. \A a \in Nat : Max({0, a}) = a
    <3> TAKE a \in Nat
    <3>1. \A x \in {0, a} : x <= a
      OBVIOUS
    <3>2. \A x \in {0, a} : (\A y \in {0, a} : y <= x) => x = a
      OBVIOUS
    <3> QED
      BY <3>1, <3>2 DEF Max
  <2>2. \A i \in Sharers : safe[i] = amounts[i]
    BY <1>1, <2>1
  <2> QED
    BY <1>1, <2>2
<1>3. PICK W \in Nat \ {0} : W = SumOver(amounts)
  <2>1. SumOver(amounts) \in Nat
    BY SumOverIs, SumIsNat, SharersAre
  <2> QED
    BY <2>1
<1>4. PICK shares : shares = calculateFixedSplits(total, amounts)
  OBVIOUS
<1>5. shares = AllocateByWeights(total, amounts, W)
  <2>1. SumOver(safe) = W /\ W # 0
    BY <1>2, <1>3
  <2> QED
    BY <1>1, <1>2, <1>4, <2>1 DEF calculateFixedSplits
<1>6. shares \in {AllocateByWeights(total, amounts, W),
                  CorrectShares(total, AllocateByWeights(total, amounts, W))}
  BY <1>5
<1>7. /\ SharesReach(shares, Count, total)
      /\ SumOver(amounts) = W /\ 2 * total * amounts[Count] >= (Count - 1) * W => SumOver(shares) = total
  BY <1>6, EngineShares
<1> QED
  BY <1>3, <1>4, <1>7

\* Somebody bears a part of every item.
LEMMA ItemPartsAre ==
    ASSUME NEW item, item.among \in SUBSET Sharers, item.parts \in [Sharers -> Nat]
    PROVE  ItemParts(item) \in [Sharers -> Nat] /\ SumOver(ItemParts(item)) \in Nat \ {0}
<1>1. PICK among : among = IF item.among = {} THEN Sharers ELSE item.among
  OBVIOUS
<1>2. among # {} /\ among \in SUBSET Sharers
  <2>1. 1 \in 1..Count
    BY SharersAre
  <2> QED
    BY <1>1, <2>1, SharersAre
<1>3. PICK parts, ones : /\ parts = [i \in Sharers |-> IF i \in among THEN item.parts[i] ELSE 0]
                         /\ ones = [i \in Sharers |-> IF i \in among THEN 1 ELSE 0]
  OBVIOUS
<1>4. parts \in [Sharers -> Nat] /\ ones \in [Sharers -> Nat] /\ ones \in [Sharers -> Int]
  BY <1>3
<1>5. SumOver(parts) \in Nat
  BY <1>4, SumOverIs, SumIsNat, SharersAre
<1>6. SumOver(ones) \in Nat \ {0}
  <2>1. IsFiniteSet(Sharers)
    BY SharersAre
  <2>2. SumFunction(ones) = Cardinality(among)
    <3>1. \A i \in Sharers : ones[i] = IF i \in among THEN 1 ELSE 0
      BY <1>3
    <3> QED
      BY <1>2, <1>4, <2>1, <3>1, SumCounts
  <2>3. IsFiniteSet(among)
    BY <1>2, <2>1, FS_Subset
  <2>4. Cardinality(among) \in Nat /\ Cardinality(among) # 0
    BY <1>2, <2>3, FS_CardinalityType, FS_EmptySet
  <2> QED
    BY <2>2, <2>4, SumOverIs
<1>7. ItemParts(item) = IF SumOver(parts) > 0 THEN parts ELSE ones
  BY <1>1, <1>3 DEF ItemParts
<1> QED
  BY <1>4, <1>5, <1>6, <1>7

LEMMA ItemizedSplits ==
    ASSUME NEW total \in Nat, NEW a, NEW b,
           a.amount \in Nat, a.among \in SUBSET Sharers, a.parts \in [Sharers -> Nat],
           b.amount \in Nat, b.among \in SUBSET Sharers, b.parts \in [Sharers -> Nat]
    PROVE  SharesReach(calculateItemizedSplits(total, a, b), Count, total)
<1>1. PICK pa \in [Sharers -> Nat], pb \in [Sharers -> Nat] : pa = ItemParts(a) /\ pb = ItemParts(b)
  BY ItemPartsAre
<1>2. PICK A \in Nat \ {0}, B \in Nat \ {0} : A = SumOver(pa) /\ B = SumOver(pb)
  BY <1>1, ItemPartsAre
<1>3. PICK x \in Nat, y \in Nat : x = a.amount /\ y = b.amount
  OBVIOUS
<1>4. PICK w, W : w = [i \in Sharers |-> x * pa[i] * B + y * pb[i] * A] /\ W = (x + y) * A * B
  OBVIOUS
<1>5. CASE x + y = 0
  <2>1. calculateItemizedSplits(total, a, b) = calculateRatioSplits(total, {}, <<>>)
    BY <1>3, <1>5 DEF calculateItemizedSplits
  <2>2. {} \in SUBSET Sharers
    OBVIOUS
  <2>3. SharesReach(calculateRatioSplits(total, {}, <<>>), Count, total)
    BY <2>2, RatioSplits
  <2> QED
    BY <2>1, <2>3
<1>6. CASE x + y # 0
  <2>1. calculateItemizedSplits(total, a, b) = AllocateByWeights(total, w, W)
    BY <1>1, <1>2, <1>3, <1>4, <1>6 DEF calculateItemizedSplits
  <2>2. w \in [Sharers -> Nat]
    <3>1. ASSUME NEW i \in Sharers PROVE x * pa[i] * B + y * pb[i] * A \in Nat
      <4>1. pa[i] \in Nat /\ pb[i] \in Nat
        OBVIOUS
      <4>2. x * pa[i] \in Nat /\ y * pb[i] \in Nat
        BY <4>1
      <4>3. x * pa[i] * B \in Nat /\ y * pb[i] * A \in Nat
        BY <4>2
      <4> QED
        BY <4>3
    <3> QED
      BY <1>4, <3>1
  <2>3. W \in Nat \ {0}
    <3>1. x + y \in Nat \ {0}
      BY <1>6
    <3>2. (x + y) * A \in Nat \ {0}
      BY <3>1
    <3> QED
      BY <1>4, <3>2
  <2>4. PICK shares : shares = AllocateByWeights(total, w, W)
    OBVIOUS
  <2>5. shares \in {AllocateByWeights(total, w, W), CorrectShares(total, AllocateByWeights(total, w, W))}
    BY <2>4
  <2> QED
    BY <2>1, <2>2, <2>3, <2>4, <2>5, EngineShares
<1> QED
  BY <1>5, <1>6

\* As many come before a place in the order as it says.
LEMMA PlacesCount ==
    ASSUME NEW N \in Nat, NEW T \in SUBSET (1..N), NEW k \in Nat, k <= Cardinality(T),
           NEW f \in [T -> Int], \A i \in T : f[i] = IF Place(i, T) < k THEN 1 ELSE 0
    PROVE  SumFunction(f) = k
<1>1. /\ IsFiniteSet(T) /\ Cardinality(T) \in Nat
      /\ \A l \in 1..Cardinality(T) : \E i \in T : Ordinal(T, i) = l
      /\ \A i \in T : Ordinal(T, i) \in 1..Cardinality(T)
      /\ \A i, j \in T : Ordinal(T, i) = Ordinal(T, j) => i = j
  BY PlacesRanked
<1>2. PICK n \in Nat : n = Cardinality(T) /\ k <= n
  BY <1>1
<1>3. ASSUME NEW i \in T PROVE Ordinal(T, i) = Place(i, T) + 1
  <2>1. PICK before : before = {j \in T : j < i}
    OBVIOUS
  <2>2. before \in SUBSET T /\ i \notin before
    <3>1. i \in Nat
      OBVIOUS
    <3> QED
      BY <2>1, <3>1
  <2>3. {j \in T : j <= i} = before \cup {i}
    <3>1. i \in Nat /\ \A j \in T : j \in Nat
      OBVIOUS
    <3>2. \A j \in T : j <= i <=> j < i \/ j = i
      BY <3>1
    <3> QED
      BY <2>1, <3>2
  <2>4. IsFiniteSet(before)
    BY <1>1, <2>2, FS_Subset
  <2>5. Cardinality(before \cup {i}) = Cardinality(before) + 1
    BY <2>2, <2>4, FS_AddElement
  <2> QED
    BY <2>1, <2>3, <2>5 DEF Ordinal, Place
<1>4. PICK B \in SUBSET T : B = {i \in T : Place(i, T) < k}
  OBVIOUS
<1>5. \A i \in T : i \in B <=> Ordinal(T, i) <= k
  <2> TAKE i \in T
  <2>1. Ordinal(T, i) \in Nat /\ Ordinal(T, i) = Place(i, T) + 1
    BY <1>1, <1>3
  <2>2. Place(i, T) \in Nat
    <3>1. {j \in T : j < i} \in SUBSET T
      OBVIOUS
    <3>2. IsFiniteSet({j \in T : j < i})
      BY <1>1, <3>1, FS_Subset
    <3> QED
      BY <3>2, FS_CardinalityType DEF Place
  <2> QED
    BY <1>4, <2>1, <2>2
<1>6. PICK rank : rank = [i \in B |-> Ordinal(T, i)]
  OBVIOUS
<1>7. rank \in [B -> 1..k] /\ \A i \in B : rank[i] = Ordinal(T, i)
  <2>1. ASSUME NEW i \in B PROVE Ordinal(T, i) \in 1..k
    <3>1. i \in T /\ Ordinal(T, i) \in Nat /\ Ordinal(T, i) >= 1 /\ Ordinal(T, i) <= k
      BY <1>1, <1>5
    <3> QED
      BY <3>1
  <2> QED
    BY <1>6, <2>1
<1>8. rank \in Injection(B, 1..k)
  BY <1>1, <1>4, <1>7 DEF Injection, IsInjective
<1>9. rank \in Surjection(B, 1..k)
  <2> SUFFICES ASSUME NEW l \in 1..k PROVE \E i \in B : rank[i] = l
    BY <1>7 DEF Surjection
  <2>1. l \in 1..n /\ l <= k
    BY <1>2
  <2>2. PICK i \in T : Ordinal(T, i) = l
    BY <1>1, <1>2, <2>1
  <2> QED
    BY <1>5, <1>7, <2>1, <2>2
<1>10. IsFiniteSet(1..k) /\ Cardinality(1..k) = k
  <2>1. 1 \in Int /\ k \in Int
    OBVIOUS
  <2>2. IsFiniteSet(1..k) /\ Cardinality(1..k) = IF 1 > k THEN 0 ELSE k - 1 + 1
    BY <2>1, FS_Interval
  <2> QED
    BY <2>2
<1>11. Cardinality(B) = k
  BY <1>8, <1>9, <1>10, FS_Injection
<1>12. \A i \in T : f[i] = IF i \in B THEN 1 ELSE 0
  BY <1>4
<1>13. SumFunction(f) = Cardinality(B)
  <2>1. IsFiniteSet(T)
    BY <1>1
  <2> QED
    BY <1>12, <2>1, SumCounts
<1> QED
  BY <1>11, <1>13

\* What rounding left over is handed out to the cent; nobody gives up more than one.
Handed(shares, T, total) ==
    shares \in [T -> Int] /\ SumFunction(shares) = total /\ \A i \in T : shares[i] >= -1

LEMMA HandedOut ==
    ASSUME NEW N \in Nat, NEW T \in SUBSET (1..N), T # {}, NEW f \in [T -> Nat],
           NEW den \in Nat \ {0}, NEW total \in Nat, SumFunction(f) = den * total
    PROVE  Handed(roundToCentsWithRemainder(f, den, total), T, total)
<1>1. IsFiniteSet(T) /\ Cardinality(T) \in Nat \ {0}
  <2>1. IsFiniteSet(T) /\ Cardinality(T) \in Nat
    BY PlacesRanked
  <2> QED
    BY <2>1, FS_EmptySet
<1>2. PICK n \in Nat \ {0} : n = Cardinality(T)
  BY <1>1
<1>3. PICK r : r = [i \in T |-> RoundCents(f[i], den)]
  OBVIOUS
<1>4. RoundsTo(r, f, den)
  <2>1. DOMAIN f = T
    OBVIOUS
  <2> QED
    BY <1>3, <2>1 DEF RoundsTo
<1>5. /\ r \in [T -> Nat]
      /\ 2 * (den * SumFunction(r)) <= 2 * SumFunction(f) + n * den
      /\ 2 * SumFunction(f) <= 2 * (den * SumFunction(r)) + n * den
  BY <1>1, <1>2, <1>4, SumRounded
<1>6. PICK R \in Nat : R = SumFunction(r)
  BY <1>1, <1>5, SumIsNat
<1>7. 2 * R <= 2 * total + n /\ 2 * total <= 2 * R + n
  <2>1. 2 * (den * R) <= 2 * (den * total) + n * den /\ 2 * (den * total) <= 2 * (den * R) + n * den
    BY <1>5, <1>6
  <2>2. /\ den * (2 * R) = 2 * (den * R) /\ den * (2 * total + n) = 2 * (den * total) + n * den
        /\ den * (2 * total) = 2 * (den * total) /\ den * (2 * R + n) = 2 * (den * R) + n * den
    OBVIOUS
  <2>3. den * (2 * R) <= den * (2 * total + n) /\ den * (2 * total) <= den * (2 * R + n)
    BY <2>1, <2>2
  <2>4. PICK x \in Int, y \in Int, u \in Int, v \in Int :
            x = 2 * R /\ y = 2 * total + n /\ u = 2 * total /\ v = 2 * R + n
    OBVIOUS
  <2>5. x <= y /\ u <= v
    BY <2>3, <2>4, CancelFactor
  <2> QED
    BY <2>4, <2>5
<1>8. PICK diff \in Int : diff = total - R
  OBVIOUS
<1>9. PICK k \in Nat : k = Magnitude(diff)
  <2>1. Magnitude(diff) \in Nat
    BY DEF Magnitude
  <2> QED
    BY <2>1
<1>10. k < n /\ k \div n = 0 /\ k % n = k
  <2>1. k < n
    BY <1>7, <1>8, <1>9 DEF Magnitude
  <2> QED
    BY <2>1
<1>11. PICK g : g = [i \in T |-> IF Place(i, T) < k THEN 1 ELSE 0]
  OBVIOUS
<1>12. g \in [T -> Int] /\ SumFunction(g) = k
  <2>1. g \in [T -> Int] /\ \A i \in T : g[i] = IF Place(i, T) < k THEN 1 ELSE 0
    BY <1>11
  <2>2. k <= Cardinality(T)
    BY <1>2, <1>10
  <2> QED
    BY <2>1, <2>2, PlacesCount
<1>13. PICK sign \in Int : sign = IF diff > 0 THEN 1 ELSE -1
  OBVIOUS
<1>14. sign * k = diff
  BY <1>8, <1>9, <1>13 DEF Magnitude
<1>15. PICK h : h = [i \in T |-> sign * g[i]]
  OBVIOUS
<1>16. h \in [T -> Int] /\ SumFunction(h) = diff
  <2>1. h \in [T -> Int] /\ \A i \in T : h[i] = sign * g[i]
    BY <1>12, <1>15
  <2>2. SumFunction(h) = sign * SumFunction(g)
    <3>1. IsFiniteSet(T) /\ g \in [T -> Int]
      BY <1>1, <1>12
    <3> QED
      <4>1. PICK D : D = T
        OBVIOUS
      <4>2. IsFiniteSet(D) /\ g \in [D -> Int] /\ h \in [D -> Int] /\ \A i \in D : h[i] = sign * g[i]
        BY <2>1, <3>1, <4>1
      <4> QED
        BY <4>2, SumScale
  <2> QED
    BY <1>12, <1>14, <2>1, <2>2
<1>17. PICK shares : shares = roundToCentsWithRemainder(f, den, total)
  OBVIOUS
<1>18. shares = [i \in T |-> r[i] + h[i]]
  <2>1. shares = [i \in T |-> r[i] + Remainder(diff, i, T)]
    <3>1. DOMAIN f = T /\ SumOver(r) = R
      BY <1>6, SumOverIs
    <3> QED
      BY <1>3, <1>8, <1>17, <3>1 DEF roundToCentsWithRemainder
  <2>2. \A i \in T : Remainder(diff, i, T) = h[i]
    <3> TAKE i \in T
    <3>1. Remainder(diff, i, T) = IF diff > 0 THEN g[i] ELSE -g[i]
      BY <1>2, <1>9, <1>10, <1>11 DEF Remainder
    <3>2. g[i] \in {0, 1} /\ h[i] = sign * g[i]
      BY <1>11, <1>15
    <3> QED
      BY <1>13, <3>1, <3>2
  <2> QED
    BY <2>1, <2>2
<1>19. \A i \in T : shares[i] \in Int /\ shares[i] = r[i] + h[i] /\ shares[i] >= -1
  <2> TAKE i \in T
  <2>1. r[i] \in Nat /\ g[i] \in {0, 1} /\ h[i] = sign * g[i] /\ sign \in {1, -1}
    BY <1>5, <1>11, <1>13, <1>15
  <2>2. h[i] \in {-1, 0, 1}
    BY <2>1
  <2> QED
    BY <1>18, <2>1, <2>2
<1>20. shares \in [T -> Int] /\ r \in [T -> Int]
  BY <1>5, <1>18, <1>19
<1>21. SumFunction(shares) = R + diff
  <2>1. /\ IsFiniteSet(T) /\ shares \in [T -> Int] /\ r \in [T -> Int] /\ h \in [T -> Int]
        /\ \A i \in T : shares[i] = r[i] + h[i]
    BY <1>1, <1>16, <1>19, <1>20
  <2>2. SumFunction(shares) = SumFunction(r) + SumFunction(h)
    <3>1. PICK D : D = T
      OBVIOUS
    <3>2. /\ IsFiniteSet(D) /\ shares \in [D -> Int] /\ r \in [D -> Int] /\ h \in [D -> Int]
          /\ \A i \in D : shares[i] = r[i] + h[i]
      BY <2>1, <3>1
    <3> QED
      BY <3>2, SumAdd
  <2> QED
    BY <1>6, <1>16, <2>2
<1> QED
  <2>1. R + diff = total
    BY <1>8
  <2> QED
    BY <1>17, <1>19, <1>20, <1>21, <2>1 DEF Handed

\* The default percentages come to the whole.
LEMMA DefaultsAddUp ==
    LET parts == percentageSplitDefaultValues(Sharers)
    IN  parts \in [Sharers -> Nat] /\ SumFunction(parts) = Whole
<1>1. PICK n \in Nat \ {0}, all \in Nat \ {0} :
        n = Count /\ all = Whole /\ Sharers = 1..n /\ IsFiniteSet(1..n) /\ Cardinality(1..n) = n
  BY SharersAre, SplitsAssumption
<1>2. PICK base \in Nat : base = all \div n /\ base * n <= all
  BY Quotient
<1>3. ASSUME NEW i \in 1..n PROVE Place(i, 1..n) = i - 1
  <2>1. {j \in 1..n : j < i} = 1..(i - 1)
    OBVIOUS
  <2>2. PICK l \in Int : l = i - 1 /\ l >= 0
    OBVIOUS
  <2>3. 1 \in Int
    OBVIOUS
  <2>4. Cardinality(1..l) = IF 1 > l THEN 0 ELSE l - 1 + 1
    BY <2>2, <2>3, FS_Interval
  <2>5. Cardinality(1..l) = l
    BY <2>2, <2>4
  <2> QED
    BY <2>1, <2>2, <2>5 DEF Place
<1>4. PICK last \in Nat : last = all - base * (n - 1)
  <2>1. base * (n - 1) = base * n - base
    OBVIOUS
  <2>2. base * n \in Nat
    OBVIOUS
  <2>3. all - base * (n - 1) \in Nat
    BY <1>2, <2>1, <2>2
  <2> QED
    BY <2>3
<1>5. PICK parts : parts = percentageSplitDefaultValues(Sharers)
  OBVIOUS
<1>6. parts = [i \in 1..n |-> IF i = n THEN last ELSE base]
  <2>1. parts = [i \in 1..n |-> IF i \notin 1..n THEN 0
                               ELSE IF Place(i, 1..n) = n - 1 THEN last ELSE base]
    BY <1>1, <1>2, <1>4, <1>5 DEF percentageSplitDefaultValues
  <2>2. \A i \in 1..n : Place(i, 1..n) = n - 1 <=> i = n
    BY <1>3
  <2> QED
    BY <2>1, <2>2
<1>7. PICK firsts : firsts = [i \in 1..(n - 1) |-> base]
  OBVIOUS
<1>8. /\ parts \in [1..n -> Int] /\ parts \in [1..n -> Nat] /\ firsts \in [1..(n - 1) -> Int]
      /\ \A i \in 1..(n - 1) : firsts[i] = parts[i]
  BY <1>6, <1>7
<1>9. /\ IsFiniteSet(1..(n - 1)) /\ Cardinality(1..(n - 1)) = n - 1
      /\ SumFunction(parts) = SumFunction(firsts) + parts[n]
  BY <1>8, SumWithout
<1>10. SumFunction(firsts) = (n - 1) * base
  <2>1. PICK D : D = 1..(n - 1)
    OBVIOUS
  <2>2. IsFiniteSet(D) /\ firsts \in [D -> Int] /\ \A i \in D : firsts[i] = base
    BY <1>7, <1>8, <1>9, <2>1
  <2>3. SumFunction(firsts) = Cardinality(D) * base
    BY <2>2, SumOfSame
  <2> QED
    BY <1>9, <2>1, <2>3
<1>11. parts[n] = last
  BY <1>6
<1>12. (n - 1) * base + last = all
  <2>1. (n - 1) * base = base * (n - 1)
    OBVIOUS
  <2>2. base * (n - 1) \in Int
    OBVIOUS
  <2> QED
    BY <1>4, <2>1, <2>2
<1> QED
  BY <1>1, <1>5, <1>8, <1>9, <1>10, <1>11, <1>12

\* What an item charges its participants.
Charges(shares, item) ==
    /\ item.amount \in Nat /\ item.among \in SUBSET Sharers /\ item.among # {}
    /\ shares \in [item.among -> Int] /\ SumFunction(shares) \in Int
    /\ \/ SumFunction(shares) = item.amount /\ \A i \in item.among : shares[i] >= -1
       \/ /\ SumFunction(shares) <= item.amount + 1 /\ item.amount <= SumFunction(shares) + 1
          /\ \A i \in item.among : shares[i] >= 1

LEMMA SharesOfWeights ==
    ASSUME NEW item, item.amount \in Nat, item.among \in SUBSET Sharers, item.among # {},
           item.mode # "exact", NEW w \in [item.among -> Nat], w = ItemWeights(item), SumFunction(w) # 0
    PROVE  Charges(ItemShares(item), item)
<1>1. PICK a \in Nat, T \in SUBSET Sharers, N \in Nat :
        a = item.amount /\ T = item.among /\ T # {} /\ N = Count /\ T \in SUBSET (1..N) /\ IsFiniteSet(T)
  <2>1. IsFiniteSet(item.among) /\ Count \in Nat /\ item.among \in SUBSET (1..Count)
    BY SharersAre, FS_Subset
  <2> QED
    BY <2>1
<1>2. w \in [T -> Nat] /\ w \in [T -> Int]
  BY <1>1
<1>3. PICK W \in Nat \ {0} : W = SumFunction(w)
  BY <1>1, <1>2, SumIsNat
<1>4. PICK f : f = [i \in T |-> a * w[i]]
  OBVIOUS
<1>5. f \in [T -> Nat] /\ f \in [T -> Int] /\ \A i \in T : f[i] = a * w[i]
  <2>1. ASSUME NEW i \in T PROVE a * w[i] \in Nat
    <3>1. w[i] \in Nat
      BY <1>2
    <3> QED
      BY <3>1
  <2> QED
    BY <1>4, <2>1
<1>6. SumFunction(f) = W * a
  <2>1. IsFiniteSet(T) /\ a \in Int
    BY <1>1
  <2>2. SumFunction(f) = a * SumFunction(w)
    BY <1>2, <1>5, <2>1, SumScale
  <2> QED
    BY <1>3, <2>2
<1>7. PICK shares : shares = roundToCentsWithRemainder(f, W, a)
  OBVIOUS
<1>8. shares \in [T -> Int] /\ SumFunction(shares) = a /\ \A i \in T : shares[i] >= -1
  <2>1. /\ N \in Nat /\ T \in SUBSET (1..N) /\ T # {} /\ f \in [T -> Nat] /\ W \in Nat \ {0}
        /\ a \in Nat /\ SumFunction(f) = W * a
    BY <1>1, <1>3, <1>5, <1>6
  <2>2. Handed(shares, T, a)
    BY <1>7, <2>1, HandedOut
  <2> QED
    BY <2>2 DEF Handed
<1>9. ItemShares(item) = shares
  BY <1>1, <1>3, <1>4, <1>7, SumOverIs DEF ItemShares
<1> QED
  BY <1>1, <1>8, <1>9 DEF Charges

LEMMA ItemCharges == ASSUME NEW item \in FormItems PROVE Charges(ItemShares(item), item)
<1>0. Totals \subseteq Nat /\ Percents \subseteq Nat /\ Whole \in Nat \ {0} /\ Sharers # {}
  <2>1. 1 \in 1..Count
    BY SharersAre
  <2> QED
    BY <2>1, SharersAre, SplitsAssumption
<1>1. item.amount \in Nat /\ item.among \in SUBSET Sharers
  BY <1>0 DEF FormItems
<1>2. PICK w : w = ItemWeights(item)
  OBVIOUS
<1>3. IsFiniteSet(item.among)
  BY <1>1, SharersAre, FS_Subset
<1>4. CASE validateItem(item) /\ item.parts \in [Sharers -> Nat]
  <2>1. w \in [item.among -> Nat] /\ w \in [item.among -> Int] /\ item.among # {} /\ \A i \in item.among : w[i] >= 1
    <3>1. \A i \in item.among : w[i] \in Nat
      BY <1>1, <1>2, <1>4 DEF ItemWeights
    <3>2. \A i \in item.among : w[i] > 0
      BY <1>2, <1>4 DEF validateItem
    <3>3. item.among # {}
      BY <1>4 DEF validateItem
    <3>4. DOMAIN w = item.among /\ w = [i \in DOMAIN w |-> w[i]]
      BY <1>2 DEF ItemWeights
    <3> QED
      BY <3>1, <3>2, <3>3, <3>4
  <2>2. SumFunction(w) \in Nat
    BY <1>3, <2>1, SumIsNat
  <2>3. CASE item.mode = "exact"
    <3>1. Tolerated(SumFunction(w) - item.amount)
      BY <1>2, <1>4, <2>3, SumOverIs DEF validateItem
    <3>2. SumFunction(w) <= item.amount + 1 /\ item.amount <= SumFunction(w) + 1
      BY <1>1, <2>2, <3>1 DEF Tolerated, Magnitude
    <3>3. ItemShares(item) = w
      BY <1>2, <2>3 DEF ItemShares
    <3> QED
      BY <1>1, <2>1, <2>2, <3>2, <3>3 DEF Charges
  <2>4. CASE item.mode # "exact"
    <3>1. SumFunction(w) # 0
      <4>1. 1 \in Int
        OBVIOUS
      <4>2. SumFunction(w) >= Cardinality(item.among) * 1
        BY <1>3, <2>1, <4>1, SumAtLeast
      <4>3. Cardinality(item.among) \in Nat \ {0}
        BY <1>3, <2>1, FS_CardinalityType, FS_EmptySet
      <4> QED
        BY <4>2, <4>3
    <3> QED
      BY <1>1, <1>2, <2>1, <2>4, <3>1, SharesOfWeights
  <2> QED
    BY <2>3, <2>4
<1>5. CASE item.among = Sharers /\ item.mode = "percentage" /\ item.parts = percentageSplitDefaultValues(Sharers)
  <2>1. item.parts \in [Sharers -> Nat] /\ SumFunction(item.parts) = Whole
    BY <1>5, DefaultsAddUp
  <2>2. w = item.parts
    BY <1>2, <1>5, <2>1 DEF ItemWeights
  <2>3. w \in [item.among -> Nat] /\ SumFunction(w) # 0 /\ item.among # {} /\ item.mode # "exact"
    BY <1>0, <1>5, <2>1, <2>2
  <2> QED
    BY <1>1, <1>2, <2>3, SharesOfWeights
<1>6. \/ validateItem(item) /\ item.parts \in [Sharers -> Nat]
      \/ item.among = Sharers /\ item.mode = "percentage" /\ item.parts = percentageSplitDefaultValues(Sharers)
  <2>1. CASE item \in [amount : Totals, among : SUBSET Sharers, mode : {"equal", "percentage", "exact"},
                       parts : [Sharers -> Percents]] /\ validateItem(item)
    <3>1. item.parts \in [Sharers -> Percents]
      BY <2>1
    <3>2. item.parts \in [Sharers -> Nat]
      BY <1>0, <3>1
    <3> QED
      BY <2>1, <3>2
  <2>2. CASE item \in [amount : Totals, mode : {"percentage"}, among : {Sharers},
                       parts : {percentageSplitDefaultValues(Sharers)}]
    BY <2>2
  <2> QED
    BY <2>1, <2>2 DEF FormItems
<1> QED
  BY <1>4, <1>5, <1>6

LEMMA SumExtended ==
    ASSUME NEW D, IsFiniteSet(D), NEW T \in SUBSET D, NEW f \in [T -> Int], NEW e \in [D -> Int],
           \A x \in D : e[x] = IF x \in T THEN f[x] ELSE 0
    PROVE  SumFunction(e) = SumFunction(f)
<1>1. PICK r \in SUBSET D : r = D \ T
  OBVIOUS
<1>2. T \cup r = D /\ T \cap r = {}
  BY <1>1
<1>3. SumFunction(Restrict(e, D)) = SumFunction(Restrict(e, T)) + SumFunction(Restrict(e, r))
  BY <1>2, SumOfUnion
<1>4. IsFiniteSet(T) /\ IsFiniteSet(r)
  BY FS_Subset
<1>5. Restrict(e, T) = f
  BY DEF Restrict
<1>6. SumFunction(Restrict(e, r)) = 0
  <2>1. Restrict(e, r) \in [r -> Int] /\ \A x \in r : Restrict(e, r)[x] = 0
    BY <1>1 DEF Restrict
  <2> QED
    BY <1>4, <2>1, SumZero
<1>7. SumFunction(f) \in Int
  BY <1>4, SumIsInt
<1>8. Restrict(e, D) = e
  BY RestrictAll
<1> QED
  BY <1>3, <1>5, <1>6, <1>7, <1>8

\* Two items: their shares come to their total, but for two cents at most, and for
\* more than one only when both are charged in exact amounts, which are positive.
BearsBoth(sum, U, sa, sb) == sum = [i \in U |-> Borne(sa, i) + Borne(sb, i)]

LEMMA BothCharge ==
    ASSUME NEW a, NEW b, NEW sa, NEW sb, Charges(sa, a), Charges(sb, b),
           NEW U, U = a.among \cup b.among,
           NEW sum, BearsBoth(sum, U, sa, sb)
    PROVE  /\ sum \in [U -> Int] /\ SumFunction(sum) = SumFunction(sa) + SumFunction(sb)
           /\ \A i \in U : sum[i] >= -2
           /\ (\A i \in a.among : sa[i] >= 1) /\ (\A i \in b.among : sb[i] >= 1)
              => \A i \in U : sum[i] >= 1
<1>0. U \in SUBSET Sharers /\ IsFiniteSet(U)
  <2>1. U \in SUBSET Sharers
    BY DEF Charges
  <2> QED
    BY <2>1, SharersAre, FS_Subset
<1>1. PICK A \in SUBSET U, B \in SUBSET U : A = a.among /\ B = b.among /\ U = A \cup B
  OBVIOUS
<1>2. /\ sa \in [A -> Int] /\ sb \in [B -> Int]
      /\ (\A i \in A : sa[i] >= -1) /\ \A i \in B : sb[i] >= -1
  <2>1. ASSUME NEW x \in Int, x >= 1 PROVE x >= -1
    BY <2>1
  <2>2. sa \in [A -> Int] /\ sb \in [B -> Int]
    BY <1>1 DEF Charges
  <2>3. \A i \in A : sa[i] >= -1
    <3>1. \/ \A i \in A : sa[i] >= -1
          \/ \A i \in A : sa[i] >= 1
      BY <1>1 DEF Charges
    <3> QED
      BY <2>1, <2>2, <3>1
  <2>4. \A i \in B : sb[i] >= -1
    <3>1. \/ \A i \in B : sb[i] >= -1
          \/ \A i \in B : sb[i] >= 1
      BY <1>1 DEF Charges
    <3> QED
      BY <2>1, <2>2, <3>1
  <2> QED
    BY <2>2, <2>3, <2>4
<1>3. PICK ea, eb : ea = [i \in U |-> IF i \in A THEN sa[i] ELSE 0] /\ eb = [i \in U |-> IF i \in B THEN sb[i] ELSE 0]
  OBVIOUS
<1>4. ea \in [U -> Int] /\ eb \in [U -> Int]
  BY <1>2, <1>3
<1>5. SumFunction(ea) = SumFunction(sa) /\ SumFunction(eb) = SumFunction(sb)
  <2>1. (\A i \in U : ea[i] = IF i \in A THEN sa[i] ELSE 0) /\ \A i \in U : eb[i] = IF i \in B THEN sb[i] ELSE 0
    BY <1>3
  <2>2. SumFunction(ea) = SumFunction(sa)
    BY <1>0, <1>2, <1>4, <2>1, SumExtended
  <2>3. SumFunction(eb) = SumFunction(sb)
    BY <1>0, <1>2, <1>4, <2>1, SumExtended
  <2> QED
    BY <2>2, <2>3
<1>6. \A i \in U : sum[i] = ea[i] + eb[i]
  <2> TAKE i \in U
  <2>1. Borne(sa, i) = ea[i] /\ Borne(sb, i) = eb[i]
    <3>1. DOMAIN sa = A /\ DOMAIN sb = B
      BY <1>2
    <3> QED
      BY <1>3, <3>1 DEF Borne
  <2> QED
    BY <2>1 DEF BearsBoth
<1>7. sum \in [U -> Int]
  <2>1. \A i \in U : sum[i] \in Int
    BY <1>4, <1>6
  <2> QED
    BY <2>1 DEF BearsBoth
<1>8. SumFunction(sum) = SumFunction(ea) + SumFunction(eb)
  BY <1>0, <1>4, <1>6, <1>7, SumAdd
<1>9. \A i \in U : sum[i] >= -2
  <2> TAKE i \in U
  <2>1. ea[i] \in Int /\ ea[i] >= -1 /\ eb[i] \in Int /\ eb[i] >= -1
    BY <1>2, <1>3, <1>4
  <2> QED
    BY <1>6, <2>1
<1>10. ASSUME \A i \in A : sa[i] >= 1, \A i \in B : sb[i] >= 1 PROVE \A i \in U : sum[i] >= 1
  <2> TAKE i \in U
  <2>1. ea[i] \in Int /\ ea[i] >= 0 /\ eb[i] \in Int /\ eb[i] >= 0 /\ (ea[i] >= 1 \/ eb[i] >= 1)
    BY <1>1, <1>2, <1>3, <1>4, <1>10
  <2> QED
    BY <1>6, <2>1
<1> QED
  BY <1>1, <1>5, <1>7, <1>8, <1>9, <1>10

LEMMA SubmittedAddUp ==
    ASSUME NEW a \in FormItems, NEW b \in FormItems
    PROVE  /\ Tolerated(SumOver(SubmittedShares(a, b)) - (a.amount + b.amount))
           /\ \A i \in DOMAIN SubmittedShares(a, b) : SubmittedShares(a, b)[i] >= -2
<1>1. PICK sa, sb : sa = ItemShares(a) /\ sb = ItemShares(b)
  OBVIOUS
<1>2. Charges(sa, a) /\ Charges(sb, b)
  BY <1>1, ItemCharges
<1>3. PICK U : U = a.among \cup b.among
  OBVIOUS
<1>4. PICK sum : sum = [i \in U |-> Borne(sa, i) + Borne(sb, i)]
  OBVIOUS
<1>13. BearsBoth(sum, U, sa, sb)
  BY <1>4 DEF BearsBoth
<1>5. /\ sum \in [U -> Int] /\ SumFunction(sum) = SumFunction(sa) + SumFunction(sb)
      /\ \A i \in U : sum[i] >= -2
      /\ (\A i \in a.among : sa[i] >= 1) /\ (\A i \in b.among : sb[i] >= 1) => \A i \in U : sum[i] >= 1
  BY <1>2, <1>3, <1>13, BothCharge
<1>6. PICK x \in Nat, y \in Nat, p \in Int, q \in Int :
        x = a.amount /\ y = b.amount /\ p = SumFunction(sa) /\ q = SumFunction(sb)
  BY <1>2 DEF Charges
<1>7. PICK total \in Nat, all \in Int : total = x + y /\ all = p + q
  OBVIOUS
<1>8. SumOver(sum) = all
  BY <1>5, <1>6, <1>7, SumOverIs
<1>9. PICK shares : shares = SubmittedShares(a, b)
  OBVIOUS
<1>10. shares = IF Tolerated(all - total) THEN sum
                ELSE roundToCentsWithRemainder([i \in DOMAIN sum |-> sum[i] * total], all, total)
  BY <1>1, <1>3, <1>4, <1>6, <1>7, <1>8, <1>9 DEF SubmittedShares
<1>11. CASE Tolerated(all - total)
  BY <1>5, <1>6, <1>7, <1>8, <1>9, <1>10, <1>11
<1>12. CASE ~Tolerated(all - total)
  <2>1. (p = x \/ \A i \in a.among : sa[i] >= 1) /\ (q = y \/ \A i \in b.among : sb[i] >= 1)
    BY <1>2, <1>6 DEF Charges
  <2>2. /\ p = x \/ (p <= x + 1 /\ x <= p + 1)
        /\ q = y \/ (q <= y + 1 /\ y <= q + 1)
    BY <1>2, <1>6 DEF Charges
  <2>3. p # x /\ q # y
    BY <1>7, <1>12, <2>2 DEF Tolerated, Magnitude
  <2>4. \A i \in U : sum[i] >= 1
    BY <1>5, <2>1, <2>3
  <2>5. U \in SUBSET Sharers /\ U # {} /\ IsFiniteSet(U)
    <3>1. U \in SUBSET Sharers /\ U # {}
      BY <1>2, <1>3 DEF Charges
    <3> QED
      BY <3>1, SharersAre, FS_Subset
  <2>6. all \in Nat \ {0}
    <3>1. Cardinality(U) \in Nat \ {0}
      BY <2>5, FS_CardinalityType, FS_EmptySet
    <3>2. 1 \in Int
      OBVIOUS
    <3>3. SumFunction(sum) >= Cardinality(U) * 1
      BY <1>5, <2>4, <2>5, <3>2, SumAtLeast
    <3> QED
      BY <1>5, <1>6, <1>7, <3>1, <3>3
  <2>7. PICK f : f = [i \in DOMAIN sum |-> sum[i] * total]
    OBVIOUS
  <2>8. f \in [U -> Nat] /\ f \in [U -> Int] /\ \A i \in U : f[i] = total * sum[i]
    <3>1. DOMAIN sum = U
      BY <1>5
    <3>2. ASSUME NEW i \in U PROVE sum[i] * total \in Nat /\ sum[i] * total = total * sum[i]
      <4>1. sum[i] \in Nat
        BY <1>5, <2>4
      <4> QED
        BY <4>1
    <3> QED
      BY <2>7, <3>1, <3>2
  <2>9. SumFunction(f) = all * total
    <3>1. total \in Int
      BY <1>7
    <3>2. SumFunction(f) = total * SumFunction(sum)
      BY <1>5, <2>5, <2>8, <3>1, SumScale
    <3> QED
      BY <1>5, <1>6, <1>7, <3>2
  <2>10. PICK N \in Nat : U \in SUBSET (1..N)
    BY <2>5, SharersAre
  <2>11. Handed(shares, U, total)
    <3>1. shares = roundToCentsWithRemainder(f, all, total)
      BY <1>10, <1>12, <2>7
    <3>2. total \in Nat
      BY <1>7
    <3>3. Handed(roundToCentsWithRemainder(f, all, total), U, total)
      BY <2>5, <2>6, <2>8, <2>9, <2>10, <3>2, HandedOut
    <3> QED
      BY <3>1, <3>3
  <2>12. SumFunction(shares) = total /\ DOMAIN shares = U /\ \A i \in U : shares[i] \in Int /\ shares[i] >= -2
    BY <2>11 DEF Handed
  <2>13. Tolerated(SumOver(shares) - total)
    BY <1>7, <2>12, SumOverIs DEF Tolerated, Magnitude
  <2> QED
    BY <1>6, <1>7, <1>9, <2>12, <2>13
<1> QED
  BY <1>11, <1>12

\* The shares of every division are fair, from the engine and from the form.
LEMMA SplitsInitially == SplitsInit => EngineSharesAddUp /\ FormSharesAddUp
  BY DEF SplitsInit, EngineSharesAddUp, FormSharesAddUp

LEMMA SplitsStep ==
    EngineSharesAddUp /\ FormSharesAddUp /\ [SplitsNext]_split => (EngineSharesAddUp /\ FormSharesAddUp)'
<1> SUFFICES ASSUME EngineSharesAddUp, FormSharesAddUp, [SplitsNext]_split
             PROVE  EngineSharesAddUp' /\ FormSharesAddUp'
  OBVIOUS
<1>0. Totals \subseteq Nat /\ Ratios \subseteq Nat
  BY SplitsAssumption
<1>1. ASSUME NEW by \in {"engine", "items"}, NEW total \in Nat, NEW w, NEW W, NEW shares,
             Divided(by, total, w, W, shares), SharesReach(shares, Count, total),
             by = "engine" => (SumOver(w) = W /\ 2 * total * w[Count] >= (Count - 1) * W
                               => SumOver(shares) = total)
      PROVE  EngineSharesAddUp' /\ FormSharesAddUp'
  <2>1. /\ split'.by = by /\ split'.total = total /\ split'.exact = w /\ split'.of = W
        /\ split'.shares = shares
    BY <1>1 DEF Divided
  <2>2. /\ DOMAIN shares = 1..Count /\ \A i \in 1..Count : shares[i] >= 0
        /\ SumOver(shares) >= total
    BY <1>1, SumOverIs DEF SharesReach
  <2> QED
    BY <1>1, <2>1, <2>2 DEF EngineSharesAddUp, FormSharesAddUp
<1>2. CASE SplitByRatio
  <2>0. PICK total \in Totals, given \in SUBSET Sharers :
            \E ratios \in [given -> Ratios] :
                Divided("engine", total, RatioWeights(given, ratios).w, RatioWeights(given, ratios).of,
                        calculateRatioSplits(total, given, ratios))
    BY <1>2 DEF SplitByRatio
  <2>1. PICK ratios \in [given -> Ratios] :
            Divided("engine", total, RatioWeights(given, ratios).w, RatioWeights(given, ratios).of,
                    calculateRatioSplits(total, given, ratios))
    BY <2>0
  <2>2. total \in Nat /\ ratios \in [given -> Nat]
    BY <1>0
  <2>3. PICK w, W, shares :
            /\ w = RatioWeights(given, ratios).w /\ W = RatioWeights(given, ratios).of
            /\ shares = calculateRatioSplits(total, given, ratios)
    OBVIOUS
  <2>4. /\ SharesReach(shares, Count, total)
        /\ SumOver(w) = W /\ 2 * total * w[Count] >= (Count - 1) * W => SumOver(shares) = total
    BY <2>2, <2>3, RatioSplits
  <2> QED
    BY <1>1, <2>1, <2>2, <2>3, <2>4
<1>3. CASE SplitByAmounts
  <2>1. PICK total \in Totals, amounts \in [Sharers -> Totals \cup {0}] :
            /\ SumOver(amounts) > 0
            /\ Divided("engine", total, amounts, SumOver(amounts), calculateFixedSplits(total, amounts))
    BY <1>3 DEF SplitByAmounts
  <2>2. total \in Nat /\ amounts \in [Sharers -> Nat]
    <3>1. Totals \cup {0} \subseteq Nat
      BY <1>0
    <3>2. \A i \in Sharers : amounts[i] \in Nat
      BY <3>1
    <3> QED
      BY <1>0, <3>2
  <2>3. PICK W, shares : W = SumOver(amounts) /\ shares = calculateFixedSplits(total, amounts)
    OBVIOUS
  <2>4. /\ SharesReach(shares, Count, total)
        /\ 2 * total * amounts[Count] >= (Count - 1) * W => SumOver(shares) = total
    BY <2>1, <2>2, <2>3, FixedSplits
  <2> QED
    BY <1>1, <2>1, <2>2, <2>3, <2>4
<1>4. CASE SplitByItems
  <2>1. PICK total \in Totals, a \in EngineItems, b \in EngineItems :
            Divided("items", total, <<>>, 1, calculateItemizedSplits(total, a, b))
    BY <1>4 DEF SplitByItems
  <2>2. \A item \in EngineItems : item.amount \in Nat /\ item.among \in SUBSET Sharers /\ item.parts \in [Sharers -> Nat]
    <3> TAKE item \in EngineItems
    <3>1. /\ item.amount \in Totals /\ item.among \in SUBSET Sharers
          /\ item.parts \in {[i \in Sharers |-> 0], [i \in Sharers |-> 1], [i \in Sharers |-> i % 3]}
      BY DEF EngineItems
    <3>2. [i \in Sharers |-> i % 3] \in [Sharers -> Nat]
      <4>1. \A i \in Sharers : i % 3 \in Nat
        BY SharersAre
      <4> QED
        BY <4>1
    <3>3. [i \in Sharers |-> 0] \in [Sharers -> Nat] /\ [i \in Sharers |-> 1] \in [Sharers -> Nat]
      OBVIOUS
    <3>4. item.parts \in [Sharers -> Nat]
      BY <3>1, <3>2, <3>3, Zenon
    <3>5. item.amount \in Nat
      BY <1>0, <3>1
    <3> QED
      BY <3>1, <3>4, <3>5
  <2>3. total \in Nat
    BY <1>0
  <2>4. PICK shares : shares = calculateItemizedSplits(total, a, b)
    OBVIOUS
  <2>5. SharesReach(shares, Count, total)
    BY <2>2, <2>3, <2>4, ItemizedSplits
  <2> QED
    BY <1>1, <2>1, <2>3, <2>4, <2>5
<1>5. CASE SubmitExpense
  <2>1. PICK a \in FormItems, b \in FormItems :
            Divided(IF Tolerated(SumOver(SubmittedShares(a, b)) - (a.amount + b.amount))
                    THEN "form" ELSE "refused",
                    a.amount + b.amount, <<>>, 1, SubmittedShares(a, b))
    BY <1>5 DEF SubmitExpense
  <2>2. PICK shares : shares = SubmittedShares(a, b)
    OBVIOUS
  <2>3. Tolerated(SumOver(shares) - (a.amount + b.amount)) /\ \A i \in DOMAIN shares : shares[i] >= -2
    BY <2>2, SubmittedAddUp
  <2>4. split'.by = "form" /\ split'.shares = shares
    BY <2>1, <2>2, <2>3 DEF Divided
  <2> QED
    BY <2>3, <2>4 DEF EngineSharesAddUp, FormSharesAddUp
<1>6. CASE UNCHANGED split
  BY <1>6 DEF EngineSharesAddUp, FormSharesAddUp
<1> QED
  BY <1>2, <1>3, <1>4, <1>5, <1>6 DEF SplitsNext

-----------------------------------------------------------------------------
(* Transfers                                                               *)

\* Folds over the numbers up to n: what holds at zero and is carried on holds at n.
LEMMA CountedUp ==
    ASSUME NEW n \in Nat, NEW S, 0 \in S, \A k \in 1..n : k - 1 \in S => k \in S
    PROVE  n \in S
<1> SUFFICES ASSUME n \notin S PROVE FALSE
  BY Zenon
<1>1. PICK T \in SUBSET Nat : T = {k \in 0..n : k \notin S}
  <2>1. {k \in 0..n : k \notin S} \in SUBSET Nat
    OBVIOUS
  <2> QED
    BY <2>1, Zenon
<1>2. n \in T
  BY <1>1
<1>3. PICK k \in T : \A j \in T : k <= j
  BY <1>1, <1>2, LeastOf
<1>4. k \in 1..n /\ k \notin S
  BY <1>1, <1>3
<1>5. k - 1 \in 0..n /\ k - 1 \in Nat
  BY <1>4
<1>6. k - 1 \notin S
  BY <1>4
<1>7. k - 1 \in T
  BY <1>1, <1>5, <1>6
<1> QED
  BY <1>3, <1>4, <1>7

LEMMA LargestOf == ASSUME NEW n \in Nat, NEW S \in SUBSET (1..n), S # {} PROVE Max(S) \in S
<1>1. PICK T \in SUBSET Nat : T = {n - x : x \in S}
  <2>1. \A x \in S : n - x \in Nat
    OBVIOUS
  <2> QED
    BY <2>1
<1>2. T # {}
  BY <1>1
<1>3. PICK k \in T : \A j \in T : k <= j
  BY <1>1, <1>2, LeastOf
<1>4. PICK x \in S : k = n - x
  BY <1>1, <1>3
<1>5. \A y \in S : x >= y
  <2> TAKE y \in S
  <2>1. n - y \in T
    BY <1>1
  <2>2. k <= n - y
    BY <1>3, <2>1
  <2>3. n \in Int /\ x \in Int /\ y \in Int
    OBVIOUS
  <2> QED
    BY <1>4, <2>2, <2>3
<1> QED
  BY <1>5 DEF Max

LEMMA LargestUpTo == ASSUME NEW k \in Nat \ {0} PROVE Max(1..k) = k /\ (1..k) \ {k} = 1..(k - 1)
<1>1. k \in 1..k /\ \A x \in 1..k : x <= k
  OBVIOUS
<1>2. \A x \in 1..k : (\A y \in 1..k : x >= y) => x = k
  BY <1>1
<1>3. Max(1..k) = k
  BY <1>1, <1>2 DEF Max
<1>4. (1..k) \ {k} = 1..(k - 1)
  OBVIOUS
<1> QED
  BY <1>3, <1>4

\* The table that a fold of step over 1..n chooses its result from.
FoldTable(g, n, step, base) ==
    g = [S \in SUBSET (1..n) |-> IF S = {} THEN base ELSE step[<<Max(S), g[S \ {Max(S)}]>>]]

LEMMA FoldTableExists ==
    ASSUME NEW n \in Nat, NEW V, NEW base \in V, NEW step \in [(1..n) \X V -> V]
    PROVE  \E g \in [SUBSET (1..n) -> V] : FoldTable(g, n, step, base)
<1>1. PICK D : D = 1..n /\ IsFiniteSet(D)
  <2>1. 1 \in Int /\ n \in Int
    OBVIOUS
  <2>2. IsFiniteSet(1..n)
    BY <2>1, FS_Interval
  <2> QED
    BY <2>2
<1>2. PICK c : c = [s \in SUBSET D |-> Max(s)]
  OBVIOUS
<1>3. Picks(c, D)
  <2>1. ASSUME NEW s \in SUBSET D, s # {} PROVE c[s] \in s
    <3>1. s \in SUBSET (1..n)
      BY <1>1
    <3>2. Max(s) \in s
      BY <2>1, <3>1, LargestOf
    <3> QED
      BY <1>2, <3>2
  <2> QED
    BY <2>1 DEF Picks
<1>4. step \in [D \X V -> V]
  BY <1>1
<1>5. PICK g \in [SUBSET D -> V] : Folds(g, D, c, step, base)
  BY <1>1, <1>3, <1>4, FoldExists
<1>6. g = [s \in SUBSET D |-> IF s = {} THEN base ELSE step[<<c[s], g[s \ {c[s]}]>>]]
  BY <1>5 DEF Folds
<1>7. g = [s \in SUBSET D |-> IF s = {} THEN base ELSE step[<<Max(s), g[s \ {Max(s)}]>>]]
  <2>1. \A s \in SUBSET D : c[s] = Max(s)
    BY <1>2
  <2> QED
    BY <1>6, <2>1
<1> QED
  BY <1>1, <1>5, <1>7 DEF FoldTable

\* Sorting.  A least one is found last.
LEMMA LeastAmount ==
    ASSUME NEW T, T # {}, NEW net, \A m \in T : net[m] \in Nat
    PROVE  \E x \in T : \A y \in T : net[x] <= net[y]
<1>1. PICK A \in SUBSET Nat : A = {net[m] : m \in T}
  OBVIOUS
<1>2. A # {}
  BY <1>1
<1>3. PICK a \in A : \A b \in A : a <= b
  BY <1>1, <1>2, LeastOf
<1>4. PICK x \in T : a = net[x]
  BY <1>1, <1>3
<1>5. \A y \in T : net[x] <= net[y]
  <2> TAKE y \in T
  <2>1. net[y] \in A
    BY <1>1
  <2> QED
    BY <1>3, <1>4, <2>1
<1> QED
  BY <1>5

Descends(s, net) == \A i, j \in DOMAIN s : i < j => net[s[i]] >= net[s[j]]

LEMMA SortExists ==
    ASSUME NEW ms, IsFiniteSet(ms), NEW net, \A m \in ms : net[m] \in Nat
    PROVE  \E s \in SetToSeqs(ms) : Descends(s, net)
<1> DEFINE P == {T \in SUBSET ms : \E s \in SetToSeqs(T) : Descends(s, net)}
<1>1. ASSUME NEW T \in SUBSET ms, \A U \in SUBSET ms : Cardinality(U) < Cardinality(T) => U \in P
      PROVE  T \in P
  <2>1. CASE T = {}
    <3>1. Cardinality({}) = 0 /\ 1..0 = {}
      BY FS_EmptySet
    <3>2. PICK s : s = [i \in {} |-> 0]
      OBVIOUS
    <3>3. s \in SetToSeqs({})
      BY <3>1, <3>2 DEF SetToSeqs
    <3>4. Descends(s, net)
      BY <3>2 DEF Descends
    <3> QED
      BY <2>1, <3>3, <3>4
  <2>2. CASE T # {}
    <3>1. \A m \in T : net[m] \in Nat
      OBVIOUS
    <3>2. PICK x \in T : \A y \in T : net[x] <= net[y]
      BY <2>2, <3>1, LeastAmount
    <3>3. IsFiniteSet(T)
      BY FS_Subset
    <3>4. PICK n \in Nat : n = Cardinality(T \ {x}) /\ Cardinality(T) = n + 1
      <4>1. IsFiniteSet(T \ {x}) /\ x \notin T \ {x} /\ (T \ {x}) \cup {x} = T
        BY <3>3, FS_RemoveElement
      <4>2. Cardinality(T \ {x}) \in Nat
        BY <4>1, FS_CardinalityType
      <4>3. PICK U : U = T \ {x}
        OBVIOUS
      <4>4. IsFiniteSet(U) /\ x \notin U /\ U \cup {x} = T
        BY <4>1, <4>3
      <4>5. Cardinality(U \cup {x}) = Cardinality(U) + 1
        BY <4>4, FS_AddElement
      <4> QED
        BY <4>2, <4>3, <4>4, <4>5
    <3>5. T \ {x} \in P
      <4>1. T \ {x} \in SUBSET ms /\ Cardinality(T \ {x}) < Cardinality(T)
        BY <3>4
      <4> QED
        BY <1>1, <4>1
    <3>6. PICK s \in SetToSeqs(T \ {x}) : Descends(s, net)
      BY <3>5
    <3>7. s \in [1..n -> T \ {x}] /\ \A i, j \in 1..n : i # j => s[i] # s[j]
      BY <3>4 DEF SetToSeqs
    <3>8. PICK q : q = [i \in 1..(n + 1) |-> IF i <= n THEN s[i] ELSE x]
      OBVIOUS
    <3>9. \A i \in 1..(n + 1) : (i \in 1..n /\ q[i] = s[i] /\ q[i] \in T \ {x}) \/ (i = n + 1 /\ q[i] = x)
      <4> TAKE i \in 1..(n + 1)
      <4>1. i \in 1..n \/ (i = n + 1 /\ ~(i <= n))
        OBVIOUS
      <4> QED
        BY <3>7, <3>8, <4>1
    <3>10. q \in SetToSeqs(T)
      <4>1. q \in [1..(n + 1) -> T]
        BY <3>8, <3>9
      <4>2. ASSUME NEW i \in 1..(n + 1), NEW j \in 1..(n + 1), i # j PROVE q[i] # q[j]
        BY <3>7, <3>9, <4>2
      <4> QED
        BY <3>4, <4>1, <4>2 DEF SetToSeqs
    <3>11. Descends(q, net)
      <4> SUFFICES ASSUME NEW i \in 1..(n + 1), NEW j \in 1..(n + 1), i < j PROVE net[q[i]] >= net[q[j]]
        BY <3>8 DEF Descends
      <4>1. i \in 1..n /\ q[i] = s[i] /\ q[i] \in T
        BY <3>9
      <4>2. CASE j \in 1..n
        BY <3>6, <3>7, <3>9, <4>1, <4>2 DEF Descends
      <4>3. CASE j = n + 1
        <5>1. q[j] = x
          BY <3>9, <4>3
        <5>2. net[x] \in Nat /\ net[q[i]] \in Nat /\ net[x] <= net[q[i]]
          BY <3>1, <3>2, <4>1
        <5> QED
          BY <5>1, <5>2
      <4> QED
        BY <4>2, <4>3
    <3> QED
      BY <3>10, <3>11
  <2> QED
    BY <2>1, <2>2
<1> HIDE DEF P
<1>2. ms \in P
  <2>1. \A T \in SUBSET ms : T \in P
    BY <1>1, SubsetInduction
  <2> QED
    BY <2>1
<1> QED
  BY <1>2 DEF P

Arranges(s, ms) ==
    /\ Cardinality(ms) \in Nat /\ s \in [1..Cardinality(ms) -> ms]
    /\ \A i, j \in 1..Cardinality(ms) : s[i] = s[j] => i = j
    /\ \A m \in ms : \E i \in 1..Cardinality(ms) : s[i] = m

LEMMA ByAmountIs ==
    ASSUME NEW ms, IsFiniteSet(ms), NEW net, \A m \in ms : net[m] \in Nat
    PROVE  Arranges(ByAmount(net, ms), ms)
<1>1. ByAmount(net, ms) = CHOOSE s \in SetToSeqs(ms) : Descends(s, net)
  BY DEF ByAmount, Descends
<1>2. PICK s : s = ByAmount(net, ms)
  OBVIOUS
<1>3. s \in SetToSeqs(ms)
  BY <1>1, <1>2, SortExists
<1>4. PICK n \in Nat : n = Cardinality(ms)
  BY FS_CardinalityType
<1>5. s \in [1..n -> ms] /\ \A i, j \in 1..n : s[i] = s[j] => i = j
  BY <1>3, <1>4 DEF SetToSeqs
<1>6. \A m \in ms : \E i \in 1..n : s[i] = m
  <2>1. s \in Injection(1..n, ms)
    BY <1>5 DEF Injection, IsInjective
  <2>2. 1 \in Int /\ n \in Int
    OBVIOUS
  <2>3. IsFiniteSet(1..n) /\ Cardinality(1..n) = IF 1 > n THEN 0 ELSE n - 1 + 1
    BY <2>2, FS_Interval
  <2>4. Cardinality(1..n) = Cardinality(ms)
    BY <1>4, <2>3
  <2>5. s \in Surjection(1..n, ms)
    BY <2>1, <2>4, FS_Injection
  <2> QED
    BY <2>5 DEF Surjection
<1>7. Arranges(s, ms)
  BY <1>4, <1>5, <1>6 DEF Arranges
<1> QED
  BY <1>2, <1>7

\* A list of n people, each once, with what is left of their amounts.
Lists(q, n, left, D) ==
    /\ n \in Nat /\ q \in [1..n -> [user : D, amount : Nat \ {0}]] /\ left \in [D -> Nat]
    /\ \A i \in 1..n : left[q[i].user] = q[i].amount
    /\ \A i, j \in 1..n : q[i].user = q[j].user => i = j
    /\ \A m \in D : left[m] # 0 => \E i \in 1..n : q[i].user = m

\* The ones of D whose amounts are positive.
Positives(left, ms, net, D) ==
    /\ left \in [D -> Nat] /\ ms \in SUBSET D /\ net \in [D -> Int]
    /\ \A m \in D : (m \in ms <=> net[m] > 0) /\ left[m] = IF net[m] > 0 THEN net[m] ELSE 0

Listed(q, ms, left, D) ==
    Lists(q, Cardinality(ms), left, D) /\ IsFiniteSet(ms) /\ Cardinality(ms) \in Nat

LEMMA OwingLists ==
    ASSUME NEW D, IsFiniteSet(D), NEW net, NEW ms, NEW left, Positives(left, ms, net, D)
    PROVE  Listed(Owing(net, ByAmount(net, ms)), ms, left, D)
<1>0. /\ left \in [D -> Nat] /\ ms \in SUBSET D /\ net \in [D -> Int]
      /\ \A m \in D : (m \in ms <=> net[m] > 0) /\ left[m] = IF net[m] > 0 THEN net[m] ELSE 0
  BY DEF Positives
<1>1. ms \in SUBSET D /\ \A m \in ms : m \in D /\ net[m] \in Nat \ {0} /\ left[m] = net[m]
  BY <1>0
<1>2. IsFiniteSet(ms)
  BY <1>1, FS_Subset
<1>3. PICK n \in Nat : n = Cardinality(ms)
  BY <1>2, FS_CardinalityType
<1>4. PICK s : s = ByAmount(net, ms)
  OBVIOUS
<1>5. /\ s \in [1..n -> ms]
      /\ \A i, j \in 1..n : s[i] = s[j] => i = j
      /\ \A m \in ms : \E i \in 1..n : s[i] = m
  <2>1. \A m \in ms : net[m] \in Nat
    BY <1>1
  <2>2. Arranges(s, ms)
    BY <1>2, <1>4, <2>1, ByAmountIs
  <2> QED
    BY <1>3, <2>2 DEF Arranges
<1>6. PICK q : q = Owing(net, s)
  OBVIOUS
<1>7. q = [i \in 1..n |-> [user |-> s[i], amount |-> net[s[i]]]]
  BY <1>5, <1>6 DEF Owing
<1>8. \A i \in 1..n : s[i] \in ms /\ q[i].user = s[i] /\ q[i].amount = net[s[i]] /\ q[i] \in [user : D, amount : Nat \ {0}]
  BY <1>1, <1>5, <1>7
<1>9. q \in [1..n -> [user : D, amount : Nat \ {0}]]
  BY <1>7, <1>8
<1>10. \A i \in 1..n : left[q[i].user] = q[i].amount
  BY <1>1, <1>8
<1>11. \A i, j \in 1..n : q[i].user = q[j].user => i = j
  BY <1>5, <1>8
<1>12. \A m \in D : left[m] # 0 => \E i \in 1..n : q[i].user = m
  <2> SUFFICES ASSUME NEW m \in D, left[m] # 0 PROVE \E i \in 1..n : q[i].user = m
    OBVIOUS
  <2>1. m \in ms
    BY <1>0
  <2>2. PICK i \in 1..n : s[i] = m
    BY <1>5, <2>1
  <2> QED
    BY <1>8, <2>2
<1>13. Lists(q, n, left, D)
  BY <1>0, <1>9, <1>10, <1>11, <1>12 DEF Lists
<1> QED
  BY <1>2, <1>3, <1>4, <1>6, <1>13 DEF Listed

Less(left, m, a) == [left EXCEPT ![m] = @ - a]

\* The first one of a list pays or gets a.
LEMMA AdvanceLists ==
    ASSUME NEW D, NEW q, NEW n, NEW left, Lists(q, n, left, D), n # 0, NEW a \in Nat \ {0}, a <= q[1].amount
    PROVE  /\ q[1].user \in D /\ Less(left, q[1].user, a) \in [D -> Nat]
           /\ q[1].amount = a => n - 1 \in Nat /\ Lists(Advance(q, a), n - 1, Less(left, q[1].user, a), D)
           /\ q[1].amount # a => Lists(Advance(q, a), n, Less(left, q[1].user, a), D)
<1>0. n \in Nat \ {0} /\ 1 \in 1..n
  BY DEF Lists
<1>1. /\ q \in [1..n -> [user : D, amount : Nat \ {0}]] /\ left \in [D -> Nat]
      /\ \A i \in 1..n : q[i].user \in D /\ q[i].amount \in Nat \ {0} /\ left[q[i].user] = q[i].amount
      /\ \A i, j \in 1..n : q[i].user = q[j].user => i = j
      /\ \A m \in D : left[m] # 0 => \E i \in 1..n : q[i].user = m
  BY DEF Lists
<1>2. PICK u \in D : u = q[1].user
  BY <1>0, <1>1
<1>3. PICK less : less = Less(left, u, a)
  OBVIOUS
<1>4. less \in [D -> Nat] /\ less[u] = q[1].amount - a /\ \A m \in D : m # u => less[m] = left[m]
  <2>1. left[u] = q[1].amount /\ q[1].amount - a \in Nat
    BY <1>0, <1>1, <1>2
  <2> QED
    BY <1>1, <1>3, <2>1 DEF Less
<1>5. CASE q[1].amount = a
  <2>1. PICK k \in Nat : k = n - 1 /\ n = k + 1
    <3>1. n - 1 \in Nat /\ n = (n - 1) + 1
      BY <1>0
    <3> QED
      BY <3>1
  <2>2. PICK E : E = [user : D, amount : Nat \ {0}]
    OBVIOUS
  <2>3. q \in Seq(E) /\ Len(q) = k + 1
    <3>1. q \in [1..(k + 1) -> E]
      BY <1>1, <2>1, <2>2
    <3> QED
      BY <3>1
  <2>4. PICK e : e = Tail(q)
    OBVIOUS
  <2>5. e \in [1..k -> E] /\ \A i \in 1..k : e[i] = q[i + 1]
    <3>1. e \in Seq(E) /\ Len(e) = k /\ \A i \in 1..k : e[i] = q[i + 1]
      BY <2>3, <2>4
    <3> QED
      BY <3>1
  <2>6. \A i \in 1..k : i + 1 \in 1..n /\ i + 1 # 1 /\ e[i].user = q[i + 1].user /\ e[i].amount = q[i + 1].amount
    BY <2>1, <2>5
  <2>7. \A i \in 1..k : less[e[i].user] = e[i].amount
    <3> TAKE i \in 1..k
    <3>1. PICK j \in 1..n : j = i + 1 /\ j # 1 /\ e[i].user = q[j].user /\ e[i].amount = q[j].amount
      BY <2>6
    <3>2. q[j].user # u
      BY <1>0, <1>1, <1>2, <3>1
    <3> QED
      BY <1>1, <1>4, <3>1, <3>2
  <2>8. \A i, j \in 1..k : e[i].user = e[j].user => i = j
    <3> SUFFICES ASSUME NEW i \in 1..k, NEW j \in 1..k, e[i].user = e[j].user PROVE i = j
      OBVIOUS
    <3>1. i + 1 = j + 1
      BY <1>1, <2>6
    <3> QED
      BY <3>1
  <2>9. \A m \in D : less[m] # 0 => \E i \in 1..k : e[i].user = m
    <3> SUFFICES ASSUME NEW m \in D, less[m] # 0 PROVE \E i \in 1..k : e[i].user = m
      OBVIOUS
    <3>1. m # u
      BY <1>0, <1>1, <1>4, <1>5
    <3>2. PICK j \in 1..n : q[j].user = m
      BY <1>1, <1>4, <3>1
    <3>3. j # 1
      BY <1>2, <3>1, <3>2
    <3>4. j - 1 \in 1..k /\ (j - 1) + 1 = j
      BY <2>1, <3>3
    <3> QED
      BY <2>6, <3>2, <3>4
  <2>10. Lists(e, k, less, D)
    BY <1>4, <2>2, <2>5, <2>7, <2>8, <2>9 DEF Lists
  <2>11. Advance(q, a) = e
    BY <1>5, <2>4 DEF Advance
  <2> QED
    BY <1>2, <1>3, <1>4, <1>5, <2>1, <2>10, <2>11
<1>6. CASE q[1].amount # a
  <2>1. PICK f : f = [user |-> u, amount |-> q[1].amount - a]
    OBVIOUS
  <2>2. f \in [user : D, amount : Nat \ {0}] /\ f.user = u /\ f.amount = q[1].amount - a
    <3>1. q[1].amount - a \in Nat \ {0}
      BY <1>0, <1>1, <1>6
    <3> QED
      BY <2>1, <3>1
  <2>3. PICK e : e = [q EXCEPT ![1] = f]
    OBVIOUS
  <2>4. /\ e \in [1..n -> [user : D, amount : Nat \ {0}]] /\ e[1] = f
        /\ \A i \in 1..n : i # 1 => e[i] = q[i]
    BY <1>0, <1>1, <2>2, <2>3
  <2>5. Advance(q, a) = e
    <3>1. [q[1] EXCEPT !.amount = @ - a] = f
      BY <1>0, <1>1, <1>2, <2>1
    <3> QED
      BY <1>6, <2>3, <3>1 DEF Advance
  <2>6. \A i \in 1..n : e[i].user = q[i].user
    BY <1>2, <2>2, <2>4
  <2>7. \A i \in 1..n : less[e[i].user] = e[i].amount
    <3> TAKE i \in 1..n
    <3>1. CASE i = 1
      BY <1>4, <2>2, <2>4, <3>1
    <3>2. CASE i # 1
      <4>1. q[i].user # u /\ e[i] = q[i] /\ q[i].user \in D
        BY <1>0, <1>1, <1>2, <2>4, <3>2
      <4> QED
        BY <1>1, <1>4, <4>1
    <3> QED
      BY <3>1, <3>2
  <2>8. \A m \in D : less[m] # 0 => \E i \in 1..n : e[i].user = m
    <3> SUFFICES ASSUME NEW m \in D, less[m] # 0 PROVE \E i \in 1..n : e[i].user = m
      OBVIOUS
    <3>1. CASE m = u
      BY <1>0, <2>2, <2>4, <3>1
    <3>2. CASE m # u
      <4>1. PICK i \in 1..n : q[i].user = m
        BY <1>1, <1>4, <3>2
      <4> QED
        BY <2>6, <4>1
    <3> QED
      BY <3>1, <3>2
  <2>9. Lists(e, n, less, D)
    BY <1>0, <1>1, <1>4, <2>4, <2>6, <2>7, <2>8 DEF Lists
  <2> QED
    BY <1>2, <1>3, <1>4, <1>6, <2>5, <2>9
<1> QED
  BY <1>5, <1>6

\* l transfers, from those who owe to those who are owed.
TransfersOf(ts, l, net) ==
    /\ l \in Nat /\ ts \in [1..l -> [from : DOMAIN net, to : DOMAIN net, amount : Nat \ {0}]]
    /\ \A k \in 1..l : net[ts[k].from] < 0 /\ net[ts[k].to] > 0

SumAt(ts, l, side, m) == SumFunction([k \in 1..l |-> IF ts[k][side] = m THEN ts[k].amount ELSE 0])

LEMMA SentAndGot ==
    ASSUME NEW net, NEW ts, NEW l, TransfersOf(ts, l, net), NEW m \in DOMAIN net
    PROVE  /\ SentIn(ts, m) = SumAt(ts, l, "from", m) /\ GotIn(ts, m) = SumAt(ts, l, "to", m)
           /\ SentIn(ts, m) \in Nat /\ GotIn(ts, m) \in Nat
           /\ ~(net[m] < 0) => SentIn(ts, m) = 0
           /\ ~(net[m] > 0) => GotIn(ts, m) = 0
<1>1. l \in Nat /\ ts \in [1..l -> [from : DOMAIN net, to : DOMAIN net, amount : Nat \ {0}]]
  BY DEF TransfersOf
<1>2. IsFiniteSet(1..l)
  <2>1. 1 \in Int /\ l \in Int
    BY <1>1
  <2> QED
    BY <2>1, FS_Interval
<1>3. PICK D : D = 1..l
  OBVIOUS
<1>4. PICK f : f = [k \in D |-> IF ts[k].from = m THEN ts[k].amount ELSE 0]
  OBVIOUS
<1>5. PICK g : g = [k \in D |-> IF ts[k].to = m THEN ts[k].amount ELSE 0]
  OBVIOUS
<1>6. DOMAIN ts = D /\ \A k \in D : ts[k].amount \in Nat
  BY <1>1, <1>3
<1>7. SentIn(ts, m) = SumFunction(f) /\ GotIn(ts, m) = SumFunction(g)
  BY <1>4, <1>5, <1>6 DEF SentIn, GotIn
<1>8. SumAt(ts, l, "from", m) = SumFunction(f) /\ SumAt(ts, l, "to", m) = SumFunction(g)
  BY <1>3, <1>4, <1>5 DEF SumAt
<1>9. f \in [D -> Nat] /\ g \in [D -> Nat] /\ IsFiniteSet(D) /\ f \in [D -> Int] /\ g \in [D -> Int]
  BY <1>2, <1>3, <1>4, <1>5, <1>6
<1>10. SumFunction(f) \in Nat /\ SumFunction(g) \in Nat
  BY <1>9, SumIsNat
<1>11. ASSUME ~(net[m] < 0) PROVE SumFunction(f) = 0
  <2>1. \A k \in D : f[k] = 0
    BY <1>3, <1>4, <1>11 DEF TransfersOf
  <2> QED
    BY <1>9, <2>1, SumZero
<1>12. ASSUME ~(net[m] > 0) PROVE SumFunction(g) = 0
  <2>1. \A k \in D : g[k] = 0
    BY <1>3, <1>5, <1>12 DEF TransfersOf
  <2> QED
    BY <1>9, <2>1, SumZero
<1> QED
  BY <1>7, <1>8, <1>10, <1>11, <1>12

\* Another transfer.
LEMMA OneMore ==
    ASSUME NEW net, NEW ts, NEW l, TransfersOf(ts, l, net),
           NEW x \in [from : DOMAIN net, to : DOMAIN net, amount : Nat \ {0}],
           net[x.from] < 0, net[x.to] > 0
    PROVE  /\ l + 1 \in Nat /\ TransfersOf(Append(ts, x), l + 1, net)
           /\ \A m \in DOMAIN net :
                 /\ SentIn(Append(ts, x), m) = SentIn(ts, m) + (IF m = x.from THEN x.amount ELSE 0)
                 /\ GotIn(Append(ts, x), m) = GotIn(ts, m) + (IF m = x.to THEN x.amount ELSE 0)
<1>1. PICK F : F = [from : DOMAIN net, to : DOMAIN net, amount : Nat \ {0}]
  OBVIOUS
<1>2. l \in Nat /\ ts \in [1..l -> F] /\ x \in F /\ \A k \in 1..l : net[ts[k].from] < 0 /\ net[ts[k].to] > 0
  BY <1>1 DEF TransfersOf
<1>3. PICK e : e = Append(ts, x)
  OBVIOUS
<1>4. PICK n \in Nat \ {0} : n = l + 1 /\ n - 1 = l
  <2>1. l \in Nat
    BY <1>2
  <2>2. l + 1 \in Nat \ {0} /\ l + 1 - 1 = l
    BY <2>1
  <2> QED
    BY <2>1, <2>2
<1>5. e \in [1..n -> F] /\ e[n] = x /\ \A k \in 1..l : e[k] = ts[k]
  <2>1. ts \in Seq(F) /\ Len(ts) = l
    BY <1>2
  <2>2. e \in Seq(F) /\ Len(e) = n /\ e[n] = x /\ \A k \in 1..l : e[k] = ts[k]
    BY <1>2, <1>3, <1>4, <2>1
  <2> QED
    BY <2>2
<1>6. TransfersOf(e, n, net)
  <2>1. ASSUME NEW k \in 1..n PROVE net[e[k].from] < 0 /\ net[e[k].to] > 0
    <3>1. k = n \/ k \in 1..l
      BY <1>2, <1>4
    <3> QED
      BY <1>2, <1>5, <3>1
  <2> QED
    BY <1>1, <1>5, <2>1 DEF TransfersOf
<1>7. \A k \in 1..n : e[k].amount \in Int
  <2>1. \A y \in F : y.amount \in Int
    BY <1>1
  <2> QED
    BY <1>5, <2>1
<1>8. ASSUME NEW side \in {"from", "to"}, NEW m
      PROVE  SumAt(e, n, side, m) = SumAt(ts, l, side, m) + (IF m = x[side] THEN x.amount ELSE 0)
  <2>1. PICK f : f = [k \in 1..n |-> IF e[k][side] = m THEN e[k].amount ELSE 0]
    OBVIOUS
  <2>2. PICK g : g = [k \in 1..(n - 1) |-> IF ts[k][side] = m THEN ts[k].amount ELSE 0]
    OBVIOUS
  <2>3. f \in [1..n -> Int]
    BY <1>7, <2>1
  <2>4. \A k \in 1..(n - 1) : k \in 1..n /\ k \in 1..l /\ e[k] = ts[k]
    BY <1>2, <1>4, <1>5
  <2>5. g \in [1..(n - 1) -> Int] /\ \A k \in 1..(n - 1) : g[k] = f[k]
    <3>1. ASSUME NEW k \in 1..(n - 1) PROVE g[k] = f[k] /\ f[k] \in Int
      <4>1. k \in 1..n /\ e[k] = ts[k]
        BY <2>4
      <4>2. f[k] = (IF e[k][side] = m THEN e[k].amount ELSE 0) /\ f[k] \in Int
        BY <2>1, <2>3, <4>1
      <4>3. g[k] = (IF ts[k][side] = m THEN ts[k].amount ELSE 0)
        BY <2>2
      <4> QED
        BY <4>1, <4>2, <4>3, Zenon
    <3>2. \A k \in 1..(n - 1) : g[k] \in Int
      BY <3>1, Zenon
    <3>3. g \in [1..(n - 1) -> Int]
      BY <2>2, <3>2
    <3> QED
      BY <3>1, <3>3, Zenon
  <2>6. SumFunction(f) = SumFunction(g) + f[n]
    BY <2>3, <2>5, SumWithout
  <2>7. n \in 1..n /\ f[n] = IF m = x[side] THEN x.amount ELSE 0
    BY <1>5, <2>1
  <2>8. SumAt(e, n, side, m) = SumFunction(f) /\ SumAt(ts, l, side, m) = SumFunction(g)
    BY <1>4, <2>1, <2>2 DEF SumAt
  <2> QED
    BY <2>6, <2>7, <2>8
<1>9. ASSUME NEW m \in DOMAIN net
      PROVE  /\ SentIn(e, m) = SentIn(ts, m) + (IF m = x.from THEN x.amount ELSE 0)
             /\ GotIn(e, m) = GotIn(ts, m) + (IF m = x.to THEN x.amount ELSE 0)
  <2>1. SentIn(ts, m) = SumAt(ts, l, "from", m) /\ GotIn(ts, m) = SumAt(ts, l, "to", m)
    BY SentAndGot
  <2>2. SentIn(e, m) = SumAt(e, n, "from", m) /\ GotIn(e, m) = SumAt(e, n, "to", m)
    BY <1>6, SentAndGot
  <2>3. x["from"] = x.from /\ x["to"] = x.to
    OBVIOUS
  <2> QED
    BY <1>8, <2>1, <2>2, <2>3
<1> QED
  BY <1>3, <1>4, <1>6, <1>9

-----------------------------------------------------------------------------
(* What holds after every transfer: both lists have what is left of the    *)
(* balances, and what is left makes up for what was sent.                  *)
Clears(t, net, cr, db, c, d, l) ==
    /\ Lists(t.creditors, c, cr, DOMAIN net) /\ Lists(t.debtors, d, db, DOMAIN net)
    /\ TransfersOf(t.transfers, l, net)
    /\ \A m \in DOMAIN net : (cr[m] # 0 => net[m] > 0) /\ (db[m] # 0 => net[m] < 0)
    /\ SumFunction(cr) - SumFunction(db) = SumFunction(net)
    /\ \A m \in DOMAIN net :
          net[m] + SentIn(t.transfers, m) = GotIn(t.transfers, m) + (cr[m] - db[m])
    /\ l + c + d <= Cardinality(DOMAIN net)
    /\ l # 0 => l < Cardinality(DOMAIN net)

Nets(net) == IsFiniteSet(DOMAIN net) /\ net \in [DOMAIN net -> Int]

LEMMA TransferClears ==
    ASSUME NEW net, Nets(net), NEW t, NEW cr, NEW db, NEW c, NEW d, NEW l,
           Clears(t, net, cr, db, c, d, l), c # 0, d # 0
    PROVE  \E cr2, db2, c2, d2, l2 : Clears(Transfer(t), net, cr2, db2, c2, d2, l2) /\ c2 + d2 < c + d
<1>1. PICK D : D = DOMAIN net /\ IsFiniteSet(D) /\ net \in [D -> Int]
  BY DEF Nets
<1>2. PICK q, p, ts : q = t.creditors /\ p = t.debtors /\ ts = t.transfers
  OBVIOUS
<1>3. /\ Lists(q, c, cr, D) /\ Lists(p, d, db, D) /\ TransfersOf(ts, l, net)
      /\ \A m \in D : (cr[m] # 0 => net[m] > 0) /\ (db[m] # 0 => net[m] < 0)
      /\ SumFunction(cr) - SumFunction(db) = SumFunction(net)
      /\ \A m \in D : net[m] + SentIn(ts, m) = GotIn(ts, m) + (cr[m] - db[m])
      /\ l + c + d <= Cardinality(D)
  BY <1>1, <1>2 DEF Clears
<1>4. /\ c \in Nat \ {0} /\ d \in Nat \ {0} /\ l \in Nat /\ cr \in [D -> Nat] /\ db \in [D -> Nat]
      /\ q \in [1..c -> [user : D, amount : Nat \ {0}]] /\ p \in [1..d -> [user : D, amount : Nat \ {0}]]
  BY <1>3 DEF Lists, TransfersOf
<1>5. PICK u \in D, v \in D, x \in Nat \ {0}, y \in Nat \ {0} :
        u = q[1].user /\ v = p[1].user /\ x = q[1].amount /\ y = p[1].amount
  <2>1. 1 \in 1..c /\ 1 \in 1..d
    BY <1>4
  <2> QED
    BY <1>4, <2>1
<1>6. cr[u] = x /\ db[v] = y
  <2>1. 1 \in 1..c /\ 1 \in 1..d
    BY <1>4
  <2> QED
    BY <1>3, <1>5, <2>1 DEF Lists
<1>7. PICK a \in Nat \ {0} : a = (IF x < y THEN x ELSE y) /\ a <= x /\ a <= y /\ (a = x \/ a = y)
  <2>1. (IF x < y THEN x ELSE y) \in Nat \ {0}
    BY <1>5
  <2>2. PICK a \in Nat \ {0} : a = (IF x < y THEN x ELSE y)
    BY <2>1
  <2>3. a <= x /\ a <= y /\ (a = x \/ a = y)
    BY <1>5, <2>2
  <2> QED
    BY <2>2, <2>3
<1>8. PICK cr2, db2 : cr2 = Less(cr, u, a) /\ db2 = Less(db, v, a)
  OBVIOUS
<1>9. /\ cr2 \in [D -> Nat]
      /\ x = a => c - 1 \in Nat /\ Lists(Advance(q, a), c - 1, cr2, D)
      /\ x # a => Lists(Advance(q, a), c, cr2, D)
  <2>1. c # 0 /\ a <= q[1].amount /\ cr2 = Less(cr, q[1].user, a) /\ Lists(q, c, cr, D)
    BY <1>3, <1>4, <1>5, <1>7, <1>8
  <2>2. /\ Less(cr, q[1].user, a) \in [D -> Nat]
        /\ q[1].amount = a => c - 1 \in Nat /\ Lists(Advance(q, a), c - 1, Less(cr, q[1].user, a), D)
        /\ q[1].amount # a => Lists(Advance(q, a), c, Less(cr, q[1].user, a), D)
    BY <2>1, AdvanceLists
  <2> QED
    BY <1>5, <2>1, <2>2, Zenon
<1>10. /\ db2 \in [D -> Nat]
       /\ y = a => d - 1 \in Nat /\ Lists(Advance(p, a), d - 1, db2, D)
       /\ y # a => Lists(Advance(p, a), d, db2, D)
  <2>1. d # 0 /\ a <= p[1].amount /\ db2 = Less(db, p[1].user, a) /\ Lists(p, d, db, D)
    BY <1>3, <1>4, <1>5, <1>7, <1>8
  <2>2. /\ Less(db, p[1].user, a) \in [D -> Nat]
        /\ p[1].amount = a => d - 1 \in Nat /\ Lists(Advance(p, a), d - 1, Less(db, p[1].user, a), D)
        /\ p[1].amount # a => Lists(Advance(p, a), d, Less(db, p[1].user, a), D)
    BY <2>1, AdvanceLists
  <2> QED
    BY <1>5, <2>1, <2>2, Zenon
<1>11. PICK c2, d2 : c2 = (IF x = a THEN c - 1 ELSE c) /\ d2 = (IF y = a THEN d - 1 ELSE d)
  OBVIOUS
<1>12. /\ c2 \in Nat /\ d2 \in Nat /\ c2 + d2 < c + d /\ c2 + d2 + 1 <= c + d
       /\ Lists(Advance(q, a), c2, cr2, D) /\ Lists(Advance(p, a), d2, db2, D)
  <2>1. Lists(Advance(q, a), c2, cr2, D) /\ Lists(Advance(p, a), d2, db2, D)
    BY <1>9, <1>10, <1>11, Zenon
  <2>2. c \in Nat \ {0} /\ d \in Nat \ {0} /\ (a = x \/ a = y)
    BY <1>4, <1>7
  <2>3. c2 \in Nat /\ d2 \in Nat /\ c2 + d2 < c + d /\ c2 + d2 + 1 <= c + d
    BY <1>11, <2>2
  <2> QED
    BY <2>1, <2>3
<1>13. PICK r : r = [from |-> v, to |-> u, amount |-> a]
  OBVIOUS
<1>14. /\ r \in [from : D, to : D, amount : Nat \ {0}] /\ r.from = v /\ r.to = u /\ r.amount = a
       /\ net[v] < 0 /\ net[u] > 0
  BY <1>3, <1>5, <1>6, <1>7, <1>13
<1>15. PICK ts2 : ts2 = Append(ts, r)
  OBVIOUS
<1>16. /\ l + 1 \in Nat /\ TransfersOf(ts2, l + 1, net)
       /\ \A m \in D : /\ SentIn(ts2, m) = SentIn(ts, m) + (IF m = v THEN a ELSE 0)
                       /\ GotIn(ts2, m) = GotIn(ts, m) + (IF m = u THEN a ELSE 0)
  BY <1>1, <1>3, <1>14, <1>15, OneMore
<1>17. PICK t2 : t2 = Transfer(t)
  OBVIOUS
<1>18. t2.creditors = Advance(q, a) /\ t2.debtors = Advance(p, a) /\ t2.transfers = ts2
  <2>1. q # <<>> /\ p # <<>>
    <3>1. 1 \in DOMAIN q /\ 1 \in DOMAIN p
      BY <1>4
    <3> QED
      BY <3>1
  <2>2. t2 = [creditors |-> Advance(q, a), debtors |-> Advance(p, a), transfers |-> ts2]
    BY <1>2, <1>5, <1>7, <1>13, <1>15, <1>17, <2>1 DEF Transfer
  <2> QED
    BY <2>2
<1>19. /\ cr2[u] = cr[u] - a /\ \A m \in D : m # u => cr2[m] = cr[m]
       /\ db2[v] = db[v] - a /\ \A m \in D : m # v => db2[m] = db[m]
  BY <1>4, <1>5, <1>8 DEF Less
<1>20. \A m \in D : (cr2[m] # 0 => net[m] > 0) /\ (db2[m] # 0 => net[m] < 0)
  BY <1>3, <1>14, <1>19
<1>21. SumFunction(cr2) - SumFunction(db2) = SumFunction(net)
  <2>1. cr \in [D -> Int] /\ cr2 \in [D -> Int] /\ db \in [D -> Int] /\ db2 \in [D -> Int]
    <3>1. \A f \in [D -> Nat] : f \in [D -> Int]
      OBVIOUS
    <3> QED
      BY <1>4, <1>9, <1>10, <3>1, Zenon
  <2>2. SumFunction(cr2) = SumFunction(cr) + (cr2[u] - cr[u])
    BY <1>1, <1>19, <2>1, SumChange
  <2>3. SumFunction(db2) = SumFunction(db) + (db2[v] - db[v])
    BY <1>1, <1>19, <2>1, SumChange
  <2>4. cr2[u] - cr[u] = -a /\ db2[v] - db[v] = -a
    BY <1>6, <1>7, <1>19
  <2>5. SumFunction(cr) \in Int /\ SumFunction(db) \in Int
    BY <1>1, <2>1, SumIsInt
  <2> QED
    BY <1>3, <1>7, <2>2, <2>3, <2>4, <2>5
<1>22. ASSUME NEW m \in D PROVE net[m] + SentIn(ts2, m) = GotIn(ts2, m) + (cr2[m] - db2[m])
  <2>1. SentIn(ts, m) \in Nat /\ GotIn(ts, m) \in Nat
    BY <1>1, <1>3, SentAndGot
  <2>2. net[m] \in Int /\ cr[m] \in Nat /\ db[m] \in Nat /\ a \in Nat
    BY <1>1, <1>4, <1>7
  <2>3. net[m] + SentIn(ts, m) = GotIn(ts, m) + (cr[m] - db[m])
    BY <1>3
  <2>4. /\ cr2[m] = cr[m] - (IF m = u THEN a ELSE 0) /\ db2[m] = db[m] - (IF m = v THEN a ELSE 0)
    BY <1>19, <2>2
  <2>5. /\ SentIn(ts2, m) = SentIn(ts, m) + (IF m = v THEN a ELSE 0)
        /\ GotIn(ts2, m) = GotIn(ts, m) + (IF m = u THEN a ELSE 0)
    BY <1>16
  <2> QED
    BY <2>1, <2>2, <2>3, <2>4, <2>5
<1>23. l + 1 + c2 + d2 <= Cardinality(D) /\ l + 1 < Cardinality(D)
  <2>1. PICK n \in Nat : n = Cardinality(D)
    BY <1>1, FS_CardinalityType
  <2>2. l + c + d <= n
    BY <1>3, <2>1
  <2>3. c \in Nat \ {0} /\ d \in Nat \ {0} /\ l \in Nat
    BY <1>4
  <2>4. c2 \in Nat /\ d2 \in Nat /\ c2 + d2 + 1 <= c + d
    BY <1>12
  <2>5. l + 1 + c2 + d2 <= n /\ l + 1 < n
    BY <2>2, <2>3, <2>4
  <2> QED
    BY <2>1, <2>5
<1>24. Clears(t2, net, cr2, db2, c2, d2, l + 1)
  BY <1>1, <1>12, <1>16, <1>18, <1>20, <1>21, <1>22, <1>23 DEF Clears
<1> QED
  BY <1>12, <1>17, <1>24

-----------------------------------------------------------------------------
(* All transfers.                                                          *)
Claims(D) == [user : D, amount : Int]
Matchings(D) ==
    [creditors : Seq(Claims(D)), debtors : Seq(Claims(D)), transfers : Seq([from : D, to : D, amount : Int])]

LEMMA AdvanceStays ==
    ASSUME NEW D, NEW q \in Seq(Claims(D)), q # <<>>, NEW a \in Int
    PROVE  Advance(q, a) \in Seq(Claims(D))
<1>1. PICK n \in Nat : n = Len(q) /\ q \in [1..n -> Claims(D)] /\ n # 0 /\ 1 \in 1..n
  <2>1. Len(q) \in Nat /\ Len(q) # 0 /\ q \in [1..Len(q) -> Claims(D)]
    OBVIOUS
  <2>2. 1 \in 1..Len(q)
    BY <2>1
  <2> QED
    BY <2>1, <2>2
<1>2. q[1] \in Claims(D)
  BY <1>1
<1>3. CASE q[1].amount = a
  BY <1>3 DEF Advance
<1>4. CASE q[1].amount # a
  <2>1. PICK f : f = [q[1] EXCEPT !.amount = @ - a]
    OBVIOUS
  <2>2. f \in Claims(D)
    BY <1>2, <2>1 DEF Claims
  <2>3. [q EXCEPT ![1] = f] \in [1..n -> Claims(D)]
    BY <1>1, <2>2
  <2>4. [q EXCEPT ![1] = f] \in Seq(Claims(D))
    BY <2>3
  <2>5. Advance(q, a) = [q EXCEPT ![1] = f]
    BY <1>4, <2>1 DEF Advance
  <2> QED
    BY <2>4, <2>5
<1> QED
  BY <1>3, <1>4

LEMMA TransferStays == ASSUME NEW D, NEW t \in Matchings(D) PROVE Transfer(t) \in Matchings(D)
<1>1. t.creditors \in Seq(Claims(D)) /\ t.debtors \in Seq(Claims(D)) /\ t.transfers \in Seq([from : D, to : D, amount : Int])
  BY DEF Matchings
<1>2. CASE t.creditors = <<>> \/ t.debtors = <<>>
  BY <1>2 DEF Transfer
<1>3. CASE t.creditors # <<>> /\ t.debtors # <<>>
  <2>1. PICK q, p : q = t.creditors /\ p = t.debtors
    OBVIOUS
  <2>2. q[1] \in Claims(D) /\ p[1] \in Claims(D)
    BY <1>1, <1>3, <2>1
  <2>3. PICK a \in Int : a = IF q[1].amount < p[1].amount THEN q[1].amount ELSE p[1].amount
    BY <2>2 DEF Claims
  <2>4. PICK r \in [from : D, to : D, amount : Int] : r = [from |-> p[1].user, to |-> q[1].user, amount |-> a]
    BY <2>2 DEF Claims
  <2>5. Transfer(t) = [creditors |-> Advance(q, a), debtors |-> Advance(p, a), transfers |-> Append(t.transfers, r)]
    BY <1>3, <2>1, <2>3, <2>4 DEF Transfer
  <2>6. Advance(q, a) \in Seq(Claims(D)) /\ Advance(p, a) \in Seq(Claims(D))
    BY <1>1, <1>3, <2>1, AdvanceStays
  <2>7. Append(t.transfers, r) \in Seq([from : D, to : D, amount : Int])
    BY <1>1
  <2> QED
    BY <2>5, <2>6, <2>7 DEF Matchings
<1> QED
  BY <1>2, <1>3

\* What is left to clear, if anything, takes at most so many more transfers.
ClearedBy(t, net, k) ==
    \E cr, db, c, d, l : /\ Clears(t, net, cr, db, c, d, l)
                         /\ c = 0 \/ d = 0 \/ c + d + k <= Cardinality(DOMAIN net)

LEMMA ReachedNext ==
    ASSUME NEW net, Nets(net), NEW t, NEW k \in Nat \ {0}, ClearedBy(t, net, k - 1)
    PROVE  ClearedBy(Transfer(t), net, k)
<1>1. PICK cr, db, c, d, l : /\ Clears(t, net, cr, db, c, d, l)
                             /\ c = 0 \/ d = 0 \/ c + d + (k - 1) <= Cardinality(DOMAIN net)
  BY DEF ClearedBy
<1>2. CASE c = 0 \/ d = 0
  <2>1. t.creditors = <<>> \/ t.debtors = <<>>
    <3>1. t.creditors \in [1..c -> [user : DOMAIN net, amount : Nat \ {0}]]
      BY <1>1 DEF Clears, Lists
    <3>2. t.debtors \in [1..d -> [user : DOMAIN net, amount : Nat \ {0}]]
      BY <1>1 DEF Clears, Lists
    <3>3. \A E : \A q \in [1..0 -> E] : q = <<>>
      OBVIOUS
    <3> QED
      BY <1>2, <3>1, <3>2, <3>3
  <2>2. Transfer(t) = t
    BY <2>1 DEF Transfer
  <2> QED
    BY <1>1, <1>2, <2>2 DEF ClearedBy
<1>3. CASE c # 0 /\ d # 0
  <2>1. PICK cr2, db2, c2, d2, l2 : Clears(Transfer(t), net, cr2, db2, c2, d2, l2) /\ c2 + d2 < c + d
    BY <1>1, <1>3, TransferClears
  <2>2. c \in Nat /\ d \in Nat /\ c2 \in Nat /\ d2 \in Nat
    BY <1>1, <2>1 DEF Clears, Lists
  <2>3. PICK n \in Nat : n = Cardinality(DOMAIN net)
    BY FS_CardinalityType DEF Nets
  <2>4. c + d + (k - 1) <= n
    BY <1>1, <1>3, <2>3
  <2>5. c2 + d2 + k <= n
    BY <2>1, <2>2, <2>3, <2>4
  <2> QED
    BY <2>1, <2>3, <2>5 DEF ClearedBy
<1> QED
  BY <1>2, <1>3

TransferTable(g, n, start) ==
    g = [S \in SUBSET (1..n) |-> IF S = {} THEN start ELSE Transfer(g[S \ {Max(S)}])]

LEMMA MatchingEnds ==
    ASSUME NEW net, Nets(net), NEW n \in Nat, n = Cardinality(DOMAIN net),
           NEW start \in Matchings(DOMAIN net), ClearedBy(start, net, 0)
    PROVE  LET last == FoldLeft(LAMBDA t, k : Transfer(t), start, [k \in 1..n |-> k])
           IN  last \in Matchings(DOMAIN net) /\ ClearedBy(last, net, n)
<1>1. PICK V : V = Matchings(DOMAIN net)
  OBVIOUS
<1>2. PICK step \in [(1..n) \X V -> V] : step = [p \in (1..n) \X V |-> Transfer(p[2])]
  <2>1. \A p \in (1..n) \X V : Transfer(p[2]) \in V
    BY <1>1, TransferStays
  <2> QED
    BY <2>1
<1>3. PICK g \in [SUBSET (1..n) -> V] : FoldTable(g, n, step, start)
  BY <1>1, FoldTableExists
<1>4. TransferTable(g, n, start)
  <2>1. ASSUME NEW S \in SUBSET (1..n), S # {}
        PROVE  step[<<Max(S), g[S \ {Max(S)}]>>] = Transfer(g[S \ {Max(S)}])
    <3>1. Max(S) \in S
      BY <2>1, LargestOf
    <3>2. g[S \ {Max(S)}] \in V
      OBVIOUS
    <3> QED
      BY <1>2, <3>1, <3>2
  <2>2. g = [S \in SUBSET (1..n) |-> IF S = {} THEN start ELSE step[<<Max(S), g[S \ {Max(S)}]>>]]
    BY <1>3 DEF FoldTable
  <2> QED
    BY <2>1, <2>2 DEF TransferTable
<1>5. FoldLeft(LAMBDA t, k : Transfer(t), start, [k \in 1..n |-> k])
        = (CHOOSE h : TransferTable(h, n, start))[1..n]
  BY DEF FoldLeft, MapThenFoldSet, TransferTable
<1>6. PICK h : TransferTable(h, n, start) /\ h = CHOOSE f : TransferTable(f, n, start)
  BY <1>4
<1>7. PICK S : S = {k \in 0..n : h[1..k] \in V /\ ClearedBy(h[1..k], net, k)}
  OBVIOUS
<1>8. 0 \in S
  <2>1. 1..0 = {} /\ 0 \in 0..n
    OBVIOUS
  <2>2. h[{}] = start
    BY <1>6 DEF TransferTable
  <2> QED
    BY <1>1, <1>7, <2>1, <2>2
<1>9. ASSUME NEW k \in 1..n, k - 1 \in S PROVE k \in S
  <2>1. k \in Nat \ {0} /\ 1..k \in SUBSET (1..n) /\ 1..k # {} /\ k \in 0..n
    OBVIOUS
  <2>2. Max(1..k) = k /\ (1..k) \ {k} = 1..(k - 1)
    BY <2>1, LargestUpTo
  <2>3. h[1..k] = Transfer(h[1..(k - 1)])
    BY <1>6, <2>1, <2>2 DEF TransferTable
  <2>4. h[1..(k - 1)] \in V /\ ClearedBy(h[1..(k - 1)], net, k - 1)
    BY <1>7, <1>9
  <2>5. ClearedBy(h[1..k], net, k)
    BY <2>1, <2>3, <2>4, ReachedNext
  <2>6. h[1..k] \in V
    BY <1>1, <2>3, <2>4, TransferStays
  <2> QED
    BY <1>7, <2>1, <2>5, <2>6
<1>10. n \in S
  BY <1>8, <1>9, CountedUp
<1>11. h[1..n] \in V /\ ClearedBy(h[1..n], net, n)
  BY <1>7, <1>10
<1>12. FoldLeft(LAMBDA t, k : Transfer(t), start, [k \in 1..n |-> k]) = h[1..n]
  BY <1>5, <1>6, Zenon
<1> QED
  BY <1>1, <1>11, <1>12, Zenon

Differ(cr, db, net, D) ==
    /\ net \in [D -> Int] /\ cr \in [D -> Nat] /\ db \in [D -> Nat]
    /\ \A m \in D : cr[m] = net[m] + db[m]

LEMMA SumsDiffer ==
    ASSUME NEW D, IsFiniteSet(D), NEW cr, NEW db, NEW net, Differ(cr, db, net, D)
    PROVE  SumFunction(cr) - SumFunction(db) = SumFunction(net)
<1>1. /\ cr \in [D -> Int] /\ db \in [D -> Int] /\ net \in [D -> Int]
      /\ \A m \in D : cr[m] = net[m] + db[m]
  BY DEF Differ
<1>2. SumFunction(cr) = SumFunction(net) + SumFunction(db)
  BY <1>1, SumAdd
<1>3. SumFunction(db) \in Int /\ SumFunction(net) \in Int
  BY <1>1, SumIsInt
<1> QED
  BY <1>2, <1>3

\* Both lists before the first transfer.
LEMMA MatchingStarts ==
    ASSUME NEW net, Nets(net), NEW debt, debt = [m \in DOMAIN net |-> -net[m]],
           NEW start, start = [creditors |-> Owing(net, ByAmount(net, {m \in DOMAIN net : net[m] > 0})),
                               debtors |-> Owing(debt, ByAmount(debt, {m \in DOMAIN net : debt[m] > 0})),
                               transfers |-> <<>>]
    PROVE  start \in Matchings(DOMAIN net) /\ ClearedBy(start, net, 0)
<1>1. PICK D : D = DOMAIN net /\ IsFiniteSet(D) /\ net \in [D -> Int]
  BY DEF Nets
<1>2. debt \in [D -> Int] /\ \A m \in D : debt[m] = -net[m]
  BY <1>1
<1>3. PICK owed : owed = {m \in D : net[m] > 0}
  OBVIOUS
<1>4. PICK owing : owing = {m \in D : debt[m] > 0}
  OBVIOUS
<1>5. PICK cr \in [D -> Nat] : \A m \in D : cr[m] = IF net[m] > 0 THEN net[m] ELSE 0
  <2>1. [m \in D |-> IF net[m] > 0 THEN net[m] ELSE 0] \in [D -> Nat]
    BY <1>1
  <2> QED
    BY <2>1
<1>6. PICK db \in [D -> Nat] : \A m \in D : db[m] = IF debt[m] > 0 THEN debt[m] ELSE 0
  <2>1. [m \in D |-> IF debt[m] > 0 THEN debt[m] ELSE 0] \in [D -> Nat]
    BY <1>2
  <2> QED
    BY <2>1
<1>7. PICK q, p : q = Owing(net, ByAmount(net, owed)) /\ p = Owing(debt, ByAmount(debt, owing))
  OBVIOUS
<1>8. Lists(q, Cardinality(owed), cr, D) /\ IsFiniteSet(owed) /\ Cardinality(owed) \in Nat
  <2>1. Positives(cr, owed, net, D)
    BY <1>1, <1>3, <1>5 DEF Positives
  <2>2. Listed(Owing(net, ByAmount(net, owed)), owed, cr, D)
    BY <1>1, <2>1, OwingLists
  <2> QED
    BY <1>7, <2>2 DEF Listed
<1>9. Lists(p, Cardinality(owing), db, D) /\ IsFiniteSet(owing) /\ Cardinality(owing) \in Nat
  <2>1. Positives(db, owing, debt, D)
    BY <1>2, <1>4, <1>6 DEF Positives
  <2>2. Listed(Owing(debt, ByAmount(debt, owing)), owing, db, D)
    BY <1>1, <2>1, OwingLists
  <2> QED
    BY <1>7, <2>2 DEF Listed
<1>10. Cardinality(owed) + Cardinality(owing) <= Cardinality(D)
  <2>1. owed \cap owing = {}
    BY <1>1, <1>2, <1>3, <1>4
  <2>2. Cardinality(owed \cup owing) = Cardinality(owed) + Cardinality(owing) - Cardinality(owed \cap owing)
    BY <1>8, <1>9, FS_Union
  <2>3. Cardinality(owed \cap owing) = 0
    BY <2>1, FS_EmptySet
  <2>4. owed \cup owing \in SUBSET D
    BY <1>3, <1>4
  <2>5. Cardinality(owed \cup owing) <= Cardinality(D)
    BY <1>1, <2>4, FS_Subset
  <2> QED
    BY <1>8, <1>9, <2>2, <2>3, <2>5
<1>11. start.creditors = q /\ start.debtors = p /\ start.transfers = <<>>
  BY <1>1, <1>3, <1>4, <1>7
<1>12. TransfersOf(<<>>, 0, net)
  <2>1. 1..0 = {} /\ \A E : <<>> \in [1..0 -> E]
    OBVIOUS
  <2> QED
    BY <2>1 DEF TransfersOf
<1>13. \A m \in D : SentIn(<<>>, m) = 0 /\ GotIn(<<>>, m) = 0
  <2> TAKE m \in D
  <2>1. SentIn(<<>>, m) = SumAt(<<>>, 0, "from", m) /\ GotIn(<<>>, m) = SumAt(<<>>, 0, "to", m)
    BY <1>1, <1>12, SentAndGot
  <2>2. ASSUME NEW side PROVE SumAt(<<>>, 0, side, m) = 0
    <3>1. PICK f : f = [k \in 1..0 |-> IF <<>>[k][side] = m THEN <<>>[k].amount ELSE 0]
      OBVIOUS
    <3>2. f \in [{} -> Int]
      BY <3>1
    <3> QED
      BY <3>1, <3>2, SumEmpty DEF SumAt
  <2> QED
    BY <2>1, <2>2
<1>14. \A m \in D : net[m] \in Int /\ cr[m] \in Nat /\ db[m] \in Nat /\ cr[m] = net[m] + db[m]
                     /\ (cr[m] # 0 => net[m] > 0) /\ (db[m] # 0 => net[m] < 0)
  BY <1>1, <1>2, <1>5, <1>6
<1>15. SumFunction(cr) - SumFunction(db) = SumFunction(net)
  <2>1. Differ(cr, db, net, D)
    BY <1>1, <1>14 DEF Differ
  <2> QED
    BY <1>1, <2>1, SumsDiffer
<1>16. \A m \in D : net[m] + SentIn(<<>>, m) = GotIn(<<>>, m) + (cr[m] - db[m])
  BY <1>13, <1>14
<1>17. Clears(start, net, cr, db, Cardinality(owed), Cardinality(owing), 0)
  <2>1. 0 + Cardinality(owed) + Cardinality(owing) <= Cardinality(D)
    BY <1>8, <1>9, <1>10
  <2> QED
    BY <1>1, <1>8, <1>9, <1>11, <1>12, <1>14, <1>15, <1>16, <2>1 DEF Clears
<1>18. ClearedBy(start, net, 0)
  <2>1. Cardinality(owed) + Cardinality(owing) + 0 <= Cardinality(D)
    BY <1>8, <1>9, <1>10
  <2> QED
    BY <1>1, <1>17, <2>1 DEF ClearedBy
<1>19. start \in Matchings(D)
  <2>1. ASSUME NEW n \in Nat, NEW e \in [1..n -> [user : D, amount : Nat \ {0}]] PROVE e \in Seq(Claims(D))
    <3>1. \A x \in [user : D, amount : Nat \ {0}] : x \in Claims(D)
      BY DEF Claims
    <3>2. e \in [1..n -> Claims(D)]
      BY <3>1
    <3>3. \A E : \A f \in [1..n -> E] : f \in Seq(E)
      OBVIOUS
    <3> QED
      BY <3>2, <3>3, Zenon
  <2>2. q \in Seq(Claims(D)) /\ p \in Seq(Claims(D))
    BY <1>8, <1>9, <2>1 DEF Lists
  <2>3. start = [creditors |-> q, debtors |-> p, transfers |-> <<>>]
    BY <1>1, <1>3, <1>4, <1>7
  <2>4. <<>> \in Seq([from : D, to : D, amount : Int])
    OBVIOUS
  <2> QED
    BY <2>2, <2>3, <2>4 DEF Matchings
<1> QED
  BY <1>1, <1>18, <1>19

\* What is left in the end: of what is owed, or of what is due, or nothing.
Leaves(ts, net, cr, db, l) ==
    /\ TransfersOf(ts, l, net) /\ cr \in [DOMAIN net -> Nat] /\ db \in [DOMAIN net -> Nat]
    /\ \A m \in DOMAIN net : (cr[m] # 0 => net[m] > 0) /\ (db[m] # 0 => net[m] < 0)
    /\ SumFunction(cr) - SumFunction(db) = SumFunction(net)
    /\ \A m \in DOMAIN net : net[m] + SentIn(ts, m) = GotIn(ts, m) + (cr[m] - db[m])
    /\ l # 0 => l < Cardinality(DOMAIN net)
    /\ (\A m \in DOMAIN net : cr[m] = 0) \/ (\A m \in DOMAIN net : db[m] = 0)

LEMMA TransfersLeave ==
    ASSUME NEW net, Nets(net)
    PROVE  \E cr, db, l : Leaves(MinimalTransfers(net), net, cr, db, l)
<1>1. PICK n \in Nat : n = Cardinality(DOMAIN net)
  BY FS_CardinalityType DEF Nets
<1>2. PICK debt : debt = [m \in DOMAIN net |-> -net[m]]
  OBVIOUS
<1>3. PICK start : start = [creditors |-> Owing(net, ByAmount(net, {m \in DOMAIN net : net[m] > 0})),
                            debtors |-> Owing(debt, ByAmount(debt, {m \in DOMAIN net : debt[m] > 0})),
                            transfers |-> <<>>]
  OBVIOUS
<1>4. start \in Matchings(DOMAIN net) /\ ClearedBy(start, net, 0)
  BY <1>2, <1>3, MatchingStarts
<1>5. PICK last : last = FoldLeft(LAMBDA t, k : Transfer(t), start, [k \in 1..n |-> k])
  OBVIOUS
<1>6. ClearedBy(last, net, n)
  BY <1>1, <1>4, <1>5, MatchingEnds
<1>7. MinimalTransfers(net) = last.transfers
  BY <1>1, <1>2, <1>3, <1>5 DEF MinimalTransfers
<1>8. PICK cr, db, c, d, l : /\ Clears(last, net, cr, db, c, d, l)
                             /\ c = 0 \/ d = 0 \/ c + d + n <= n
  BY <1>1, <1>6 DEF ClearedBy
<1>9. c \in Nat /\ d \in Nat /\ cr \in [DOMAIN net -> Nat] /\ db \in [DOMAIN net -> Nat]
  BY <1>8 DEF Clears, Lists
<1>10. c = 0 \/ d = 0
  BY <1>1, <1>8, <1>9
<1>11. (\A m \in DOMAIN net : cr[m] = 0) \/ (\A m \in DOMAIN net : db[m] = 0)
  <2>1. ASSUME NEW q, NEW left, Lists(q, 0, left, DOMAIN net) PROVE \A m \in DOMAIN net : left[m] = 0
    BY <2>1 DEF Lists
  <2>2. Lists(last.creditors, c, cr, DOMAIN net) /\ Lists(last.debtors, d, db, DOMAIN net)
    BY <1>8 DEF Clears
  <2> QED
    BY <1>10, <2>1, <2>2
<1>12. Leaves(MinimalTransfers(net), net, cr, db, l)
  BY <1>7, <1>8, <1>9, <1>11 DEF Clears, Leaves
<1> QED
  BY <1>12

LEMMA NothingIsLeft ==
    ASSUME NEW D, IsFiniteSet(D), NEW f \in [D -> Nat], SumFunction(f) = 0 PROVE \A x \in D : f[x] = 0
<1>1. DOMAIN f = D /\ Restrict(f, D) = f /\ D \in SUBSET D
  BY RestrictAll
<1>2. \A x \in D : f[x] <= SumFunction(Restrict(f, D))
  BY <1>1, SumGrows
<1> QED
  BY <1>1, <1>2

\* Whatever finitely many people owe and are owed, as long as all of it together is
\* nothing: the transfers bring every balance to zero, are fewer than the people, and
\* nobody both pays and receives (minimalTransferAlgorithm.ts).
THEOREM TransfersAreRight == ASSUME NEW net, Nets(net), SumFunction(net) = 0 PROVE TransfersSettle(net)
<1>1. PICK D : D = DOMAIN net /\ IsFiniteSet(D) /\ net \in [D -> Int]
  BY DEF Nets
<1>2. PICK ts : ts = MinimalTransfers(net)
  OBVIOUS
<1>3. PICK cr, db, l : Leaves(ts, net, cr, db, l)
  BY <1>2, TransfersLeave
<1>4. /\ TransfersOf(ts, l, net) /\ cr \in [D -> Nat] /\ db \in [D -> Nat]
      /\ SumFunction(cr) - SumFunction(db) = 0
      /\ \A m \in D : net[m] + SentIn(ts, m) = GotIn(ts, m) + (cr[m] - db[m])
      /\ l # 0 => l < Cardinality(D)
      /\ (\A m \in D : cr[m] = 0) \/ (\A m \in D : db[m] = 0)
  BY <1>1, <1>3 DEF Leaves
<1>5. \A m \in D : cr[m] = 0 /\ db[m] = 0
  <2>1. SumFunction(cr) \in Nat /\ SumFunction(db) \in Nat
    BY <1>1, <1>4, SumIsNat
  <2>2. \A f \in [D -> Nat] : f \in [D -> Int]
    OBVIOUS
  <2>3. CASE \A m \in D : cr[m] = 0
    <3>1. SumFunction(cr) = 0
      BY <1>1, <1>4, <2>2, <2>3, SumZero
    <3>2. SumFunction(db) = 0
      BY <1>4, <2>1, <3>1
    <3> QED
      BY <1>1, <1>4, <2>3, <3>2, NothingIsLeft
  <2>4. CASE \A m \in D : db[m] = 0
    <3>1. SumFunction(db) = 0
      BY <1>1, <1>4, <2>2, <2>4, SumZero
    <3>2. SumFunction(cr) = 0
      BY <1>4, <2>1, <3>1
    <3> QED
      BY <1>1, <1>4, <2>4, <3>2, NothingIsLeft
  <2> QED
    BY <1>4, <2>3, <2>4
<1>6. ASSUME NEW m \in D
      PROVE  net[m] + SentIn(ts, m) = GotIn(ts, m) /\ (SentIn(ts, m) = 0 \/ GotIn(ts, m) = 0)
  <2>1. /\ SentIn(ts, m) \in Nat /\ GotIn(ts, m) \in Nat
        /\ ~(net[m] < 0) => SentIn(ts, m) = 0
        /\ ~(net[m] > 0) => GotIn(ts, m) = 0
    BY <1>1, <1>4, SentAndGot
  <2>2. net[m] \in Int /\ net[m] + SentIn(ts, m) = GotIn(ts, m) + (cr[m] - db[m])
    BY <1>1, <1>4
  <2>3. cr[m] = 0 /\ db[m] = 0
    BY <1>5
  <2> QED
    BY <2>1, <2>2, <2>3
<1>7. ASSUME D # {} PROVE Len(ts) < Cardinality(D)
  <2>1. l \in Nat /\ ts \in [1..l -> [from : D, to : D, amount : Nat \ {0}]]
    BY <1>1, <1>4 DEF TransfersOf
  <2>2. Len(ts) = l
    BY <2>1
  <2>3. Cardinality(D) \in Nat /\ Cardinality(D) # 0
    BY <1>1, <1>7, FS_EmptySet, FS_CardinalityType
  <2> QED
    BY <1>4, <2>1, <2>2, <2>3
<1> QED
  BY <1>1, <1>2, <1>6, <1>7 DEF TransfersSettle
=============================================================================

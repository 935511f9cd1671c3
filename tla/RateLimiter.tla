----------------------------- MODULE RateLimiter -----------------------------
(***************************************************************************)
(* The sliding window rate limiter (auth/rate_limiter.py): request times   *)
(* per key, in the process's memory or, if Redis answered at start-up, in  *)
(* a sorted set per key that all processes share.  A check in memory is    *)
(* one step, it contains no await; a check in Redis reads the clock, then  *)
(* awaits a pipeline that Redis executes as one transaction, later.        *)
(***************************************************************************)
EXTENDS Integers, FiniteSets

CONSTANTS
  Keys,        \* rate limit keys, one per client address
  Requests,    \* requests ever checked
  Limit,       \* rate_limit_requests
  Window,      \* rate_limit_window_seconds, in ticks of time.time()
  MaxTime,     \* bound of the clock
  MaxRestarts  \* bound of the number of restarts

ASSUME LimiterAssumption ==
  /\ IsFiniteSet(Requests)
  /\ Limit \in Nat \ {0}
  /\ Window \in Nat \ {0}
  /\ MaxTime \in Nat
  /\ MaxRestarts \in Nat

VARIABLES
  now,         \* time.time()
  restarts,
  redis,       \* _redis is set: Redis answered the ping of initialize
  local,       \* _local_cache: key -> the requests whose times are in the list
  zset,        \* Redis: key -> the times in its sorted set
  expireAt,    \* Redis: key -> when the set is dropped
  pc,          \* progress of a request
  key,         \* its key
  stamp        \* the clock reading of its check

limiter == <<now, restarts, redis, local, zset, expireAt, pc, key, stamp>>

\* "admitted" and "refused" in memory, "granted" and "denied" by Redis; what an
\* earlier process decided in memory is "forgotten".
States == {"idle", "waiting", "admitted", "refused", "granted", "denied",
           "failed", "forgotten"}

TypeOK ==
  /\ now \in 0..MaxTime
  /\ restarts \in 0..MaxRestarts
  /\ redis \in BOOLEAN
  /\ local \in [Keys -> SUBSET Requests]
  /\ zset \in [Keys -> SUBSET (0..MaxTime)]
  /\ expireAt \in [Keys -> 0..(MaxTime + Window + 1)]
  /\ pc \in [Requests -> States]
  /\ key \in [Requests -> Keys]
  /\ stamp \in [Requests -> 0..MaxTime]

LimiterInit ==
  /\ now = 0
  /\ restarts = 0
  /\ redis \in BOOLEAN
  /\ local = [k \in Keys |-> {}]
  /\ zset = [k \in Keys |-> {}]
  /\ expireAt = [k \in Keys |-> 0]
  /\ pc = [r \in Requests |-> "idle"]
  /\ key \in [Requests -> Keys]
  /\ stamp = [r \in Requests |-> 0]

-----------------------------------------------------------------------------
\* Seeded fault: a request leaves the list one tick early.
KeptBriefly(k) == {r \in local[k] : stamp[r] > now - Window + 1}

\* _check_local drops the old entries.
Kept(k) == {r \in local[k] : stamp[r] > now - Window}

\* Seeded fault: a refused request is remembered too.
RememberAlways(r) == Kept(key[r]) \cup {r}

\* What _check_local leaves in the list of the request's key.
Remember(r) ==
  IF Cardinality(Kept(key[r])) >= Limit THEN Kept(key[r]) ELSE Kept(key[r]) \cup {r}

\* check_limit without Redis: _check_local.
CheckLocal(r) ==
  /\ pc[r] = "idle"
  /\ ~redis
  /\ stamp' = [stamp EXCEPT ![r] = now]
  /\ local' = [local EXCEPT ![key[r]] = Remember(r)]
  /\ pc' = [pc EXCEPT ![r] =
       IF Cardinality(Kept(key[r])) >= Limit THEN "refused" ELSE "admitted"]
  /\ UNCHANGED <<now, restarts, redis, zset, expireAt, key>>

\* check_limit with Redis, up to the await: the clock is read.
ReadClock(r) ==
  /\ pc[r] = "idle"
  /\ redis
  /\ stamp' = [stamp EXCEPT ![r] = now]
  /\ pc' = [pc EXCEPT ![r] = "waiting"]
  /\ UNCHANGED <<now, restarts, redis, local, zset, expireAt, key>>

\* The times Redis still has for a key.
Stored(k) == IF now < expireAt[k] THEN zset[k] ELSE {}

\* ZREMRANGEBYSCORE 0..window_start leaves these for ZCARD to count.
InWindow(r) == {t \in Stored(key[r]) : t > stamp[r] - Window}

\* Seeded fault: the set is dropped before its newest time has left the window.
ExecuteBriefly(r) ==
  /\ zset' = [zset EXCEPT ![key[r]] = InWindow(r) \cup {stamp[r]}]
  /\ expireAt' = [expireAt EXCEPT ![key[r]] = now + Window - 1]

\* Redis executes the pipeline: remove, count, add (whether or not the request
\* is refused; an equal time is the same member), set the expiry.
Execute(r) ==
  /\ zset' = [zset EXCEPT ![key[r]] = InWindow(r) \cup {stamp[r]}]
  /\ expireAt' = [expireAt EXCEPT ![key[r]] = now + Window + 1]

\* The result of the pipeline arrives.
CheckRedis(r) ==
  /\ pc[r] = "waiting"
  /\ Execute(r)
  /\ pc' = [pc EXCEPT ![r] =
       IF Cardinality(InWindow(r)) >= Limit THEN "denied" ELSE "granted"]
  /\ UNCHANGED <<now, restarts, redis, local, key, stamp>>

\* The pipeline raises, executed or not: nothing catches it, the request fails.
RedisFails(r) ==
  /\ pc[r] = "waiting"
  /\ \/ Execute(r)
     \/ UNCHANGED <<zset, expireAt>>
  /\ pc' = [pc EXCEPT ![r] = "failed"]
  /\ UNCHANGED <<now, restarts, redis, local, key, stamp>>

Tick ==
  /\ now < MaxTime
  /\ now' = now + 1
  /\ UNCHANGED <<restarts, redis, local, zset, expireAt, pc, key, stamp>>

\* A new process: the list is empty, and whether Redis answers decides anew.
Restart ==
  /\ restarts < MaxRestarts
  /\ restarts' = restarts + 1
  /\ redis' \in BOOLEAN
  /\ local' = [k \in Keys |-> {}]
  /\ pc' = [r \in Requests |->
       IF pc[r] = "waiting" THEN "failed"
       ELSE IF pc[r] \in {"admitted", "refused"} THEN "forgotten"
       ELSE pc[r]]
  /\ UNCHANGED <<now, zset, expireAt, key, stamp>>

Check(r) == CheckLocal(r) \/ ReadClock(r) \/ CheckRedis(r) \/ RedisFails(r)

LimiterNext == (\E r \in Requests : Check(r)) \/ Tick \/ Restart

LimiterSpec == LimiterInit /\ [][LimiterNext]_limiter
-----------------------------------------------------------------------------
\* Requests of a key in one of some states.
Of(k, states) == {r \in Requests : key[r] = k /\ pc[r] \in states}

\* The admitted requests of a key with times in t + 1 .. t + Window.
Admitted(k, t) == {r \in Of(k, {"admitted"}) : stamp[r] \in (t + 1)..(t + Window)}

\* "limit: Maximum requests allowed in window" (rate_limiter.py:50), of one process
\* that counts in memory: no window of the clock, wherever it starts, has more
\* than Limit admitted requests of a key.
WindowBound ==
  \A k \in Keys, t \in (0 - Window)..MaxTime : Cardinality(Admitted(k, t)) <= Limit

\* The different times at which requests of a key were granted in the last Window ticks.
GrantTimes(k) == {stamp[r] : r \in {q \in Of(k, {"granted"}) : stamp[q] > now - Window}}

\* Through Redis, whatever the processes, the order in which pipelines arrive and
\* the restarts: at any moment the last Window ticks have at most Limit different
\* times with a granted request.  (Requests with equal times are one member of the
\* set, which is why times are counted and not requests.)
GrantsInWindow == \A k \in Keys : Cardinality(GrantTimes(k)) <= Limit

\* The admitted requests that were within a window when r was checked.
Blockers(r) ==
  {q \in Of(key[r], {"admitted"}) : stamp[q] \in (stamp[r] - Window + 1)..stamp[r]}

\* The times of other requests that Redis saw, newer than one window before r.
SeenTimes(r) ==
  {stamp[q] : q \in {p \in Of(key[r], {"granted", "denied", "failed"}) \ {r} :
                       stamp[p] > stamp[r] - Window}}

\* A request is turned away only for Limit others of its key within one window
\* before it: admitted ones in memory, any that Redis saw in Redis.  So a client
\* that stays away for the time of "Retry-After" (dependencies.py:124) is let in.
RefusalsAreEarned ==
  \A r \in Requests :
    /\ pc[r] = "refused" => Cardinality(Blockers(r)) >= Limit
    /\ pc[r] = "denied" => Cardinality(SeenTimes(r)) >= Limit
=============================================================================

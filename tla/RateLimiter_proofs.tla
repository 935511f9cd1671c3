-------------------------- MODULE RateLimiter_proofs --------------------------
(***************************************************************************)
(* Theorems about RateLimiter, for any number of requests, clients and     *)
(* restarts, any limit and any window.                                     *)
(***************************************************************************)
EXTENDS RateLimiter, FiniteSetTheorems, TLAPS

\* No state holds a clock reading of the future.
StampsArePast == \A r \in Requests : stamp[r] <= now

\* The list of a key holds its admitted requests, the newest ones at least.
LocalHoldsRecent ==
  \A k \in Keys :
    /\ local[k] \subseteq Of(k, {"admitted"})
    /\ \A r \in Of(k, {"admitted"}) : stamp[r] > now - Window => r \in local[k]

\* What Redis decided or may have recorded.
Seen == {"granted", "denied", "failed"}

\* The set of a key holds times of requests it saw, those of the last granted
\* ones at least, and is not dropped before these are old.
ZsetHoldsRecent ==
  \A k \in Keys :
    /\ zset[k] \subseteq {stamp[r] : r \in Of(k, Seen)}
    /\ \A r \in Of(k, {"granted"}) :
         /\ stamp[r] > now - Window => stamp[r] \in zset[k]
         /\ stamp[r] + Window < expireAt[k]

IInv == /\ TypeOK /\ StampsArePast /\ LocalHoldsRecent /\ ZsetHoldsRecent
        /\ WindowBound /\ GrantsInWindow /\ RefusalsAreEarned

-----------------------------------------------------------------------------
\* Sets of requests and of their times are finite, and a smaller set counts less.
LEMMA RequestSets ==
  /\ \A S \in SUBSET Requests : IsFiniteSet(S) /\ Cardinality(S) \in Nat
  /\ \A S \in SUBSET Requests, T \in SUBSET Requests :
       S \subseteq T => Cardinality(S) <= Cardinality(T)
BY LimiterAssumption, FS_Subset, FS_CardinalityType

LEMMA TimeSets ==
  ASSUME NEW n \in Nat
  PROVE  /\ \A S \in SUBSET (0..n) : IsFiniteSet(S) /\ Cardinality(S) \in Nat
         /\ \A S \in SUBSET (0..n), T \in SUBSET (0..n) :
              S \subseteq T => Cardinality(S) <= Cardinality(T)
<1>1. IsFiniteSet(0..n)
  BY FS_Interval
<1>2. QED
  BY <1>1, FS_Subset, FS_CardinalityType

LEMMA OneMore ==
  ASSUME NEW S, IsFiniteSet(S), NEW x
  PROVE  IsFiniteSet(S \cup {x}) /\ Cardinality(S \cup {x}) <= Cardinality(S) + 1
<1>1. Cardinality(S) \in Nat
  BY FS_CardinalityType
<1>2. QED
  BY <1>1, FS_AddElement

LEMMA InitHolds == LimiterInit => IInv
<1>1. SUFFICES ASSUME LimiterInit
               PROVE  IInv
  OBVIOUS
<1>2. \A k \in Keys : /\ Of(k, {"admitted"}) = {} /\ Of(k, {"granted"}) = {}
  BY <1>1 DEF LimiterInit, Of
<1>3. TypeOK
  BY <1>1, LimiterAssumption DEF LimiterInit, TypeOK, States
<1>4. StampsArePast
  BY <1>1 DEF LimiterInit, StampsArePast
<1>5. LocalHoldsRecent /\ ZsetHoldsRecent
  BY <1>1, <1>2 DEF LimiterInit, LocalHoldsRecent, ZsetHoldsRecent
<1>6. WindowBound
  <2>1. SUFFICES ASSUME NEW k \in Keys, NEW t \in (0 - Window)..MaxTime
                 PROVE  Cardinality(Admitted(k, t)) <= Limit
    BY DEF WindowBound
  <2>2. Cardinality(Admitted(k, t)) = 0
    BY <1>2, FS_EmptySet DEF Admitted
  <2>3. QED
    BY <2>2, LimiterAssumption
<1>7. GrantsInWindow
  <2>1. SUFFICES ASSUME NEW k \in Keys
                 PROVE  Cardinality(GrantTimes(k)) <= Limit
    BY DEF GrantsInWindow
  <2>2. Cardinality(GrantTimes(k)) = 0
    BY <1>2, FS_EmptySet DEF GrantTimes
  <2>3. QED
    BY <2>2, LimiterAssumption
<1>8. RefusalsAreEarned
  BY <1>1 DEF LimiterInit, RefusalsAreEarned
<1>9. QED
  BY <1>3, <1>4, <1>5, <1>6, <1>7, <1>8 DEF IInv

-----------------------------------------------------------------------------
\* The invariant is kept: what an action leaves alone.
LEMMA TypeStep == TypeOK /\ LimiterNext => TypeOK'
<1>1. SUFFICES ASSUME TypeOK, LimiterNext
               PROVE  TypeOK'
  OBVIOUS
<1>2. ASSUME NEW r \in Requests, CheckLocal(r)
      PROVE  TypeOK'
  BY <1>1, <1>2 DEF TypeOK, States, CheckLocal, Remember, Kept
<1>3. ASSUME NEW r \in Requests, ReadClock(r)
      PROVE  TypeOK'
  BY <1>1, <1>3 DEF TypeOK, States, ReadClock
<1>4. ASSUME NEW r \in Requests, Execute(r)
      PROVE  /\ zset' \in [Keys -> SUBSET (0..MaxTime)]
             /\ expireAt' \in [Keys -> 0..(MaxTime + Window + 1)]
  BY <1>1, <1>4, LimiterAssumption DEF TypeOK, Execute, InWindow, Stored
<1>5. ASSUME NEW r \in Requests, CheckRedis(r) \/ RedisFails(r)
      PROVE  TypeOK'
  BY <1>1, <1>4, <1>5 DEF TypeOK, States, CheckRedis, RedisFails
<1>6. CASE Tick \/ Restart
  BY <1>1, <1>6, LimiterAssumption DEF TypeOK, States, Tick, Restart
<1>7. QED
  BY <1>1, <1>2, <1>3, <1>5, <1>6 DEF LimiterNext, Check

LEMMA StampsStep == TypeOK /\ StampsArePast /\ LimiterNext => StampsArePast'
  BY LimiterAssumption
  DEF TypeOK, StampsArePast, LimiterNext, Check, CheckLocal, ReadClock, CheckRedis,
      RedisFails, Tick, Restart

LEMMA LocalStep ==
  TypeOK /\ StampsArePast /\ LocalHoldsRecent /\ LimiterNext => LocalHoldsRecent'
<1>1. SUFFICES ASSUME TypeOK, StampsArePast, LocalHoldsRecent, LimiterNext,
                      NEW k \in Keys
               PROVE  /\ local'[k] \subseteq Of(k, {"admitted"})'
                      /\ \A r \in Of(k, {"admitted"})' :
                           stamp'[r] > now' - Window => r \in local'[k]
  BY DEF LocalHoldsRecent
<1>2. /\ local[k] \subseteq Of(k, {"admitted"})
      /\ \A r \in Of(k, {"admitted"}) : stamp[r] > now - Window => r \in local[k]
  BY <1>1 DEF LocalHoldsRecent
<1>3. ASSUME NEW r \in Requests, CheckLocal(r)
      PROVE  /\ local'[k] \subseteq Of(k, {"admitted"})'
             /\ \A q \in Of(k, {"admitted"})' :
                  stamp'[q] > now' - Window => q \in local'[k]
  <2>1. CASE key[r] # k
    BY <1>1, <1>2, <1>3, <2>1 DEF TypeOK, CheckLocal, Of
  <2>2. CASE key[r] = k /\ Cardinality(Kept(k)) >= Limit
    BY <1>1, <1>2, <1>3, <2>2 DEF TypeOK, CheckLocal, Remember, Kept, Of
  <2>3. CASE key[r] = k /\ ~ (Cardinality(Kept(k)) >= Limit)
    BY <1>1, <1>2, <1>3, <2>3 DEF TypeOK, CheckLocal, Remember, Kept, Of
  <2>4. QED
    BY <2>1, <2>2, <2>3
<1>4. ASSUME NEW r \in Requests, ReadClock(r) \/ CheckRedis(r) \/ RedisFails(r)
      PROVE  /\ local'[k] \subseteq Of(k, {"admitted"})'
             /\ \A q \in Of(k, {"admitted"})' :
                  stamp'[q] > now' - Window => q \in local'[k]
  BY <1>1, <1>2, <1>4 DEF TypeOK, ReadClock, CheckRedis, RedisFails, Of
<1>5. CASE Tick
  BY <1>1, <1>2, <1>5, LimiterAssumption DEF TypeOK, Tick, Of
<1>6. CASE Restart
  BY <1>1, <1>6 DEF TypeOK, Restart, Of
<1>7. QED
  BY <1>1, <1>3, <1>4, <1>5, <1>6 DEF LimiterNext, Check

LEMMA ZsetStep ==
  TypeOK /\ StampsArePast /\ ZsetHoldsRecent /\ LimiterNext => ZsetHoldsRecent'
<1>1. SUFFICES ASSUME TypeOK, StampsArePast, ZsetHoldsRecent, LimiterNext
               PROVE  ZsetHoldsRecent'
  OBVIOUS
<1>2. \A k \in Keys :
        /\ \A t \in zset[k] : \E q \in Requests :
             key[q] = k /\ pc[q] \in Seen /\ stamp[q] = t
        /\ \A q \in Requests : key[q] = k /\ pc[q] = "granted" =>
             /\ stamp[q] > now - Window => stamp[q] \in zset[k]
             /\ stamp[q] + Window < expireAt[k]
  BY <1>1 DEF ZsetHoldsRecent, Of
<1>3. ASSUME \A k \in Keys :
        /\ \A t \in zset'[k] : \E q \in Requests :
             key'[q] = k /\ pc'[q] \in Seen /\ stamp'[q] = t
        /\ \A q \in Requests : key'[q] = k /\ pc'[q] = "granted" =>
             /\ stamp'[q] > now' - Window => stamp'[q] \in zset'[k]
             /\ stamp'[q] + Window < expireAt'[k]
      PROVE  ZsetHoldsRecent'
  BY <1>3 DEF ZsetHoldsRecent, Of
<1>4. ASSUME NEW r \in Requests, CheckLocal(r) \/ ReadClock(r)
      PROVE  ZsetHoldsRecent'
  BY <1>1, <1>2, <1>3, <1>4 DEF TypeOK, CheckLocal, ReadClock, Seen
<1>5. ASSUME NEW r \in Requests, pc[r] = "waiting", pc' = [pc EXCEPT ![r] = "failed"],
             UNCHANGED <<zset, expireAt, now, key, stamp>>
      PROVE  ZsetHoldsRecent'
  BY <1>1, <1>2, <1>3, <1>5 DEF TypeOK, Seen
<1>6. ASSUME NEW r \in Requests, NEW s \in Seen, pc[r] = "waiting", Execute(r),
             pc' = [pc EXCEPT ![r] = s], UNCHANGED <<now, key, stamp>>
      PROVE  ZsetHoldsRecent'
  <2> SUFFICES ASSUME NEW k \in Keys
               PROVE  /\ \A t \in zset'[k] : \E q \in Requests :
                           key'[q] = k /\ pc'[q] \in Seen /\ stamp'[q] = t
                      /\ \A q \in Requests : key'[q] = k /\ pc'[q] = "granted" =>
                           /\ stamp'[q] > now' - Window => stamp'[q] \in zset'[k]
                           /\ stamp'[q] + Window < expireAt'[k]
    BY <1>3
  <2>1. /\ pc'[r] = s /\ \A q \in Requests : q # r => pc'[q] = pc[q]
        /\ now' = now /\ key' = key /\ stamp' = stamp
    BY <1>1, <1>6 DEF TypeOK
  <2>2. CASE key[r] # k
    <3>1. zset'[k] = zset[k] /\ expireAt'[k] = expireAt[k]
      BY <1>1, <1>6, <2>2 DEF TypeOK, Execute
    <3>2. QED
      BY <1>2, <1>6, <2>1, <2>2, <3>1
  <2>3. CASE key[r] = k
    <3>1. /\ zset'[k] = InWindow(r) \cup {stamp[r]}
          /\ expireAt'[k] = now + Window + 1
      BY <1>1, <1>6, <2>3 DEF TypeOK, Execute
    <3>2. InWindow(r) \subseteq zset[k]
      BY <2>3 DEF InWindow, Stored
    <3>3. ASSUME NEW t \in zset'[k]
          PROVE  \E q \in Requests : key'[q] = k /\ pc'[q] \in Seen /\ stamp'[q] = t
      BY <1>2, <1>6, <2>1, <2>3, <3>1, <3>2, <3>3
    <3>4. ASSUME NEW q \in Requests, key[q] = k, pc'[q] = "granted"
          PROVE  stamp[q] + Window < expireAt'[k]
      BY <1>1, <3>1, LimiterAssumption DEF TypeOK, StampsArePast
    <3>5. ASSUME NEW q \in Requests, key[q] = k, pc'[q] = "granted",
                 stamp[q] > now - Window, q # r
          PROVE  stamp[q] \in InWindow(r)
      <4>1. /\ stamp[q] \in zset[k] /\ stamp[q] + Window < expireAt[k]
            /\ stamp[r] <= now /\ stamp[q] <= now
        BY <1>1, <1>2, <2>1, <3>5 DEF StampsArePast
      <4>2. now < expireAt[k] /\ stamp[q] > stamp[r] - Window
        BY <1>1, <3>5, <4>1, LimiterAssumption DEF TypeOK
      <4>3. QED
        BY <2>3, <4>1, <4>2 DEF InWindow, Stored
    <3>6. QED
      BY <2>1, <3>1, <3>3, <3>4, <3>5
  <2>4. QED
    BY <2>2, <2>3
<1>7. ASSUME NEW r \in Requests, CheckRedis(r) \/ RedisFails(r)
      PROVE  ZsetHoldsRecent'
  BY <1>5, <1>6, <1>7 DEF CheckRedis, RedisFails, Seen
<1>8. CASE Tick
  BY <1>1, <1>2, <1>3, <1>8, LimiterAssumption DEF TypeOK, Tick
<1>9. CASE Restart
  <2>1. \A q \in Requests : /\ pc[q] \in Seen => pc'[q] \in Seen
                            /\ pc'[q] = "granted" => pc[q] = "granted"
    BY <1>1, <1>9 DEF TypeOK, Restart, Seen
  <2>2. QED
    BY <1>2, <1>3, <1>9, <2>1 DEF Restart
<1>10. QED
  BY <1>1, <1>4, <1>7, <1>8, <1>9 DEF LimiterNext, Check

-----------------------------------------------------------------------------
\* In memory a request is admitted only if fewer than Limit others are still in
\* any window that ends at its time.
LEMMA WindowStep ==
  TypeOK /\ StampsArePast /\ LocalHoldsRecent /\ WindowBound /\ LimiterNext
    => WindowBound'
<1>1. SUFFICES ASSUME TypeOK, StampsArePast, LocalHoldsRecent, WindowBound, LimiterNext,
                      NEW k \in Keys, NEW t \in (0 - Window)..MaxTime
               PROVE  Cardinality(Admitted(k, t)') <= Limit
  BY DEF WindowBound
<1>2. Cardinality(Admitted(k, t)) <= Limit
  BY <1>1 DEF WindowBound
<1>3. Admitted(k, t) \in SUBSET Requests /\ Admitted(k, t)' \in SUBSET Requests
  BY DEF Admitted, Of
<1>4. ASSUME Admitted(k, t)' \subseteq Admitted(k, t)
      PROVE  Cardinality(Admitted(k, t)') <= Limit
  <2>1. /\ Cardinality(Admitted(k, t)') <= Cardinality(Admitted(k, t))
        /\ Cardinality(Admitted(k, t)') \in Nat /\ Cardinality(Admitted(k, t)) \in Nat
    BY <1>3, <1>4, RequestSets
  <2>2. QED
    BY <1>2, <2>1, LimiterAssumption
<1>5. ASSUME NEW r \in Requests, CheckLocal(r)
      PROVE  Cardinality(Admitted(k, t)') <= Limit
  <2>1. /\ pc'[r] = IF Cardinality(Kept(key[r])) >= Limit THEN "refused" ELSE "admitted"
        /\ pc[r] = "idle" /\ stamp'[r] = now /\ key' = key
        /\ \A q \in Requests : q # r => pc'[q] = pc[q] /\ stamp'[q] = stamp[q]
    BY <1>1, <1>5 DEF TypeOK, CheckLocal
  <2>2. Admitted(k, t)' \subseteq Admitted(k, t) \cup {r}
    BY <2>1 DEF Admitted, Of
  <2>3. CASE r \notin Admitted(k, t)'
    BY <1>4, <2>2, <2>3
  <2>4. CASE r \in Admitted(k, t)'
    <3>1. /\ key[r] = k /\ now \in (t + 1)..(t + Window)
          /\ ~ (Cardinality(Kept(k)) >= Limit)
      BY <2>1, <2>4 DEF Admitted, Of
    <3>2. Admitted(k, t) \subseteq Kept(k)
      <4>1. SUFFICES ASSUME NEW q \in Admitted(k, t)
                     PROVE  q \in Kept(k)
        OBVIOUS
      <4>2. /\ q \in Of(k, {"admitted"}) /\ stamp[q] > now - Window
        BY <1>1, <3>1, <4>1, LimiterAssumption DEF Admitted, TypeOK
      <4>3. QED
        BY <1>1, <4>2 DEF LocalHoldsRecent, Kept
    <3>3. Kept(k) \in SUBSET Requests
      BY <1>1 DEF TypeOK, Kept
    <3>4. /\ Cardinality(Admitted(k, t)) <= Cardinality(Kept(k))
          /\ Cardinality(Admitted(k, t)) \in Nat /\ Cardinality(Kept(k)) \in Nat
          /\ IsFiniteSet(Admitted(k, t))
      BY <1>3, <3>2, <3>3, RequestSets
    <3>5. /\ IsFiniteSet(Admitted(k, t) \cup {r})
          /\ Cardinality(Admitted(k, t) \cup {r}) <= Cardinality(Admitted(k, t)) + 1
      BY <3>4, OneMore
    <3>6. /\ Cardinality(Admitted(k, t)') <= Cardinality(Admitted(k, t) \cup {r})
          /\ Cardinality(Admitted(k, t)') \in Nat
          /\ Cardinality(Admitted(k, t) \cup {r}) \in Nat
      BY <1>3, <2>2, RequestSets
    <3>7. QED
      BY <3>1, <3>4, <3>5, <3>6, LimiterAssumption
  <2>5. QED
    BY <2>3, <2>4
<1>6. CASE Tick
  BY <1>2, <1>6 DEF Tick, Admitted, Of
<1>7. CASE Restart \/ \E r \in Requests : ReadClock(r) \/ CheckRedis(r) \/ RedisFails(r)
  <2>1. Admitted(k, t)' \subseteq Admitted(k, t)
    BY <1>1, <1>7
    DEF TypeOK, Restart, ReadClock, CheckRedis, RedisFails, Admitted, Of
  <2>2. QED
    BY <1>4, <2>1
<1>8. QED
  BY <1>1, <1>5, <1>6, <1>7 DEF LimiterNext, Check

\* Through Redis a request is granted only if fewer than Limit times are in its window.
LEMMA GrantStep ==
  TypeOK /\ StampsArePast /\ ZsetHoldsRecent /\ GrantsInWindow /\ LimiterNext
    => GrantsInWindow'
<1>1. SUFFICES ASSUME TypeOK, StampsArePast, ZsetHoldsRecent, GrantsInWindow, LimiterNext,
                      NEW k \in Keys
               PROVE  Cardinality(GrantTimes(k)') <= Limit
  BY DEF GrantsInWindow
<1>2. Cardinality(GrantTimes(k)) <= Limit
  BY <1>1 DEF GrantsInWindow
<1>3. MaxTime \in Nat /\ GrantTimes(k) \in SUBSET (0..MaxTime)
  BY <1>1, LimiterAssumption DEF GrantTimes, Of, TypeOK
<1>4. TypeOK' /\ GrantTimes(k)' \in SUBSET (0..MaxTime)
  <2>1. TypeOK'
    BY <1>1, TypeStep
  <2>2. QED
    BY <2>1 DEF GrantTimes, Of, TypeOK
<1>5. ASSUME GrantTimes(k)' \subseteq GrantTimes(k)
      PROVE  Cardinality(GrantTimes(k)') <= Limit
  <2>1. /\ Cardinality(GrantTimes(k)') <= Cardinality(GrantTimes(k))
        /\ Cardinality(GrantTimes(k)') \in Nat /\ Cardinality(GrantTimes(k)) \in Nat
    BY <1>3, <1>4, <1>5, TimeSets
  <2>2. QED
    BY <1>2, <2>1, LimiterAssumption
<1>6. ASSUME NEW r \in Requests, CheckRedis(r)
      PROVE  Cardinality(GrantTimes(k)') <= Limit
  <2>1. /\ pc'[r] = IF Cardinality(InWindow(r)) >= Limit THEN "denied" ELSE "granted"
        /\ pc[r] = "waiting" /\ now' = now /\ key' = key /\ stamp' = stamp
        /\ \A q \in Requests : q # r => pc'[q] = pc[q]
    BY <1>1, <1>6 DEF TypeOK, CheckRedis
  <2>2. CASE ~ (key[r] = k /\ pc'[r] = "granted")
    <3>1. GrantTimes(k)' \subseteq GrantTimes(k)
      BY <2>1, <2>2 DEF GrantTimes, Of
    <3>2. QED
      BY <1>5, <3>1
  <2>3. CASE key[r] = k /\ pc'[r] = "granted"
    <3>1. ~ (Cardinality(InWindow(r)) >= Limit)
      BY <2>1, <2>3
    <3>2. InWindow(r) \in SUBSET (0..MaxTime)
      BY <1>1, <2>3 DEF InWindow, Stored, TypeOK
    <3>3. GrantTimes(k) \subseteq InWindow(r)
      <4>1. SUFFICES ASSUME NEW q \in Of(k, {"granted"}), stamp[q] > now - Window
                     PROVE  stamp[q] \in InWindow(r)
        BY DEF GrantTimes
      <4>2. /\ stamp[q] \in zset[k] /\ stamp[q] + Window < expireAt[k]
            /\ q \in Requests
        BY <1>1, <4>1 DEF ZsetHoldsRecent, Of
      <4>3. stamp[q] <= now /\ stamp[r] <= now
        BY <1>1, <4>2 DEF StampsArePast
      <4>4. now < expireAt[k] /\ stamp[q] > stamp[r] - Window
        BY <1>1, <4>1, <4>2, <4>3, LimiterAssumption DEF TypeOK
      <4>5. QED
        BY <2>3, <4>2, <4>4 DEF InWindow, Stored
    <3>4. GrantTimes(k)' \subseteq InWindow(r) \cup {stamp[r]}
      BY <2>1, <3>3 DEF GrantTimes, Of
    <3>5. /\ Cardinality(InWindow(r)) \in Nat /\ IsFiniteSet(InWindow(r))
          /\ InWindow(r) \cup {stamp[r]} \in SUBSET (0..MaxTime)
      BY <1>1, <1>3, <3>2, TimeSets DEF TypeOK
    <3>6. Cardinality(InWindow(r) \cup {stamp[r]}) <= Cardinality(InWindow(r)) + 1
      BY <3>5, OneMore
    <3>7. /\ Cardinality(GrantTimes(k)') <= Cardinality(InWindow(r) \cup {stamp[r]})
          /\ Cardinality(GrantTimes(k)') \in Nat
          /\ Cardinality(InWindow(r) \cup {stamp[r]}) \in Nat
      BY <1>3, <1>4, <3>4, <3>5, TimeSets
    <3>8. QED
      BY <3>1, <3>5, <3>6, <3>7, LimiterAssumption
  <2>4. QED
    BY <2>2, <2>3
<1>7. CASE Tick
  <2>1. GrantTimes(k)' \subseteq GrantTimes(k)
    BY <1>1, <1>7, LimiterAssumption DEF TypeOK, Tick, GrantTimes, Of
  <2>2. QED
    BY <1>5, <2>1
<1>8. CASE Restart \/ \E r \in Requests : CheckLocal(r) \/ ReadClock(r) \/ RedisFails(r)
  <2>1. \A q \in Requests : pc'[q] = "granted" =>
          pc[q] = "granted" /\ key'[q] = key[q] /\ stamp'[q] = stamp[q] /\ now' = now
    BY <1>1, <1>8 DEF TypeOK, Restart, CheckLocal, ReadClock, RedisFails
  <2>2. GrantTimes(k)' \subseteq GrantTimes(k)
    BY <2>1 DEF GrantTimes, Of
  <2>3. QED
    BY <1>5, <2>2
<1>9. QED
  BY <1>1, <1>6, <1>7, <1>8 DEF LimiterNext, Check

-----------------------------------------------------------------------------
\* What made a refusal stays: a decided request keeps its time and its verdict.
LEMMA RefusalStep ==
  TypeOK /\ StampsArePast /\ LocalHoldsRecent /\ ZsetHoldsRecent /\ RefusalsAreEarned
    /\ LimiterNext => RefusalsAreEarned'
<1>1. SUFFICES ASSUME TypeOK, StampsArePast, LocalHoldsRecent, ZsetHoldsRecent,
                      RefusalsAreEarned, LimiterNext, NEW r \in Requests
               PROVE  /\ pc'[r] = "refused" => Cardinality(Blockers(r)') >= Limit
                      /\ pc'[r] = "denied" => Cardinality(SeenTimes(r)') >= Limit
  BY DEF RefusalsAreEarned
<1>2. /\ pc[r] = "refused" => Cardinality(Blockers(r)) >= Limit
      /\ pc[r] = "denied" => Cardinality(SeenTimes(r)) >= Limit
  BY <1>1 DEF RefusalsAreEarned
<1>3. TypeOK'
  BY <1>1, TypeStep
<1>4. /\ Blockers(r) \in SUBSET Requests /\ Blockers(r)' \in SUBSET Requests
      /\ SeenTimes(r) \in SUBSET (0..MaxTime) /\ SeenTimes(r)' \in SUBSET (0..MaxTime)
      /\ MaxTime \in Nat
  BY <1>1, <1>3, LimiterAssumption DEF TypeOK, Blockers, SeenTimes, Of
<1>5. ASSUME Blockers(r) \subseteq Blockers(r)', pc[r] = "refused"
      PROVE  Cardinality(Blockers(r)') >= Limit
  <2>1. /\ Cardinality(Blockers(r)) <= Cardinality(Blockers(r)')
        /\ Cardinality(Blockers(r)) \in Nat /\ Cardinality(Blockers(r)') \in Nat
    BY <1>4, <1>5, RequestSets
  <2>2. QED
    BY <1>2, <1>5, <2>1, LimiterAssumption
<1>6. ASSUME SeenTimes(r) \subseteq SeenTimes(r)', pc[r] = "denied"
      PROVE  Cardinality(SeenTimes(r)') >= Limit
  <2>1. /\ Cardinality(SeenTimes(r)) <= Cardinality(SeenTimes(r)')
        /\ Cardinality(SeenTimes(r)) \in Nat /\ Cardinality(SeenTimes(r)') \in Nat
    BY <1>4, <1>6, TimeSets
  <2>2. QED
    BY <1>2, <1>6, <2>1, LimiterAssumption
<1>7. ASSUME pc[r] \notin {"idle", "waiting"}, key' = key,
             \A q \in Requests : pc[q] \notin {"idle", "waiting"} =>
               pc'[q] = pc[q] /\ stamp'[q] = stamp[q]
      PROVE  /\ pc'[r] = "refused" => Cardinality(Blockers(r)') >= Limit
             /\ pc'[r] = "denied" => Cardinality(SeenTimes(r)') >= Limit
  <2>1. Blockers(r) \subseteq Blockers(r)'
    BY <1>7 DEF Blockers, Of
  <2>2. SeenTimes(r) \subseteq SeenTimes(r)'
    <3>1. \A q \in Requests : pc[q] \in {"granted", "denied", "failed"} =>
            pc'[q] = pc[q] /\ stamp'[q] = stamp[q]
      BY <1>7
    <3>2. stamp'[r] = stamp[r]
      BY <1>7
    <3>3. QED
      BY <1>7, <3>1, <3>2 DEF SeenTimes, Of
  <2>3. QED
    BY <1>5, <1>6, <1>7, <2>1, <2>2
<1>8. ASSUME NEW p \in Requests, Check(p), p # r
      PROVE  /\ pc'[r] = "refused" => Cardinality(Blockers(r)') >= Limit
             /\ pc'[r] = "denied" => Cardinality(SeenTimes(r)') >= Limit
  <2>1. /\ pc[p] \in {"idle", "waiting"} /\ key' = key
        /\ \A q \in Requests : q # p => pc'[q] = pc[q] /\ stamp'[q] = stamp[q]
    BY <1>1, <1>8
    DEF TypeOK, Check, CheckLocal, ReadClock, CheckRedis, RedisFails
  <2>2. QED
    BY <1>7, <1>8, <2>1
<1>9. CASE CheckLocal(r)
  <2>1. /\ pc'[r] = IF Cardinality(Kept(key[r])) >= Limit THEN "refused" ELSE "admitted"
        /\ pc[r] = "idle" /\ stamp'[r] = now /\ key' = key
        /\ \A q \in Requests : q # r => pc'[q] = pc[q] /\ stamp'[q] = stamp[q]
    BY <1>1, <1>9 DEF TypeOK, CheckLocal
  <2>2. SUFFICES ASSUME Cardinality(Kept(key[r])) >= Limit
                 PROVE  Cardinality(Blockers(r)') >= Limit
    BY <2>1
  <2>3. Kept(key[r]) \subseteq Blockers(r)'
    <3>1. SUFFICES ASSUME NEW q \in Kept(key[r])
                   PROVE  q \in Blockers(r)'
      OBVIOUS
    <3>2. /\ q \in Requests /\ key[q] = key[r] /\ pc[q] = "admitted" /\ q # r
          /\ stamp[q] > now - Window /\ stamp[q] <= now
      BY <1>1, <2>1, <3>1 DEF TypeOK, LocalHoldsRecent, Kept, Of, StampsArePast
    <3>3. stamp'[q] \in (stamp'[r] - Window + 1)..stamp'[r]
      BY <1>1, <2>1, <3>2, LimiterAssumption DEF TypeOK
    <3>4. QED
      BY <2>1, <3>2, <3>3 DEF Blockers, Of
  <2>4. Kept(key[r]) \in SUBSET Requests
    BY <1>1 DEF TypeOK, Kept
  <2>5. /\ Cardinality(Kept(key[r])) <= Cardinality(Blockers(r)')
        /\ Cardinality(Kept(key[r])) \in Nat /\ Cardinality(Blockers(r)') \in Nat
    BY <1>4, <2>3, <2>4, RequestSets
  <2>6. QED
    BY <2>2, <2>5, LimiterAssumption
<1>10. CASE CheckRedis(r)
  <2>1. /\ pc'[r] = IF Cardinality(InWindow(r)) >= Limit THEN "denied" ELSE "granted"
        /\ pc[r] = "waiting" /\ stamp' = stamp /\ key' = key
        /\ \A q \in Requests : q # r => pc'[q] = pc[q]
    BY <1>1, <1>10 DEF TypeOK, CheckRedis
  <2>2. SUFFICES ASSUME Cardinality(InWindow(r)) >= Limit
                 PROVE  Cardinality(SeenTimes(r)') >= Limit
    BY <2>1
  <2>3. InWindow(r) \subseteq SeenTimes(r)'
    <3>1. SUFFICES ASSUME NEW u \in InWindow(r)
                   PROVE  u \in SeenTimes(r)'
      OBVIOUS
    <3>2. u \in zset[key[r]] /\ u > stamp[r] - Window
      BY <3>1 DEF InWindow, Stored
    <3>3. PICK q \in Requests : key[q] = key[r] /\ pc[q] \in Seen /\ stamp[q] = u
      BY <1>1, <3>2 DEF TypeOK, ZsetHoldsRecent, Of
    <3>4. q # r
      BY <2>1, <3>3 DEF Seen
    <3>5. QED
      BY <2>1, <3>2, <3>3, <3>4 DEF SeenTimes, Of, Seen
  <2>4. InWindow(r) \in SUBSET (0..MaxTime)
    BY <1>1 DEF TypeOK, InWindow, Stored
  <2>5. /\ Cardinality(InWindow(r)) <= Cardinality(SeenTimes(r)')
        /\ Cardinality(InWindow(r)) \in Nat /\ Cardinality(SeenTimes(r)') \in Nat
    BY <1>4, <2>3, <2>4, TimeSets
  <2>6. QED
    BY <2>2, <2>5, LimiterAssumption
<1>11. CASE ReadClock(r) \/ RedisFails(r)
  BY <1>1, <1>11 DEF TypeOK, ReadClock, RedisFails
<1>12. CASE Tick
  BY <1>2, <1>12 DEF Tick, Blockers, SeenTimes, Of
<1>13. CASE Restart
  <2>1. pc'[r] # "refused"
    BY <1>1, <1>13 DEF TypeOK, Restart
  <2>2. /\ pc'[r] = "denied" => pc[r] = "denied"
        /\ \A q \in Requests : pc[q] \in Seen => pc'[q] \in Seen
        /\ key' = key /\ stamp' = stamp
    BY <1>1, <1>13 DEF TypeOK, Restart, Seen
  <2>3. SeenTimes(r) \subseteq SeenTimes(r)'
    BY <2>2 DEF SeenTimes, Of, Seen
  <2>4. QED
    BY <1>6, <2>1, <2>2, <2>3
<1>14. QED
  BY <1>1, <1>8, <1>9, <1>10, <1>11, <1>12, <1>13 DEF LimiterNext, Check

-----------------------------------------------------------------------------
LEMMA Stutters == IInv /\ UNCHANGED limiter => IInv'
<1>1. SUFFICES ASSUME IInv, UNCHANGED limiter
               PROVE  IInv'
  OBVIOUS
<1>2. TypeOK' /\ StampsArePast'
  BY <1>1 DEF IInv, limiter, TypeOK, StampsArePast
<1>3. LocalHoldsRecent' /\ ZsetHoldsRecent'
  BY <1>1 DEF IInv, limiter, LocalHoldsRecent, ZsetHoldsRecent, Of
<1>4. WindowBound' /\ GrantsInWindow'
  BY <1>1 DEF IInv, limiter, WindowBound, GrantsInWindow, Admitted, GrantTimes, Of
<1>5. RefusalsAreEarned'
  BY <1>1 DEF IInv, limiter, RefusalsAreEarned, Blockers, SeenTimes, Of
<1>6. QED
  BY <1>2, <1>3, <1>4, <1>5 DEF IInv

LEMMA InvariantHolds == LimiterSpec => []IInv
<1>1. IInv /\ [LimiterNext]_limiter => IInv'
  <2>1. IInv /\ LimiterNext => IInv'
    BY TypeStep, StampsStep, LocalStep, ZsetStep, WindowStep, GrantStep, RefusalStep
    DEF IInv
  <2>2. QED
    BY <2>1, Stutters
<1>2. QED
  BY InitHolds, <1>1, PTL DEF LimiterSpec

\* The variables of the rate limiter keep their types.
THEOREM LimiterTypes == LimiterSpec => []TypeOK
  BY InvariantHolds, PTL DEF IInv

\* A process that counts in memory never admits more than Limit requests of a
\* client in any window (rate_limiter.py:93), whatever the limit and the window.
THEOREM LimitIsKept == LimiterSpec => []WindowBound
  BY InvariantHolds, PTL DEF IInv

\* Through Redis at most Limit times of a client are granted in a window, in
\* whatever order pipelines arrive and fail (rate_limiter.py:64).
THEOREM GrantsAreBounded == LimiterSpec => []GrantsInWindow
  BY InvariantHolds, PTL DEF IInv

\* No request is turned away that the limit does not turn away.
THEOREM RefusalsHaveReasons == LimiterSpec => []RefusalsAreEarned
  BY InvariantHolds, PTL DEF IInv

=============================================================================

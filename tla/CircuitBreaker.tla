--------------------------- MODULE CircuitBreaker ---------------------------
(***************************************************************************)
(* auth/circuit_breaker.py: the breaker all LLM calls share.  The critical *)
(* sections under _lock contain no await, so each is one step of the event *)
(* loop: a call's admission, and the report of its result.                 *)
(***************************************************************************)
EXTENDS Naturals

CONSTANTS
  FailureThreshold,   \* CircuitBreakerConfig.failure_threshold
  SuccessThreshold,   \* CircuitBreakerConfig.success_threshold
  Timeout             \* timeout_seconds, in clock ticks

ASSUME BreakerAssumption ==
  /\ FailureThreshold \in Nat \ {0}
  /\ SuccessThreshold \in Nat \ {0}
  /\ Timeout \in Nat

VARIABLES
  state,          \* _state
  failureCount,   \* _failure_count, up to FailureThreshold: it is only ever
                  \* compared with the threshold
  successCount,   \* _success_count
  age,            \* time.time() - _last_failure_time, up to Timeout
  goodStreak      \* history: results reported as successes since the last one
                  \* reported as a failure, up to SuccessThreshold

breaker == <<state, failureCount, successCount, age, goodStreak>>

BreakerTypeOK ==
  /\ state \in {"closed", "open", "half_open"}
  /\ failureCount \in 0..FailureThreshold
  /\ successCount \in 0..SuccessThreshold
  /\ age \in 0..Timeout
  /\ goodStreak \in 0..SuccessThreshold

BreakerInit ==
  /\ state = "closed"
  /\ failureCount = 0
  /\ successCount = 0
  /\ age = Timeout
  /\ goodStreak = 0

\* n + 1, as far as the comparison with top can tell.
CountUp(n, top) == IF n < top THEN n + 1 ELSE top

\* Seeded fault: HALF_OPEN lets only the call that opened it through.
AdmitSingleProbe ==
  \/ state = "closed" /\ UNCHANGED breaker
  \/ /\ state = "open"
     /\ age = Timeout
     /\ state' = "half_open"
     /\ successCount' = 0
     /\ UNCHANGED <<failureCount, age, goodStreak>>

\* CircuitBreaker.call lets the call through: CLOSED and HALF_OPEN admit
\* everyone; the first call after the timeout turns OPEN into HALF_OPEN.
AdmitCall ==
  \/ state # "open" /\ UNCHANGED breaker
  \/ /\ state = "open"
     /\ age = Timeout
     /\ state' = "half_open"
     /\ successCount' = 0
     /\ UNCHANGED <<failureCount, age, goodStreak>>

\* CircuitBreaker.call raises CircuitBreakerOpenError.
RefuseCall == state = "open" /\ age < Timeout /\ UNCHANGED breaker

\* _on_success.
OnSuccess ==
  /\ failureCount' = 0
  /\ goodStreak' = CountUp(goodStreak, SuccessThreshold)
  /\ IF state = "half_open" /\ successCount + 1 >= SuccessThreshold
       THEN state' = "closed" /\ successCount' = 0
       ELSE /\ UNCHANGED state
            /\ successCount' = IF state = "half_open" THEN successCount + 1
                               ELSE successCount
  /\ UNCHANGED age

\* Seeded fault: a failed probe does not reopen the breaker.
OnFailureWithoutReopening ==
  /\ failureCount' = CountUp(failureCount, FailureThreshold)
  /\ age' = 0
  /\ goodStreak' = 0
  /\ state' = IF state = "closed" /\ failureCount + 1 >= FailureThreshold
                THEN "open" ELSE state
  /\ UNCHANGED successCount

\* _on_failure.
OnFailure ==
  /\ failureCount' = CountUp(failureCount, FailureThreshold)
  /\ age' = 0
  /\ successCount' = 0
  /\ goodStreak' = 0
  /\ state' = IF \/ state = "half_open"
                 \/ state = "closed" /\ failureCount + 1 >= FailureThreshold
                THEN "open" ELSE state

\* The wall clock.
Tick ==
  /\ age < Timeout
  /\ age' = age + 1
  /\ UNCHANGED <<state, failureCount, successCount, goodStreak>>
=============================================================================

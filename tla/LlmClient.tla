------------------------------ MODULE LlmClient ------------------------------
(***************************************************************************)
(* Concurrent OpenRouterClient.complete calls (llm/openrouter.py), each    *)
(* with tenacity retries, all behind OPENROUTER_BREAKER.  A call admitted  *)
(* before the breaker opened may report its result long after, in whatever *)
(* state the breaker is by then.                                           *)
(***************************************************************************)
EXTENDS CircuitBreaker

CONSTANTS
  Clients,       \* concurrent generation tasks
  MaxAttempts,   \* llm_max_retries + 1
  MaxSettings    \* bound on the number of times the clock is set

ASSUME ClientAssumption == MaxAttempts \in Nat \ {0} /\ MaxSettings \in Nat

VARIABLES
  pc,         \* where each client's complete() stands
  attempts,   \* attempts its current complete() has started
  provider,   \* how OpenRouter answers: "up", "flaky" or "down"
  settings    \* how often the system clock has been set

client  == <<pc, attempts>>
outside == <<provider, settings>>
vars    == <<breaker, client, outside>>

Finished == {"succeeded", "refused", "failed"}
ClientPc == {"attempting", "inflight", "backoff"} \cup Finished

TypeOK ==
  /\ BreakerTypeOK
  /\ pc \in [Clients -> ClientPc]
  /\ attempts \in [Clients -> 0..MaxAttempts]
  /\ provider \in {"up", "flaky", "down"}
  /\ settings \in 0..MaxSettings

Init ==
  /\ BreakerInit
  /\ pc = [c \in Clients |-> "succeeded"]
  /\ attempts = [c \in Clients |-> 0]
  /\ provider = "up"
  /\ settings = 0

\* A generation task calls complete(); tenacity starts the first attempt.
Begin(c) ==
  /\ pc[c] \in Finished
  /\ pc' = [pc EXCEPT ![c] = "attempting"]
  /\ attempts' = [attempts EXCEPT ![c] = 1]
  /\ UNCHANGED <<breaker, outside>>

\* OPENROUTER_BREAKER.call: admitted, the API request goes out.
Admit(c) ==
  /\ pc[c] = "attempting"
  /\ AdmitCall
  /\ pc' = [pc EXCEPT ![c] = "inflight"]
  /\ UNCHANGED <<attempts, outside>>

\* CircuitBreakerOpenError is not retried: complete raises LLMError.
Refuse(c) ==
  /\ pc[c] = "attempting"
  /\ RefuseCall
  /\ pc' = [pc EXCEPT ![c] = "refused"]
  /\ UNCHANGED <<attempts, outside>>

Succeed(c) ==
  /\ pc[c] = "inflight"
  /\ provider # "down"
  /\ OnSuccess
  /\ pc' = [pc EXCEPT ![c] = "succeeded"]
  /\ UNCHANGED <<attempts, outside>>

\* Seeded fault: retryable errors are among excluded_exceptions.
FailRetryableUncounted(c) ==
  /\ pc[c] = "inflight"
  /\ provider # "up"
  /\ pc' = [pc EXCEPT ![c] = IF attempts[c] < MaxAttempts THEN "backoff" ELSE "failed"]
  /\ UNCHANGED <<breaker, attempts, outside>>

\* RateLimitError or APITimeoutError: wait and try again, if attempts are left.
FailRetryable(c) ==
  /\ pc[c] = "inflight"
  /\ provider # "up"
  /\ OnFailure
  /\ pc' = [pc EXCEPT ![c] = IF attempts[c] < MaxAttempts THEN "backoff" ELSE "failed"]
  /\ UNCHANGED <<attempts, outside>>

\* Any other exception ends complete() at once.
FailFinally(c) ==
  /\ pc[c] = "inflight"
  /\ provider # "up"
  /\ OnFailure
  /\ pc' = [pc EXCEPT ![c] = "failed"]
  /\ UNCHANGED <<attempts, outside>>

\* asyncio.CancelledError is excluded: the breaker does not hear of the call.
Cancel(c) ==
  /\ pc[c] = "inflight"
  /\ pc' = [pc EXCEPT ![c] = "failed"]
  /\ UNCHANGED <<breaker, attempts, outside>>

\* Seeded fault: the attempt is not counted.
RetryUncounted(c) ==
  /\ pc[c] = "backoff"
  /\ pc' = [pc EXCEPT ![c] = "attempting"]
  /\ UNCHANGED <<breaker, attempts, outside>>

\* The exponential backoff is over.
Retry(c) ==
  /\ pc[c] = "backoff"
  /\ pc' = [pc EXCEPT ![c] = "attempting"]
  /\ attempts' = [attempts EXCEPT ![c] = @ + 1]
  /\ UNCHANGED <<breaker, outside>>

TimePasses == Tick /\ UNCHANGED <<client, outside>>

\* time.time() is the system clock, which may be set back or forward.
ClockIsSet ==
  /\ settings < MaxSettings
  /\ settings' = settings + 1
  /\ age' \in 0..Timeout
  /\ UNCHANGED <<state, failureCount, successCount, goodStreak, client, provider>>

ProviderChanges ==
  /\ provider' \in {"up", "flaky", "down"} \ {provider}
  /\ UNCHANGED <<breaker, client, settings>>

ClientStep(c) ==
  \/ Begin(c) \/ Admit(c) \/ Refuse(c) \/ Retry(c)
  \/ Succeed(c) \/ FailRetryable(c) \/ FailFinally(c) \/ Cancel(c)

Next ==
  \/ \E c \in Clients : ClientStep(c)
  \/ TimePasses \/ ClockIsSet
  \/ ProviderChanges

Spec == Init /\ [][Next]_vars

(* Generation requests keep coming, the event loop runs what can run, time  *)
(* passes, and a task is not cancelled every single time before its answer  *)
(* arrives (strong fairness of the answers: the OpenAI client has a         *)
(* timeout, so an answer or APITimeoutError always comes).                  *)
Fairness ==
  /\ WF_vars(TimePasses)
  /\ \A c \in Clients :
       /\ WF_vars(Begin(c) \/ Admit(c) \/ Refuse(c) \/ Retry(c))
       /\ SF_vars(Succeed(c))
       /\ SF_vars(FailRetryable(c) \/ FailFinally(c))

FairSpec == Spec /\ Fairness

-----------------------------------------------------------------------------
\* A CLOSED breaker has seen fewer consecutive failures than the threshold, and
\* a HALF_OPEN one fewer successes than it takes to close: neither state can be
\* re-entered with a count left over from an earlier episode.
CountsBelowThresholds ==
  /\ state = "closed" => failureCount < FailureThreshold /\ successCount = 0
  /\ state = "half_open" => successCount < SuccessThreshold

\* The breaker closes only when the last SuccessThreshold results, from
\* whichever calls, were successes: one failure in between starts over.
ClosesOnGoodStreak ==
  [][state # "closed" /\ state' = "closed" => goodStreak' >= SuccessThreshold]_vars

\* What ClosesOnGoodStreak needs: the success count never exceeds the streak.
SuccessesAreFresh ==
  successCount <= goodStreak /\ successCount < SuccessThreshold

\* A client in backoff has an attempt left.
BackoffHasAttempts ==
  \A c \in Clients : pc[c] = "backoff" => attempts[c] < MaxAttempts

IInv == /\ TypeOK /\ CountsBelowThresholds
        /\ SuccessesAreFresh /\ BackoffHasAttempts

\* Every complete() returns or raises, however the provider and the breaker
\* change under its retries: generation tasks rely on it.
CompletionEnds == \A c \in Clients : pc[c] \notin Finished ~> pc[c] \in Finished

\* Once the provider stays up, the breaker closes for good, late failures,
\* abandoned probes and a clock that was set back notwithstanding.
RecoversWhenUp == <>[](provider = "up") => <>[](state = "closed")

\* While the provider stays down, the breaker opens again and again.
OpensWhenDown == <>[](provider = "down") => []<>(state = "open")
=============================================================================

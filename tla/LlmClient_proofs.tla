--------------------------- MODULE LlmClient_proofs ---------------------------
(***************************************************************************)
(* Theorems of LlmClient, for every number of clients and every threshold. *)
(***************************************************************************)
EXTENDS LlmClient, TLAPS

USE BreakerAssumption, ClientAssumption

LEMMA InitIInv == Init => IInv
BY DEF Init, IInv, TypeOK, BreakerInit, BreakerTypeOK, CountsBelowThresholds,
       SuccessesAreFresh, BackoffHasAttempts, ClientPc, Finished

\* The breaker's own part of the invariant.
BreakerInv == BreakerTypeOK /\ CountsBelowThresholds /\ SuccessesAreFresh

\* Every operation of the breaker keeps it, in whatever state a late result
\* finds the breaker.
LEMMA BreakerStep ==
  ASSUME BreakerInv,
         \/ AdmitCall \/ RefuseCall \/ OnSuccess \/ OnFailure
         \/ Tick \/ ClockIsSet \/ UNCHANGED breaker
  PROVE  BreakerInv'
<1> USE DEF BreakerInv, BreakerTypeOK, CountsBelowThresholds, SuccessesAreFresh,
            CountUp, breaker
<1>1. CASE AdmitCall
  BY <1>1 DEF AdmitCall
<1>2. CASE RefuseCall
  BY <1>2 DEF RefuseCall
<1>3. CASE OnSuccess
  BY <1>3 DEF OnSuccess
<1>4. CASE OnFailure
  BY <1>4 DEF OnFailure
<1>5. CASE Tick
  BY <1>5 DEF Tick
<1>6. CASE ClockIsSet
  BY <1>6 DEF ClockIsSet
<1>7. CASE UNCHANGED breaker
  BY <1>7
<1>8. QED
  BY <1>1, <1>2, <1>3, <1>4, <1>5, <1>6, <1>7

\* Each step of the system is one operation of the breaker, or the clock's.
LEMMA StepIsBreakerStep ==
  [Next]_vars =>
    \/ AdmitCall \/ RefuseCall \/ OnSuccess \/ OnFailure
    \/ Tick \/ ClockIsSet \/ UNCHANGED breaker
BY DEF Next, vars, ClientStep, Begin, Admit, Refuse, Succeed, FailRetryable,
       FailFinally, Cancel, Retry, TimePasses, ProviderChanges

\* The clients' own part of the invariant.
ClientInv == /\ pc \in [Clients -> ClientPc]
             /\ attempts \in [Clients -> 0..MaxAttempts]
             /\ provider \in {"up", "flaky", "down"}
             /\ settings \in 0..MaxSettings
             /\ BackoffHasAttempts

LEMMA ClientStepKeepsInv ==
  ASSUME ClientInv, NEW c \in Clients, ClientStep(c)
  PROVE  ClientInv'
<1> USE DEF ClientInv, BackoffHasAttempts, ClientPc, Finished
<1>1. CASE Begin(c)
  BY <1>1 DEF Begin, outside
<1>2. CASE Admit(c) \/ Refuse(c) \/ Succeed(c) \/ FailFinally(c) \/ Cancel(c)
  BY <1>2 DEF Admit, Refuse, Succeed, FailFinally, Cancel, outside
<1>3. CASE FailRetryable(c)
  BY <1>3 DEF FailRetryable, outside
<1>4. CASE Retry(c)
  BY <1>4 DEF Retry, outside
<1>5. QED
  BY <1>1, <1>2, <1>3, <1>4 DEF ClientStep

LEMMA NextIInv == IInv /\ [Next]_vars => IInv'
<1> SUFFICES ASSUME IInv, [Next]_vars PROVE IInv'
  OBVIOUS
<1>1. BreakerInv'
  BY BreakerStep, StepIsBreakerStep DEF IInv, TypeOK, BreakerInv
<1>2. ClientInv
  BY DEF IInv, TypeOK, ClientInv
<1>3. ClientInv'
  <2>1. ASSUME NEW c \in Clients, ClientStep(c) PROVE ClientInv'
    BY <1>2, <2>1, ClientStepKeepsInv
  <2>2. CASE TimePasses \/ ClockIsSet \/ ProviderChanges \/ UNCHANGED vars
    BY <1>2, <2>2 DEF TimePasses, ClockIsSet, ProviderChanges, vars, client, outside,
                      ClientInv, BackoffHasAttempts
  <2>3. QED
    BY <2>1, <2>2 DEF Next
<1>4. QED
  BY <1>1, <1>3 DEF IInv, TypeOK, BreakerInv, ClientInv

\* The inductive invariant holds in every reachable state.
THEOREM Invariance == Spec => []IInv
<1>1. Init => IInv
  BY InitIInv
<1>2. IInv /\ [Next]_vars => IInv'
  BY NextIInv
<1>3. QED
  BY <1>1, <1>2, PTL DEF Spec

\* CLOSED and HALF_OPEN never carry a count that has reached its threshold.
THEOREM CountsStayBelowThresholds == Spec => []CountsBelowThresholds
<1>1. IInv => CountsBelowThresholds
  BY DEF IInv
<1>2. QED
  BY <1>1, Invariance, PTL

\* The step that closes the breaker ends a streak of SuccessThreshold successes.
LEMMA ClosingStep ==
  ASSUME IInv, [Next]_vars, state # "closed", state' = "closed"
  PROVE  goodStreak' >= SuccessThreshold
<1> USE DEF IInv, TypeOK, BreakerTypeOK, SuccessesAreFresh
<1>1. OnSuccess
  BY StepIsBreakerStep DEF AdmitCall, RefuseCall, OnFailure, Tick, ClockIsSet, breaker
<1>2. successCount + 1 >= SuccessThreshold
  BY <1>1 DEF OnSuccess
<1>3. goodStreak' = CountUp(goodStreak, SuccessThreshold)
  BY <1>1 DEF OnSuccess
<1>4. QED
  BY <1>2, <1>3 DEF CountUp

\* The breaker closes only on SuccessThreshold successes in a row.
THEOREM ClosingIsEarned == Spec => ClosesOnGoodStreak
<1>1. IInv /\ [Next]_vars =>
        [state # "closed" /\ state' = "closed"
           => goodStreak' >= SuccessThreshold]_vars
  BY ClosingStep
<1>2. QED
  BY <1>1, Invariance, PTL DEF Spec, ClosesOnGoodStreak
=============================================================================

---------------------------- MODULE CircuitBreaker ----------------------------
(***************************************************************************)
(* The wallet's circuit breaker (zally-wallet/src/circuit_breaker.rs)      *)
(* under with_breaker_and_retry (retry.rs): the calls of the sync driver,  *)
(* the transparent refresh, spending and PCZT submission, which share one  *)
(* breaker and overlap.                                                    *)
(*                                                                         *)
(* A call is admitted, retried and recorded in three separate critical     *)
(* sections: what it records may be about a breaker that other calls have  *)
(* opened, half-opened or closed meanwhile.  Its future may be dropped     *)
(* while it waits, and then records nothing.                               *)
(***************************************************************************)
EXTENDS Naturals

CONSTANTS
  Callers,           \* tasks that call through the breaker
  FailureThreshold,  \* CircuitBreakerConfig::failure_threshold
  CounterMax,        \* where consecutive_failures saturates (u32::MAX)
  MaxAttempts        \* RetryPolicy::max_attempts (0 tries once, as 1 does)

ASSUME BreakerAssumption ==
  /\ FailureThreshold \in Nat
  /\ CounterMax \in Nat \ {0}
  /\ FailureThreshold <= CounterMax
  /\ MaxAttempts \in Nat \ {0}

VARIABLES
  state,     \* CircuitState
  failures,  \* consecutive_failures, 0 unless the breaker is closed
  cooled,    \* the cooldown has elapsed since opened_at
  calls,     \* calls[c]: "idle", "running" or how the call ended
  tries,     \* tries[c]: operation() calls of the retry loop
  healthy,   \* the source finishes what it is asked
  streak     \* history: transient failures recorded since the last completion

breakerVars == <<state, failures, cooled>>
callVars    == <<calls, tries>>
vars        == <<breakerVars, callVars, healthy, streak>>

-----------------------------------------------------------------------------
Postures == {"Retryable", "Restartable", "RequiresOperator", "NotRetryable"}

Outcomes == {"Completed"} \cup Postures

\* Mutant: every failure counts against the source.
TripsOnAnyFailure == Postures

\* FailurePosture::allows_retry and trips_circuit_breaker.
AllowsRetry == {"Retryable", "Restartable"}
TripsBreaker == {"Retryable"}

SaturatingInc(n) == IF n < CounterMax THEN n + 1 ELSE n

\* The history counts what says that the source is in trouble, until it is
\* evidence enough.
StreakAfter(outcome) ==
  CASE outcome = "Completed" -> 0
    [] outcome = "Retryable" /\ streak < FailureThreshold -> streak + 1
    [] OTHER -> streak

CooldownElapses ==
  /\ state = "Open"
  /\ ~cooled
  /\ cooled' = TRUE
  /\ UNCHANGED <<state, failures, callVars, healthy, streak>>

\* Mutant: only the call that half-opens the breaker is admitted.
AllowsSingleProbe == state = "Closed" \/ (state = "Open" /\ cooled)

(* allow_call: a half-open breaker admits every caller.  A refused call     *)
(* returns CircuitBroken and changes nothing.                               *)
AllowCall == state # "Open" \/ cooled

Admit(c) ==
  /\ calls[c] = "idle"
  /\ AllowCall
  /\ state' = IF state = "Open" THEN "HalfOpen" ELSE state
  /\ cooled' = FALSE
  /\ calls' = [calls EXCEPT ![c] = "running"]
  /\ tries' = [tries EXCEPT ![c] = 1]
  /\ UNCHANGED <<failures, healthy, streak>>

Retries(c, outcome) == outcome \in AllowsRetry /\ tries[c] < MaxAttempts

(* One operation() of with_retry.  A source that is healthy completes it.   *)
TryReturns(c, outcome) ==
  /\ calls[c] = "running"
  /\ healthy => outcome = "Completed"
  /\ IF Retries(c, outcome)
       THEN tries' = [tries EXCEPT ![c] = @ + 1] /\ UNCHANGED calls
       ELSE calls' = [calls EXCEPT ![c] = outcome] /\ UNCHANGED tries
  /\ UNCHANGED <<breakerVars, healthy, streak>>

Forget(c) ==
  /\ calls' = [calls EXCEPT ![c] = "idle"]
  /\ tries' = [tries EXCEPT ![c] = 0]

(* A deadline or a closing driver drops the call's future.                  *)
Cancel(c) ==
  /\ calls[c] = "running"
  /\ Forget(c)
  /\ UNCHANGED <<breakerVars, healthy, streak>>

\* record_success: from any state.
RecordSuccess ==
  /\ state' = "Closed"
  /\ failures' = 0
  /\ cooled' = FALSE

\* Mutant: the threshold is one failure late.
TripsLate ==
  LET next == SaturatingInc(failures)
  IN  /\ IF state = "Closed" /\ next <= FailureThreshold
           THEN state' = "Closed" /\ failures' = next
           ELSE state' = "Open" /\ failures' = 0
      /\ cooled' = FALSE

\* record_failure: a failure that finds the breaker open restarts its cooldown.
RecordFailure ==
  LET next == SaturatingInc(failures)
  IN  /\ IF state = "Closed" /\ next < FailureThreshold
           THEN state' = "Closed" /\ failures' = next
           ELSE state' = "Open" /\ failures' = 0
      /\ cooled' = FALSE

\* Mutant: what the breaker does not count is recorded as a success.
RecordNeutralAsSuccess(c) ==
  /\ calls[c] \in Outcomes
  /\ IF calls[c] \in TripsBreaker THEN RecordFailure ELSE RecordSuccess
  /\ streak' = StreakAfter(calls[c])
  /\ Forget(c)
  /\ UNCHANGED healthy

(* What the breaker does not count leaves it as it was.                     *)
Record(c) ==
  /\ calls[c] \in Outcomes
  /\ \/ calls[c] = "Completed" /\ RecordSuccess
     \/ calls[c] \in TripsBreaker /\ RecordFailure
     \/ calls[c] \notin {"Completed"} \cup TripsBreaker /\ UNCHANGED breakerVars
  /\ streak' = StreakAfter(calls[c])
  /\ Forget(c)
  /\ UNCHANGED healthy

SourceTurns ==
  /\ healthy' = ~healthy
  /\ UNCHANGED <<breakerVars, callVars, streak>>

Init ==
  /\ state = "Closed"
  /\ failures = 0
  /\ cooled = FALSE
  /\ calls = [c \in Callers |-> "idle"]
  /\ tries = [c \in Callers |-> 0]
  /\ healthy \in BOOLEAN
  /\ streak = 0

Next ==
  \/ CooldownElapses
  \/ \E c \in Callers :
       \/ Admit(c)
       \/ \E outcome \in Outcomes : TryReturns(c, outcome)
       \/ Cancel(c)
       \/ Record(c)
  \/ SourceTurns

(***************************************************************************)
(* The clock runs, somebody keeps calling (the driver retries under its    *)
(* capped backoff), and no caller is cancelled for ever.                   *)
(***************************************************************************)
Fairness ==
  /\ WF_vars(CooldownElapses)
  /\ WF_vars(\E c \in Callers : Admit(c))
  /\ \A c \in Callers :
       /\ SF_vars(\E outcome \in Outcomes : TryReturns(c, outcome))
       /\ WF_vars(Record(c))

Spec == Init /\ [][Next]_vars /\ Fairness

-----------------------------------------------------------------------------
(* Types; a call retries at most MaxAttempts times.                         *)
BreakerTypeOK ==
  /\ state \in {"Closed", "Open", "HalfOpen"}
  /\ failures \in 0..CounterMax
  /\ cooled \in BOOLEAN
  /\ calls \in [Callers -> {"idle", "running"} \cup Outcomes]
  /\ tries \in [Callers -> 0..MaxAttempts]
  /\ healthy \in BOOLEAN
  /\ streak \in 0..FailureThreshold

(***************************************************************************)
(* The breaker is not closed only while the source has failed              *)
(* failure_threshold times without completing a call in between, in the    *)
(* order the results were recorded: no other failure, no cancelled call    *)
(* and no late result makes up for that (ADR-0002 decision 5).             *)
(***************************************************************************)
OpensOnEvidence == state # "Closed" => streak = FailureThreshold

(***************************************************************************)
(* Only a call that completed clears a streak or closes the breaker        *)
(* (with_breaker_and_retry, FailurePosture::trips_circuit_breaker).        *)
(***************************************************************************)
ClosesOnCompletion ==
  [][(streak' < streak \/ (state # "Closed" /\ state' = "Closed")) =>
        \E c \in Callers : calls[c] = "Completed" /\ calls'[c] = "idle"]_vars

(***************************************************************************)
(* Once the source serves for good the breaker closes and stays closed:    *)
(* neither a cancelled probe nor one that decided nothing wedges it half-  *)
(* open, and the late failures of the outage run out.                      *)
(***************************************************************************)
Recovers == (<>[]healthy) => <>[](state = "Closed")

(***************************************************************************)
(* The inductive invariant: a closed breaker's counter is the streak, and  *)
(* the failure that reaches failure_threshold opens it.                    *)
(***************************************************************************)
BreakerInv ==
  /\ BreakerTypeOK
  /\ OpensOnEvidence
  /\ state = "Closed" => failures = streak
  /\ (state = "Closed" /\ FailureThreshold > 0) => failures < FailureThreshold
=============================================================================

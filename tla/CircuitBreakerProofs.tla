------------------------- MODULE CircuitBreakerProofs -------------------------
(***************************************************************************)
(* What CircuitBreaker promises for any number of overlapping callers, any *)
(* threshold and any number of attempts.                                   *)
(***************************************************************************)
EXTENDS CircuitBreaker, TLAPS

(* The steps outside the breaker's lock leave its half of the invariant.    *)
LEMMA OutsideTheLock ==
  ASSUME BreakerInv, UNCHANGED <<state, failures, streak>>, BreakerTypeOK'
  PROVE  BreakerInv'
BY DEF BreakerInv, OpensOnEvidence

(* record_failure keeps the counter equal to the streak until it opens.     *)
LEMMA FailureCounts ==
  ASSUME BreakerInv, RecordFailure, streak' = StreakAfter("Retryable")
  PROVE  /\ state' \in {"Closed", "Open", "HalfOpen"}
         /\ failures' \in 0..CounterMax
         /\ cooled' = FALSE
         /\ streak' \in 0..FailureThreshold
         /\ OpensOnEvidence'
         /\ state' = "Closed" => failures' = streak'
         /\ (state' = "Closed" /\ FailureThreshold > 0)
              => failures' < FailureThreshold
<1> DEFINE next == SaturatingInc(failures)
<1>0. FailureThreshold \in Nat /\ CounterMax \in Nat /\ CounterMax > 0
      /\ FailureThreshold <= CounterMax
  BY BreakerAssumption
<1>1. failures \in 0..CounterMax /\ streak \in 0..FailureThreshold
  BY DEF BreakerInv, BreakerTypeOK
<1>2. CASE state = "Closed" /\ next < FailureThreshold
  <2>1. failures = streak /\ failures < FailureThreshold
    BY <1>0, <1>1, <1>2 DEF BreakerInv, SaturatingInc
  <2>2. next = failures + 1
    BY <1>0, <1>1, <2>1 DEF SaturatingInc
  <2>3. streak' = streak + 1
    BY <2>1 DEF StreakAfter
  <2>4. state' = "Closed" /\ failures' = failures + 1 /\ cooled' = FALSE
    BY <1>2, <2>2 DEF RecordFailure
  <2> QED
    BY <1>0, <1>1, <1>2, <2>1, <2>2, <2>3, <2>4 DEF OpensOnEvidence
<1>3. CASE ~(state = "Closed" /\ next < FailureThreshold)
  <2>1. state' = "Open" /\ failures' = 0 /\ cooled' = FALSE
    BY <1>3 DEF RecordFailure
  <2>2. streak' = FailureThreshold
    <3>1. CASE state # "Closed"
      BY <1>0, <1>1, <3>1 DEF BreakerInv, OpensOnEvidence, StreakAfter
    <3>2. CASE state = "Closed"
      <4>1. failures = streak
        BY <3>2 DEF BreakerInv
      <4>2. ~(next < FailureThreshold)
        BY <1>3, <3>2
      <4> QED
        BY <1>0, <1>1, <4>1, <4>2 DEF StreakAfter, SaturatingInc
    <3> QED BY <3>1, <3>2
  <2> QED
    BY <1>0, <2>1, <2>2 DEF OpensOnEvidence
<1> QED BY <1>2, <1>3

(* A call that begins, ends or is forgotten keeps calls and tries in range. *)
LEMMA Forgets ==
  ASSUME BreakerTypeOK, NEW c \in Callers, Forget(c)
  PROVE  /\ calls' \in [Callers -> {"idle", "running"} \cup Outcomes]
         /\ tries' \in [Callers -> 0..MaxAttempts]
<1>1. 0 \in 0..MaxAttempts
  BY BreakerAssumption
<1> QED
  BY <1>1 DEF BreakerTypeOK, Forget

(* The inductive step, one case per action.                                 *)
LEMMA BreakerStep ==
  ASSUME BreakerInv, [Next]_vars
  PROVE  BreakerInv'
<1> USE DEF breakerVars, callVars
<1>0. BreakerTypeOK
  BY DEF BreakerInv
<1>1. ASSUME CooldownElapses PROVE BreakerInv'
  BY <1>0, <1>1, OutsideTheLock DEF CooldownElapses, BreakerTypeOK
<1>2. ASSUME NEW c \in Callers, Admit(c) PROVE BreakerInv'
  <2>1. 1 \in 0..MaxAttempts
    BY BreakerAssumption
  <2>2. state' \in {"Closed", "Open", "HalfOpen"}
        /\ (state' # "Closed" => state # "Closed")
        /\ (state' = "Closed" => state = "Closed")
    BY <1>0, <1>2 DEF Admit, BreakerTypeOK
  <2>3. UNCHANGED <<failures, healthy, streak>> /\ cooled' = FALSE
    BY <1>2 DEF Admit
  <2>4. /\ calls' \in [Callers -> {"idle", "running"} \cup Outcomes]
        /\ tries' \in [Callers -> 0..MaxAttempts]
    BY <1>0, <1>2, <2>1 DEF Admit, BreakerTypeOK
  <2>5. BreakerTypeOK'
    BY <1>0, <2>2, <2>3, <2>4 DEF BreakerTypeOK
  <2> QED
    BY <2>2, <2>3, <2>5 DEF BreakerInv, OpensOnEvidence
<1>3. ASSUME NEW c \in Callers, NEW outcome \in Outcomes, TryReturns(c, outcome)
      PROVE  BreakerInv'
  <2>1. UNCHANGED <<state, failures, cooled, healthy, streak>>
    BY <1>3 DEF TryReturns
  <2>2. /\ calls' \in [Callers -> {"idle", "running"} \cup Outcomes]
        /\ tries' \in [Callers -> 0..MaxAttempts]
    <3>1. CASE Retries(c, outcome)
      <4>1. MaxAttempts \in Nat /\ tries[c] \in 0..MaxAttempts
        BY <1>0, BreakerAssumption DEF BreakerTypeOK
      <4>2. tries[c] + 1 \in 0..MaxAttempts
        BY <3>1, <4>1 DEF Retries
      <4> QED
        BY <1>0, <1>3, <3>1, <4>2 DEF TryReturns, BreakerTypeOK
    <3>2. CASE ~Retries(c, outcome)
      BY <1>0, <1>3, <3>2 DEF TryReturns, BreakerTypeOK
    <3> QED BY <3>1, <3>2
  <2>3. BreakerTypeOK'
    BY <1>0, <2>1, <2>2 DEF BreakerTypeOK
  <2> QED BY <2>1, <2>3, OutsideTheLock
<1>4. ASSUME NEW c \in Callers, Cancel(c) PROVE BreakerInv'
  <2>1. BreakerTypeOK'
    BY <1>0, <1>4, Forgets DEF Cancel, BreakerTypeOK
  <2> QED
    BY <1>4, <2>1, OutsideTheLock DEF Cancel
<1>5. ASSUME NEW c \in Callers, Record(c) PROVE BreakerInv'
  <2>1. /\ calls' \in [Callers -> {"idle", "running"} \cup Outcomes]
        /\ tries' \in [Callers -> 0..MaxAttempts]
    BY <1>0, <1>5, Forgets DEF Record
  <2>2. healthy' \in BOOLEAN
    BY <1>0, <1>5 DEF Record, BreakerTypeOK
  <2>3. CASE calls[c] = "Completed"
    <3>1. state' = "Closed" /\ failures' = 0 /\ cooled' = FALSE /\ streak' = 0
      BY <1>5, <2>3 DEF Record, RecordSuccess, StreakAfter, TripsBreaker
    <3>2. 0 \in 0..CounterMax /\ 0 \in 0..FailureThreshold
      BY BreakerAssumption
    <3> QED
      BY <2>1, <2>2, <3>1, <3>2 DEF BreakerInv, BreakerTypeOK, OpensOnEvidence
  <2>4. CASE calls[c] = "Retryable"
    <3>0. "Retryable" \in TripsBreaker /\ "Retryable" # "Completed"
      BY DEF TripsBreaker
    <3>1. RecordFailure /\ streak' = StreakAfter("Retryable")
      BY <1>5, <2>4, <3>0 DEF Record
    <3>2. cooled' \in BOOLEAN
      BY <3>1, FailureCounts
    <3> QED
      BY <2>1, <2>2, <3>1, <3>2, FailureCounts DEF BreakerInv, BreakerTypeOK
  <2>5. CASE calls[c] # "Completed" /\ calls[c] # "Retryable"
    <3>0. UNCHANGED <<breakerVars, streak>>
      BY <1>5, <2>5 DEF Record, TripsBreaker, StreakAfter
    <3>1. BreakerTypeOK'
      BY <1>0, <2>1, <2>2, <3>0 DEF BreakerTypeOK
    <3> QED BY <3>0, <3>1, OutsideTheLock
  <2> QED
    BY <2>3, <2>4, <2>5
<1>6. ASSUME SourceTurns PROVE BreakerInv'
  BY <1>0, <1>6, OutsideTheLock DEF SourceTurns, BreakerTypeOK
<1>7. ASSUME UNCHANGED vars PROVE BreakerInv'
  BY <1>0, <1>7, OutsideTheLock DEF vars, BreakerTypeOK
<1> QED
  BY <1>1, <1>2, <1>3, <1>4, <1>5, <1>6, <1>7 DEF Next

(* A new breaker is closed and has counted nothing.                         *)
LEMMA BreakerStarts == Init => BreakerInv
<1> SUFFICES ASSUME Init PROVE BreakerInv
  OBVIOUS
<1>1. 0 \in 0..CounterMax /\ 0 \in 0..FailureThreshold /\ 0 \in 0..MaxAttempts
  BY BreakerAssumption
<1>2. BreakerTypeOK
  BY <1>1 DEF Init, BreakerTypeOK
<1> QED
  BY <1>2 DEF Init, BreakerInv, OpensOnEvidence

(***************************************************************************)
(* The breaker's counter is the streak of its recorded failures, and it    *)
(* opens at the failure that makes the streak reach the threshold          *)
(* (record_failure), for every interleaving of its callers.                *)
(***************************************************************************)
THEOREM BreakerCounts == Spec => []BreakerInv
BY BreakerStarts, BreakerStep, PTL DEF Spec

(* Types; no call exceeds the attempts of its RetryPolicy (with_retry).     *)
THEOREM BreakerTypes == Spec => []BreakerTypeOK
<1>1. BreakerInv => BreakerTypeOK
  BY DEF BreakerInv
<1> QED BY <1>1, BreakerCounts, PTL

(* Nothing but failure_threshold failures in a row opens the breaker or     *)
(* keeps it open (record_failure, with_breaker_and_retry).                  *)
THEOREM BreakerOpensOnEvidence == Spec => []OpensOnEvidence
<1>1. BreakerInv => OpensOnEvidence
  BY DEF BreakerInv
<1> QED BY <1>1, BreakerCounts, PTL

(***************************************************************************)
(* Only the record of a call that completed clears a streak or closes the  *)
(* breaker (with_breaker_and_retry).                                       *)
(***************************************************************************)
THEOREM BreakerClosesOnCompletion == Spec => ClosesOnCompletion
<1> DEFINE Clears == streak' < streak \/ (state # "Closed" /\ state' = "Closed")
           Completes == \E c \in Callers :
                          calls[c] = "Completed" /\ calls'[c] = "idle"
<1>1. ASSUME BreakerInv, [Next]_vars PROVE [Clears => Completes]_vars
  <2> USE DEF breakerVars, callVars
  <2>0. BreakerTypeOK
    BY <1>1 DEF BreakerInv
  <2>1. streak \in Nat /\ ~(streak < streak) /\ FailureThreshold \in Nat
    BY <2>0, BreakerAssumption DEF BreakerTypeOK
  <2>2. ASSUME UNCHANGED <<state, streak>> PROVE ~Clears
    BY <2>1, <2>2
  <2>3. ASSUME CooldownElapses PROVE ~Clears
    BY <2>2, <2>3 DEF CooldownElapses
  <2>4. ASSUME NEW c \in Callers, Admit(c) PROVE ~Clears
    BY <2>1, <2>4 DEF Admit
  <2>5. ASSUME NEW c \in Callers, NEW outcome \in Outcomes, TryReturns(c, outcome)
        PROVE  ~Clears
    BY <2>2, <2>5 DEF TryReturns
  <2>6. ASSUME NEW c \in Callers, Cancel(c) PROVE ~Clears
    BY <2>2, <2>6 DEF Cancel
  <2>7. ASSUME NEW c \in Callers, Record(c) PROVE Clears => Completes
    <3>1. CASE calls[c] = "Completed"
      BY <2>0, <2>7, <3>1 DEF Record, Forget, BreakerTypeOK
    <3>2. CASE calls[c] # "Completed"
      <4>1. ~(streak' < streak)
        BY <2>1, <2>7, <3>2 DEF Record, StreakAfter
      <4>2. state # "Closed" => state' # "Closed"
        BY <2>7, <3>2 DEF Record, RecordFailure
      <4> QED BY <4>1, <4>2
    <3> QED
      BY <3>1, <3>2
  <2>8. ASSUME SourceTurns PROVE ~Clears
    BY <2>2, <2>8 DEF SourceTurns
  <2> QED
    BY <1>1, <2>3, <2>4, <2>5, <2>6, <2>7, <2>8 DEF Next
<1> QED
  BY <1>1, BreakerCounts, PTL DEF Spec, ClosesOnCompletion
=============================================================================

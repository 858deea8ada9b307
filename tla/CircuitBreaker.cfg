\* Three overlapping callers, two tries each, a threshold of two.
SPECIFICATION Spec
CONSTANTS
  Callers = {c1, c2, c3}
  FailureThreshold = 2
  CounterMax = 2
  MaxAttempts = 2
INVARIANTS
  OpensOnEvidence
  BreakerInv
PROPERTIES
  ClosesOnCompletion
  Recovers

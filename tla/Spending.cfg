\* Two calls under one key that compete for one note and one transparent output.
CHECK_DEADLOCK FALSE
SPECIFICATION Spec
CONSTANTS
  Callers = {c1, c2}
  Keys = {k1}
  Shielded = {n1}
  Transparent = {u1}
  LockBlocks = 1
  ExpiryBlocks = 1
  Targets = {0, 2}
  MaxVersions = 2
  Nobody = Nobody
INVARIANTS
  TypeOK
  OneSpendPerOutput
  LocksReleasable
  SubmittedIsRetained
  PendingWhileInFlight
  LateCallsBuildNothing
PROPERTIES
  ImplementsRegister
  ActorServes

\* Every mix of faults, repairs and scans under the default policy (three
\* attempts per rewind depth, two rebuilds), three heights, saturating counters.
SPECIFICATION LadderSpec
CONSTANTS
  Heights = {1, 2, 3}
  RewindDepths = 2
  EscalateAfterFaults = 3
  MaxRescanAttempts = 2
  CounterMax = 5
  ReprobesPark = TRUE
  NoRecovery = NoRecovery
INVARIANTS
  LadderInv
  ParkIsDeadEnd
  RebuildIsLastResort
PROPERTIES
  NeverDeEscalates

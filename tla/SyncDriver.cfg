\* Safety under every kind of fault, reorgs, failing rebuilds, an inner retry and
\* wakeups that run out of iterations.
SPECIFICATION Spec
CONSTANTS
  Heights = {1, 2, 3}
  RewindDepths = 2
  EscalateAfterFaults = 1
  MaxRescanAttempts = 1
  CounterMax = 1
  ReprobesPark = TRUE
  NoRecovery = NoRecovery
  MaxHeight = 3
  ChunkBlocks = 2
  MaxAttempts = 2
  FaultKinds = {"Transient", "Divergence", "Corrupt", "DeadEnd"}
  MaxFaults = 3
  MaxChainChanges = 1
  ReorgsHappen = TRUE
  NoResult = NoResult
  RewindLadderBlocks <- MCRewindLadderBlocks
  MaxSyncIterations = 2
  RebuildCanFail = TRUE
  CloseAllowed = FALSE
  Unknown = Unknown
INVARIANTS
  TypeOK
  ParkStaysVisible
  DriverInv
PROPERTIES
  CaughtUpAgainstFreshTip
  ScansOnlyRepaired
  UsesLadder
  ObservationsCompared

\* The driver under a source outage that outlasts one wakeup's iterations.
SPECIFICATION Spec
CONSTANTS
  Heights = {1, 2, 3}
  RewindDepths = 2
  EscalateAfterFaults = 1
  MaxRescanAttempts = 1
  CounterMax = 1
  ReprobesPark = TRUE
  NoRecovery = NoRecovery
  MaxHeight = 3
  ChunkBlocks = 2
  MaxAttempts = 1
  FaultKinds = {"Transient"}
  MaxFaults = 2
  MaxChainChanges = 1
  ReorgsHappen = FALSE
  NoResult = NoResult
  RewindLadderBlocks <- MCRewindLadderBlocks
  MaxSyncIterations = 2
  RebuildCanFail = FALSE
  CloseAllowed = FALSE
  Unknown = Unknown
PROPERTIES
  RepairFollows

\* Clearing the ladder while the chain grows during a drain.
SPECIFICATION Spec
CONSTANTS
  Heights = {1, 2, 3}
  RewindDepths = 2
  EscalateAfterFaults = 1
  MaxRescanAttempts = 1
  CounterMax = 1
  ReprobesPark = TRUE
  NoRecovery = NoRecovery
  MaxHeight = 3
  ChunkBlocks = 2
  MaxAttempts = 1
  FaultKinds = {"Transient", "Divergence"}
  MaxFaults = 2
  MaxChainChanges = 1
  ReorgsHappen = FALSE
  NoResult = NoResult
  RewindLadderBlocks <- MCRewindLadderBlocks
  MaxSyncIterations = 8
  RebuildCanFail = FALSE
  CloseAllowed = FALSE
  Unknown = Unknown
PROPERTIES
  ClearedAboveBoundary

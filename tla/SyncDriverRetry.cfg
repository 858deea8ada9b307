\* Observations when the inner retry loop runs the attempt a second time.
SPECIFICATION Spec
CONSTANTS
  Heights = {1, 2, 3}
  RewindDepths = 2
  EscalateAfterFaults = 1
  MaxRescanAttempts = 1
  CounterMax = 1
  ReprobesPark = TRUE
  NoRecovery = NoRecovery
  MaxHeight = 3
  ChunkBlocks = 2
  MaxAttempts = 2
  FaultKinds = {"Transient"}
  MaxFaults = 2
  MaxChainChanges = 1
  ReorgsHappen = FALSE
  NoResult = NoResult
  RewindLadderBlocks <- MCRewindLadderBlocks
  MaxSyncIterations = 4
  RebuildCanFail = FALSE
  CloseAllowed = FALSE
  Unknown = Unknown
PROPERTIES
  ObservationChecked

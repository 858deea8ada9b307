\* Progress against an unreliable source and operator faults: no reorg, no state
\* fault, and iterations to spare in every wakeup.
SPECIFICATION Spec
CONSTANTS
  Heights = {1, 2, 3}
  RewindDepths = 2
  EscalateAfterFaults = 1
  MaxRescanAttempts = 1
  CounterMax = 1
  ReprobesPark = TRUE
  NoRecovery = NoRecovery
  MaxHeight = 3
  ChunkBlocks = 2
  MaxAttempts = 1
  FaultKinds = {"Transient", "DeadEnd"}
  MaxFaults = 2
  MaxChainChanges = 2
  ReorgsHappen = FALSE
  NoResult = NoResult
  RewindLadderBlocks <- MCRewindLadderBlocks
  MaxSyncIterations = 12
  RebuildCanFail = FALSE
  CloseAllowed = TRUE
  Unknown = Unknown
INVARIANTS
  NoMissedBlocks
PROPERTIES
  NeverLosesBlocks
  RepairFollows
  CloseCompletes

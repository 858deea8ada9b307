\* A rebuild that fails after it deleted the wallet database.
SPECIFICATION Spec
CONSTANTS
  Heights = {1, 2, 3}
  RewindDepths = 2
  EscalateAfterFaults = 1
  MaxRescanAttempts = 1
  CounterMax = 1
  ReprobesPark = TRUE
  NoRecovery = NoRecovery
  MaxHeight = 3
  ChunkBlocks = 2
  MaxAttempts = 1
  FaultKinds = {"Transient", "Corrupt"}
  MaxFaults = 4
  MaxChainChanges = 0
  ReorgsHappen = FALSE
  NoResult = NoResult
  RewindLadderBlocks <- MCRewindLadderBlocks
  MaxSyncIterations = 12
  RebuildCanFail = TRUE
  CloseAllowed = FALSE
  Unknown = Unknown
PROPERTIES
  WalletComesBack

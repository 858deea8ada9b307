\* Convergence when the chain reorganizes under the wallet and a scan diverges:
\* the rewinds of the ladder bring the wallet back to the tip.
SPECIFICATION Spec
CONSTANTS
  Heights = {1, 2, 3}
  RewindDepths = 2
  EscalateAfterFaults = 1
  MaxRescanAttempts = 1
  CounterMax = 1
  ReprobesPark = TRUE
  NoRecovery = NoRecovery
  MaxHeight = 3
  ChunkBlocks = 2
  MaxAttempts = 1
  FaultKinds = {"Transient", "Divergence"}
  MaxFaults = 1
  MaxChainChanges = 2
  ReorgsHappen = TRUE
  NoResult = NoResult
  RewindLadderBlocks <- MCRewindLadderBlocks
  MaxSyncIterations = 14
  RebuildCanFail = FALSE
  CloseAllowed = FALSE
  Unknown = Unknown
PROPERTIES
  Converges

CONSTANTS
  v1 = v1
  v2 = v2
  v3 = v3
  Votes <- Two
  Closable <- OnlyV2
  MayGoDelinquent <- OnlyV2
  Targets <- OnlyV3
  MaxValidators = 2
  MaxAdded = 2
  InitialPool <- PoolOfOne
  SlotsPerEpoch = 2
  ComputeScoreProgress = 1
  InstantUnstakeProgress = 1
  ComputeScoreSlotRange = 0
  NumEpochsBetweenScoring = 1
  MaxEpoch = 3
  ScoreChunk = 2
  RebalanceChunk = 2
  MaxFaults = 1
  MaxTroubles = 2
SPECIFICATION CrankSpec
INVARIANTS PanicNeedsFault
PROPERTIES KeeperCompletesEpoch
CHECK_DEADLOCK FALSE

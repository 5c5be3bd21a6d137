CONSTANTS
  v1 = v1
  v2 = v2
  v3 = v3
  Votes <- Three
  Closable <- OnlyV1
  MayGoDelinquent <- OnlyV2
  Targets <- OnlyV1
  MaxValidators = 3
  MaxAdded = 2
  InitialPool <- PoolOfTwo
  SlotsPerEpoch = 2
  ComputeScoreProgress = 1
  InstantUnstakeProgress = 1
  ComputeScoreSlotRange = 0
  NumEpochsBetweenScoring = 1
  MaxEpoch = 1
  ScoreChunk = 2
  RebalanceChunk = 2
  MaxFaults = 1
  MaxTroubles = 3
SPECIFICATION CrankSpec
INVARIANTS KeeperNeverPanics
CHECK_DEADLOCK FALSE

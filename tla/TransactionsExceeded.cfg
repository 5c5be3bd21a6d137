CONSTANTS
  Calls <- PairAndSingle
  GroupSizes = {1, 2}
  ChunkSize = 2
  MaxHash = 3
SPECIFICATION ExecSpec
INVARIANTS ExceededMeansExceeded ResignedOnlyDead
CHECK_DEADLOCK FALSE

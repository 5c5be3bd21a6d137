CONSTANTS
  Calls <- PairAndSingle
  GroupSizes = {1, 2}
  ChunkSize = 2
  MaxHash = 3
SPECIFICATION ExecSpec
INVARIANTS CleanRunExecutedAll OneLiveSignature
PROPERTIES ImplementsSubmission Terminates
CHECK_DEADLOCK FALSE

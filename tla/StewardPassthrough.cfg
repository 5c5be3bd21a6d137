CONSTANTS
  v1 = v1
  v2 = v2
  v3 = v3
  Votes <- MCVotes
  Closable <- MCNone
  MaxValidators = 3
  MaxAdded = 3
  InitialPool <- MCThreeValidators
  SlotsPerEpoch = 2
  ComputeScoreProgress = 1
  InstantUnstakeProgress = 1
  ComputeScoreSlotRange = 0
  NumEpochsBetweenScoring = 1
  MaxEpoch = 1
SPECIFICATION PassthroughSpec
INVARIANTS OneToOne
CHECK_DEADLOCK FALSE

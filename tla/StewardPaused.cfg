CONSTANTS
  v1 = v1
  v2 = v2
  v3 = v3
  Votes <- MCTwoVotes
  Closable <- MCNone
  MaxValidators = 2
  MaxAdded = 3
  InitialPool <- MCOneValidator
  SlotsPerEpoch = 3
  ComputeScoreProgress = 1
  InstantUnstakeProgress = 2
  ComputeScoreSlotRange = 0
  NumEpochsBetweenScoring = 1
  MaxEpoch = 1
SPECIFICATION Spec
PROPERTIES PausedMakesNoProgress
CHECK_DEADLOCK FALSE

CONSTANTS
  v1 = v1
  v2 = v2
  v3 = v3
  Votes <- MCTwoVotes
  Closable <- MCOne
  MaxValidators = 2
  MaxAdded = 1
  InitialPool <- MCTwoValidators
  SlotsPerEpoch = 3
  ComputeScoreProgress = 1
  InstantUnstakeProgress = 2
  ComputeScoreSlotRange = 1
  NumEpochsBetweenScoring = 1
  MaxEpoch = 1
SPECIFICATION FairSpec
PROPERTY EpochCompletes
CHECK_DEADLOCK FALSE

CONSTANTS
  v1 = v1
  v2 = v2
  v3 = v3
  Votes <- MCTwoVotes
  Closable <- MCNone
  MaxValidators = 2
  MaxAdded = 1
  InitialPool <- MCOneValidator
  SlotsPerEpoch = 1
  ComputeScoreProgress = 0
  InstantUnstakeProgress = 0
  ComputeScoreSlotRange = 0
  NumEpochsBetweenScoring = 1
  MaxEpoch = 1
SPECIFICATION AdminSpec
INVARIANTS TypeOK MachineInv
CHECK_DEADLOCK FALSE

CONSTANTS
  v1 = v1
  v2 = v2
  v3 = v3
  Votes <- MCVotes
  Closable <- MCNone
  MaxValidators = 3
  MaxAdded = 1
  InitialPool <- MCOneValidator
  SlotsPerEpoch = 2
  ComputeScoreProgress = 1
  InstantUnstakeProgress = 0
  ComputeScoreSlotRange = 1
  NumEpochsBetweenScoring = 2
  MaxEpoch = 1
SPECIFICATION Spec
INVARIANTS OneToOne MachineInv
PROPERTIES ProgressFollowsValidators DelegationsLastTheCycle
CHECK_DEADLOCK FALSE
SYMMETRY Newcomers

SPECIFICATION Spec
CONSTANTS
  NumPoolValidators = 2
  MinimumDelegation = 1
  StakeRent = 1
  UnstakeCapBps <- MCHighCaps
  StakeCeiling = 13
  DirectedTargets <- MCTargets
  HistoryIndex <- MCNext
  InitialStakes <- MCTwoStakes
  InitialReserves <- MCLowReserves
  InitialDirected = 9
  Amounts = {9}
  DirectedAmounts = {3}
  Moves <- MCMoves
  InstantUnstakes <- MCInstant
  MaxLamports = 36
  MaxEpoch = 1
INVARIANT AllFunded
PROPERTIES CapsHold CeilingHolds
CHECK_DEADLOCK FALSE

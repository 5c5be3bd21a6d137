SPECIFICATION Spec
CONSTANTS
  NumPoolValidators = 2
  MinimumDelegation = 1
  StakeRent = 1
  UnstakeCapBps <- MCCaps
  StakeCeiling = 100
  DirectedTargets <- MCNoTargets
  HistoryIndex <- MCNext
  InitialStakes <- MCTwoStakes
  InitialReserves <- MCReserves
  InitialDirected = 9
  Amounts = {3}
  DirectedAmounts = {3}
  Moves <- MCAdmin
  InstantUnstakes <- MCInstant
  MaxLamports = 30
  MaxEpoch = 1
INVARIANT BalanceTracksStake
CHECK_DEADLOCK FALSE

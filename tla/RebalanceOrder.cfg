SPECIFICATION Spec
CONSTANTS
  NumPoolValidators = 3
  MinimumDelegation = 1
  StakeRent = 0
  UnstakeCapBps <- MCCaps
  StakeCeiling = 100
  DirectedTargets <- MCNoTargets
  HistoryIndex <- MCIdentity
  InitialStakes <- MCInitialStakes
  InitialReserves <- MCReserves
  InitialDirected = 9
  Amounts = {4}
  DirectedAmounts = {3}
  Moves <- MCDeposits
  InstantUnstakes <- MCInstant
  MaxLamports = 30
  MaxEpoch = 1
INVARIANT NotOverAllocated
PROPERTY OrderMattersOnlyToHiddenDeposits
CHECK_DEADLOCK FALSE

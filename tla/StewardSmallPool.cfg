CONSTANTS
  v1 = v1
  v2 = v2
  v3 = v3
  Votes <- MCVotes
  MaxValidators = 3
  MaxScore = 1
  NumDelegationValidators = 3
  InitialPool <- MCTwoValidators
SPECIFICATION KeeperSpec
INVARIANT SelectionDefined

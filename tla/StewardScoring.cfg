CONSTANTS
  v1 = v1
  v2 = v2
  v3 = v3
  Votes <- MCVotes
  MaxValidators = 3
  MaxScore = 2
  NumDelegationValidators = 2
  InitialPool <- MCThreeValidators
SPECIFICATION KeeperSpec
INVARIANT SortedDescending
PROPERTIES ImplementsCycle

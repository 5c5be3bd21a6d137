CONSTANTS
  v1 = v1
  v2 = v2
  v3 = v3
  NoVote = NoVote
  Votes <- MCTwoVotes
  MaxValidators = 2
  MaxLamports = 1
  MaxTargets = 2
  Goals = {0, 1}
  Moves <- MCMovesOfOne
  MinimumDelegation = 1
  StakeRent = 0
  UnstakeCapBps = 5000
  MaxProduct = 10000
  InitialPool <- MCTwoValidators
  ZeroByteVotes <- MCNone
  s1 = s1
  s2 = s2
  Admin = Admin
  Stakers <- MCStakers
  MaxPreferences = 2
  MaxStakers = 1
  TotalBps = 2
  RateBps = 3
  Tokens = 2
  CoinbaseBalance = 1
  Offers <- MCOffers
  SeatLamports = 1
  MaxAstray = 2
  Parts <- MCSeatsOnly
SPECIFICATION DirectedSpec
INVARIANT AllMirrorsAgree

CONSTANTS
  v1 = v1
  v2 = v2
  v3 = v3
  s1 = s1
  s2 = s2
  NoVote = NoVote
  Admin = Admin
  Votes <- MCTwoVotes
  Stakers <- MCStakers
  MaxValidators = 2
  MaxLamports = 2
  MaxTargets = 2
  Goals = {0, 1}
  Moves <- MCSyncOnly
  MinimumDelegation = 1
  StakeRent = 0
  UnstakeCapBps = 5000
  MaxProduct = 10000
  InitialPool <- MCNoValidator
  ZeroByteVotes <- MCNone
  MaxPreferences = 2
  MaxStakers = 1
  TotalBps = 2
  RateBps = 3
  Tokens = 2
  CoinbaseBalance = 1
  Offers <- MCOffers
  SeatLamports = 1
  MaxAstray = 1
  Parts <- MCTicketsOnly
SPECIFICATION DirectedSpec
INVARIANTS PlanWithinSupply
SYMMETRY Interchangeable
PROPERTIES CoinbaseAdds

CONSTANTS
  MaxItems = 3
  MaxEpoch = 4
  CreditHistory = 3
  MaxTime = 2
  Unset = Unset
  SlotsPerEpoch = 3
  BlockSize = 2
  MaxEntries = 6
  CommissionMax = 1
  BasisPointsMax = 2
  MevWidth = 4
  AgeWidth = 4
  CreditsWidth = 4
  FirstReliable = 1
  NoParameters = NoParameters
  InitialParameters <- MCInitialParameters
  ParameterUpdates <- MCParameterUpdates
  FeeUpdates <- MCFeeUpdates
  Setups <- MCSetups
SPECIFICATION ScoredSpec
INVARIANTS SortedByEpoch AgeCountsCredits GossipFresh BlocksCounted
  ScoredThenKept ScoringDefined ActiveNotDelinquent
PROPERTY ImplementsLog

CONSTANTS
  a = a
  b = b
  Identities <- Both
  SlotsPerEpoch = 2
  MaxEpoch = 2
  FirstEpoch = 1
  Lookback = 1
  Leader <- InTurn
  ProducedChoices <- OneSkipped
  VisibleChoices <- OnlyOneKnown
  EntryChoices <- OneMissing
  BlockLimit = 2
  Redundant = 1
  MaxFaults = 1
SPECIFICATION Spec
INVARIANTS FinalIsExact NoBlockWrittenOff
PROPERTIES CountsNeverShrink EventuallyFinal
CHECK_DEADLOCK FALSE

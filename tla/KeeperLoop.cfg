CONSTANTS
  a = a
  Votes = {a}
  SlotsPerEpoch = 40
  Instants <- Marks
  FirstEpoch = 1
  StartSlot = 21
  MaxEpoch = 2
  Recent = 4
  RunFlags <- Flags
  FullStartup = {FALSE, TRUE}
  HistoryInterval = 1
  StewardInterval = 1
  TickPeriod = 2
  MaxTroubles = 1
SPECIFICATION Spec
INVARIANTS StakeOfItsEpoch
PROPERTIES ThirdRunIsLate EveryFeedRecorded StewardUnblocked
CHECK_DEADLOCK FALSE

SPECIFICATION Spec
CONSTANTS
  s1 = s1
  s2 = s2
  h1 = h1
  h2 = h2
  Strategies = {s1}
  Operators = {}
  Tier <- AllPaper
  Prices <- DebitOnly
  MaxLosses <- Wide
  MaxRecs = 2
  MaxCrashes = 0
  MaxFaults = 0
  MaxConcurrent = 2
  PositionLimit = 2
  BookLimit = 4
  StrategyLimit = 4
  DailyLossHalt = 1
  SettableModes = {"paper"}
  RejectsCloses = FALSE
  TicksOverlap = TRUE
INVARIANTS
  ClosingHasPendingClose

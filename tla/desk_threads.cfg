SPECIFICATION FairSpec
CONSTANTS
  s1 = s1
  s2 = s2
  h1 = h1
  h2 = h2
  Strategies = {s1}
  Operators = {}
  Tier <- AllLive
  Prices <- OneOrTwo
  MaxLosses <- Wide
  MaxRecs = 3
  MaxCrashes = 0
  MaxFaults = 1
  MaxConcurrent = 3
  PositionLimit = 2
  BookLimit = 4
  StrategyLimit = 3
  DailyLossHalt = 1
  SettableModes = {"paper", "draft", "halt"}
  RejectsCloses = FALSE
  TicksOverlap = TRUE
INVARIANTS
  TypeOK
  OpeningsAfterHalt
  ClosedOnce
  PnlBooked
  BookRiskBound
  StrategyShareBound
PROPERTIES
  LossHaltRespected
  ExitHappens

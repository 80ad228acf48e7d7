SPECIFICATION Spec
CONSTANTS
  s1 = s1
  s2 = s2
  h1 = h1
  h2 = h2
  Strategies = {s1, s2}
  Operators = {h1}
  Tier <- MixedTiers
  Prices <- OneOrTwo
  MaxLosses <- Wide
  MaxRecs = 3
  MaxCrashes = 0
  MaxFaults = 0
  MaxConcurrent = 1
  PositionLimit = 2
  BookLimit = 4
  StrategyLimit = 4
  DailyLossHalt = 1
  SettableModes = {"paper", "draft", "live", "halt"}
  RejectsCloses = FALSE
  TicksOverlap = FALSE
INVARIANTS
  ClosingHasPendingClose
  SlotsBound
PROPERTIES
  KeepsBook

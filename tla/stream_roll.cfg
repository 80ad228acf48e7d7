SPECIFICATION FairSpec
CONSTANTS
  f1 = f1
  f2 = f2
  f3 = f3
  Futures = {f1, f2, f3}
  Expiry <- ADayApart
  Strikes = {1, 2}
  StrikeWindow = 1
  MonthsAhead = 2
  DropDte = 1
  MinOpenDte = 3
  MaxLines = 3
  LegsNameFuture = FALSE
  LastDay = 1
  MaxDisconnects = 1
  MaxRestarts = 1
CHECK_DEADLOCK FALSE
INVARIANTS
  StreamTypeOK
  LinesAgree
  OptionsFollowFutures
  WindowSubscribed
  LinesBound
PROPERTIES
  Rolls

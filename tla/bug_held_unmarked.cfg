SPECIFICATION Spec
CONSTANTS
  f1 = f1
  f2 = f2
  f3 = f3
  Futures = {f1, f2, f3}
  Expiry <- ADayApart
  Strikes = {1, 2, 3}
  StrikeWindow = 1
  MonthsAhead = 2
  DropDte = 1
  MinOpenDte = 2
  MaxLines = 4
  LegsNameFuture = FALSE
  LastDay = 1
  MaxDisconnects = 0
  MaxRestarts = 0
INVARIANTS
  HeldStaysMarked

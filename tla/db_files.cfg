SPECIFICATION Spec
CONSTANTS
  d1 = d1
  Daemons = {d1}
  MaxTxns = 2
  MaxCommands = 3
  MaxDeaths = 1
INVARIANTS
  TypeOK
  NothingLost
  RecordedMeansApplied
  SettingsApplied
PROPERTIES
  RestoreIsExact
CHECK_DEADLOCK FALSE

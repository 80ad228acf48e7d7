SPECIFICATION Spec
CONSTANTS
  Offset = 0
  Starting = 1
  DefaultMode = "paper"
  Gains <- LossOrGain
  MaxTime = 2
  MaxRows = 5
INVARIANTS
  TypeOK
  LastAskedIsCurrent
  AllBookedIsCurrent
  WatermarkAboveBalance
CHECK_DEADLOCK FALSE

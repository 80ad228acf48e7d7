SPECIFICATION Spec
CONSTANTS
  Offset <- WestOfUTC
  Starting = 1
  DefaultMode = "paper"
  Gains <- LossOrGain
  MaxTime = 2
  MaxRows = 5
INVARIANTS
  LastAskedIsCurrent

SPECIFICATION Spec
CONSTANTS
  w1 = w1
  Writers = {w1}
  Interval = 2
  Window = 2
  AlertLimit = 1
  MaxTime = 7
  MaxRows = 2
  MaxFaults = 1
INVARIANTS
  TypeOK
  EventsReported
CHECK_DEADLOCK FALSE

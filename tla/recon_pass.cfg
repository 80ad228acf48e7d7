SPECIFICATION Spec
CONSTANTS
  p1 = p1
  p2 = p2
  l1 = l1
  l2 = l2
  Positions = {p1, p2}
  Legs = {l1, l2}
  LegsOf <- SharedLeg
  Quantities = {0, 1}
  SettableModes = {"paper", "live"}
INVARIANTS
  TypeOK
  AlarmsAreReal
PROPERTIES
  MismatchHalts

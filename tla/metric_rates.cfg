SPECIFICATION Spec
CONSTANTS
  a = a
  b = b
  Kinds <- MCKinds
  Null = Null
  MaxTime = 3
  MaxStep = 1
  MaxSent = 3
INVARIANTS
  RatesAreTrue
  IntervalsDisjoint
CHECK_DEADLOCK FALSE

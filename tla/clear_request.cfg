SPECIFICATION Spec
CONSTANTS
  c1 = c1
  c2 = c2
  Calls = {c1, c2}
  Exporter = e
  Null = Null
  MaxRow = 2
  MaxFlips = 2
  MaxWrong = 1
INVARIANTS
  ClearedMeansGone
  RefusedMeansKept
PROPERTIES
  OnlyConfirmed
SYMMETRY CallSymmetry
CHECK_DEADLOCK FALSE

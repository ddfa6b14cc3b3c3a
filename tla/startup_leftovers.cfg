SPECIFICATION Spec
CONSTANTS
  Collectors = {c1}
  Resetters = {}
  Readers = {}
  Rows = {r1}
  MaxStarts = 2
INVARIANTS
  OwnLeftoversRecovered
CHECK_DEADLOCK FALSE

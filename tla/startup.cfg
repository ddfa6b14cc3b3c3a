SPECIFICATION Spec
CONSTANTS
  Collectors = {c1, c2}
  Resetters = {z}
  Readers = {q1}
  Rows = {r1}
  MaxStarts = 2
SYMMETRY CollectorSymmetry
INVARIANTS
  OneOwner
  ForeignUntouched
  AckedSurvive
  OpenFilesSpared
  RunningIsCurrent
CHECK_DEADLOCK FALSE

SPECIFICATION Spec
CONSTANTS
  Sessions <- MCSessions
  KeyOrder <- MCKeys
  MaxDepth = 2
INVARIANTS
  LimitsExact
  SecretsCut
  OneRowPerRecord
CHECK_DEADLOCK FALSE

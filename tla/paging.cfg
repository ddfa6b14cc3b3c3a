SPECIFICATION Spec
CONSTANTS
  Initial = {1, 2, 3, 4}
  MaxId = 5
  Columns = {"a", "b"}
  NameBytes <- MCNameBytes
  Filled <- MCFilled
  Tables <- MCTables
  Receipts <- MCReceipts
  Options <- MCOptions
  MaxBytes = 1024
  MaxOffset = 3
INVARIANTS
  PageFits
  PagesShowTheTable
PROPERTIES
  PagingEnds
CHECK_DEADLOCK FALSE

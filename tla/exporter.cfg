SPECIFICATION Spec
CONSTANTS
  Requests = {"lastbad", "large", "wide", "span1", "span2"}
  Signal <- MCSignal
  Parts <- MCParts
  SpanKey <- MCSpanKey
  Calls = {h1, h2}
  MaxCount = 2
  MaxDescriptors = 2
  MaxBytes = 3
  Null = Null
  MaxFaults = 1
INVARIANTS
  VerdictIsTrue
PROPERTIES
  OnlyWholeRequests
  EverySettled
CHECK_DEADLOCK FALSE

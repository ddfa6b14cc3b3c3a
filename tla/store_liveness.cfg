SPECIFICATION FairSpec
CONSTANTS
  Exporters = {e1}
  Clearers = {c1}
  Viewers = {v1}
  Closers = {z1}
  Maint = maint
  Free = free
  Null = null
  l1 = l1
  s1 = s1
  s1x = s1x
  SpanKey <- MCSpanKey
  Records <- OneSpan
  InitialRows <- NoRows
  RoundSize = 1
  MaxPressure = 1
  MaxCalls = 1
  MaxFaults = 2
INVARIANTS
  IInv
PROPERTIES
  EveryCallReturns
  ShutdownReturns
  Recovers

SPECIFICATION Spec
CONSTANTS
  Exporters = {e1, e2}
  Clearers = {c1}
  Viewers = {}
  Closers = {z1}
  Maint = maint
  Free = free
  Null = null
  l1 = l1
  s1 = s1
  s1x = s1x
  Records <- MixRecords
  SpanKey <- MCSpanKey
  InitialRows <- OldLog
  RoundSize = 2
  MaxPressure = 2
  MaxCalls = 2
  MaxFaults = 1
SYMMETRY StoreSymmetry
INVARIANTS
  NoUseAfterClose
  CountersMatchRows
  ShutdownIsFinal
  AckMeansStored
  FaultNotMasked
PROPERTIES
  ImplementsTelemetry

SPECIFICATION ReportingFairSpec
CONSTANTS
  Requests = {r1}
  Probes = {}
  MaxInFlight = 1
  MaxRequests = 2
  MaxProbes = 0
  MaxFlips = 0
INVARIANTS
  NothingReportedTwice
PROPERTIES
  RejectionsReported
  ReporterStops

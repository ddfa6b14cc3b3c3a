SPECIFICATION FairSpec
CONSTANTS
  Requests = {r1, r2}
  Probes = {p1}
  MaxInFlight = 1
  MaxRequests = 2
  MaxProbes = 1
  MaxFlips = 1
INVARIANTS
  AtMostMaxInFlight
  NothingLeaks
  ProbeIsHonest
  ExportsAreWelcome
PROPERTIES
  EveryExportReturns

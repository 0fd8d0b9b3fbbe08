CONSTANTS
  Auctions = {a1, a2}
  Bids = {b1}
  EnrichCapacity = 1
  ReportCapacity = 1
  Shutdowns = {s1, s2}
SPECIFICATION FairSpec
CHECK_DEADLOCK FALSE
INVARIANTS
  FailedBuildLeaksNothing
  ModuleInv
  NilMeansClosed
  ReportsAttributed
PROPERTIES
  ShutdownEnds

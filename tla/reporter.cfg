CONSTANTS
  MaxConcurrentCalls = 1
  Requests = {r1, r2}
  Shutdowns = {s1, s2}
SPECIFICATION CallerFairSpec
INVARIANTS
  DrainedQuiescent
  DrainBeforeCancel
  SettledOnce
  ReporterInv
PROPERTIES
  CapacityRejectIsGenuine
  ImplementsPool
  TryReportReturns
  ShutdownReturns
  ImplementsPoolLive

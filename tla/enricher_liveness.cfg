CONSTANTS
  MaxConcurrentCalls = 1
  Callers = {c1, c2}
  Shutdowns = {s1}
  Ids = {i1}
  Timeouts = {2}
  Waits = {0, 1}
  NoWait = NoWait
  HasCache = TRUE
  S2SReplies = {"ids", "error"}
SPECIFICATION CallerFairSpec
PROPERTIES
  DetachedReturns
  ImplementsPoolLive

CONSTANTS
  MaxConcurrentCalls = 1
  Callers = {c1, c2}
  Shutdowns = {s1}
  Ids = {i1}
  Timeouts <- MCTimeouts
  Waits <- MCWaits
  NoWait = NoWait
  HasCache = TRUE
  S2SReplies = {"ids", "noIDs", "empty", "error"}
SPECIFICATION Spec
INVARIANTS
  EnrichedMeansAdded

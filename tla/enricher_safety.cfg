CONSTANTS
  MaxConcurrentCalls = 1
  Callers = {c1, c2}
  Shutdowns = {s1}
  Ids = {i1}
  Timeouts <- MCTimeouts
  Waits <- MCWaits
  NoWait = NoWait
  HasCache = TRUE
  S2SReplies = {"ids", "noIDs", "empty", "error"}
SYMMETRY Symmetry
SPECIFICATION Spec
INVARIANTS
  EnricherInv
  AnswersFromUpstream
  TalliedAsAnswered
PROPERTIES
  LimitRejectIsGenuine
  ResultDelivered
  ImplementsPool

CONSTANTS
  DurationLimit = 64
  Millisecond = 2
  MillisPerSecond = 2
  ExpirationLimit = 5
  Goroutines = {"g1", "g2"}
  Statuses = {200, 503}
  Cttls <- MCCttls
  NoCttl = NoCttl
  Stores <- MCStores
  Clock <- MCClock
  MaxTime = 18
  Calls <- MCCalls
  Config <- MCConfig
SPECIFICATION Spec
INVARIANTS
  EntriesWhole
  StoreOutlivesEntry
  FailuresStayFailures
PROPERTIES
  ServedWithinLife

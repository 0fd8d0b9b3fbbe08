CONSTANTS
  Empty = Empty
  Blank = Blank
  IIQ = "intentiq.com"
  Shared <- MCShared
  Lower <- MCLower
  Upper <- MCUpper
  Matches <- MCMatches
  NoDevice = NoDevice
  NoSUA = NoSUA
  NoSite = NoSite
  NoApp = NoApp
  NoRegs = NoRegs
  Absent = Absent
  NoExt = NoExt
  ID = ID
  Texts <- MCTexts
  Cases <- MCCases
  Resolved <- MCResolved
  Bids <- MCBids
  u1 = u1
  u2 = u2
  p1 = p1
  p2 = p2
  ua1 = ua1
  ua2 = ua2
  ip4 = ip4
  ip6 = ip6
SPECIFICATION Spec
CHECK_DEADLOCK FALSE
INVARIANTS
  KeysComplete
  KeysInOrder
  AskedIsCached
  SignalsForwarded
  ReportMatchesRequest

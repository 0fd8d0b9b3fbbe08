CONSTANTS
  k1 = k1
  k2 = k2
  w1 = w1
  w2 = w2
  n1 = n1
  Nodes = {n1}
  Workers = {w1, w2}
  NodeOf <- MCOneNode
  Calls <- MCReadWrite
  Keys = {k1, k2}
  KeyType <- MCKeyType
  KeyLists <- MCBoth
  CacheTTLs = {0}
  MarkerTTL = 1
  DefaultTTL = 2
  FirstPartyCeiling = 2
  ThirdPartyCeiling = 1
  DeviceCeiling = 1
  NegativeTTL = 1
  MaxTime = 1
SPECIFICATION Spec
INVARIANTS
  CacheInv
  MarkersStayInL2
  CeilingRespected
  AliasWithinDeadline
PROPERTIES
  ResolvedWins

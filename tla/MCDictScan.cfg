\* SCAN iterations interleaved with every call of the server on the dict.
CONSTANTS
  k1 = k1
  k2 = k2
  k3 = k3
  k4 = k4
  CursorBits = 4
  Keys <- MCKeys
  Hash <- MCHash
SPECIFICATION FairSpec
INVARIANTS
  RevIsReversal
  ScanReturnsEveryStableKey
PROPERTY
  RehashFinishes

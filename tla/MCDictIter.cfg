\* Every call of the server on one dict (growth, shrink, rehash, the resize
\* switch) and a safe iterator walking it while its loop body adds, finds
\* and deletes.
CONSTANTS
  k1 = k1
  k2 = k2
  k3 = k3
  k4 = k4
  NoEntry = NoEntry
  Keys <- MCKeys
  Hash <- MCHash
SPECIFICATION Spec
INVARIANTS
  TypeOK
  TablesWellFormed
  NoDuplicateEntries
  SafeIteratorReturnsEachOnce
  IteratorsCounted
PROPERTY
  DictImplementsKeyMap

\* DECRBY with LLONG_MIN (-4 on the 3-bit long long of the model).
CONSTANTS
  k1 = k1
  k2 = k2
  c1 = c1
  c2 = c2
  NoKey = NoKey
  NotBlocked = NotBlocked
  STRING_VALUE = STRING_VALUE
  NoStr = NoStr
  Keys <- MCKeys
  Clients <- MCClients
  MaxVal = 3
  LLBits = 3
  OBJ_SHARED_INTEGERS = 2
  ProtoMaxLen = 2
  SetArgs <- MCSetArgs
  IncrArgs <- MCIncrArgsMin
  Offsets = {0, 1}
  Ranges <- MCRanges
  ListIndexes <- MCListIndexes
  RenamePairs <- MCRenamePairs
  StringKeys <- MCStringKeys
SPECIFICATION KeyspaceSpec
PROPERTY
  IncrIsExact

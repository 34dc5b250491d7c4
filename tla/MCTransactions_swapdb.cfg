\* A WATCHed key changed by SwapWatchCmds while the watcher is not CLIENT_DIRTY_CAS.
CONSTANTS
  DBs = {db0, db1}
  Keys = {k1}
  Vals = {v1}
  Clients = {c1, c2}
  NIL = NIL
  TTL = 1
  MaxTime = 0
  MaxQueue = 1
  Cmds <- SwapWatchCmds
  QueueCmds <- SwapWatchCmds
SYMMETRY Symmetry
SPECIFICATION Spec
INVARIANT
  WatchedKeysUnchangedUnlessDirty

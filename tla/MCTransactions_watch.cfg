\* WATCH / MULTI / EXEC against SET, DEL, RENAME, SELECT, FLUSHDB and FLUSHALL across two databases, each client watching one key at a time.
CONSTANTS
  DBs = {db0, db1}
  Keys = {k1, k2}
  Vals = {v1}
  Clients = {c1, c2}
  NIL = NIL
  TTL = 1
  MaxTime = 0
  MaxQueue = 1
  Cmds <- WatchCmds
  QueueCmds <- WatchCmds
SYMMETRY Symmetry
SPECIFICATION Spec
INVARIANTS
  WatchIndexesAgree
  WatchedKeysUnchangedUnlessDirty
CONSTRAINT
  WatchBound

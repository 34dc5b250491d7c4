\* Every command, with SETEX deadlines passing as the clock ticks, also
\* between the two queued commands of one EXEC.
CONSTANTS
  DBs = {db0, db1}
  Keys = {k1, k2}
  Vals = {v1}
  Clients = {c1}
  NIL = NIL
  TTL = 1
  MaxTime = 2
  MaxQueue = 2
  Cmds <- AllCmds
  QueueCmds <- ExecExpiryCmds
SYMMETRY Symmetry
SPECIFICATION Spec
INVARIANTS
  TypeOK
  ExpiresHaveKeys

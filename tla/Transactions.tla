---------------------------- MODULE Transactions ----------------------------
(***************************************************************************)
(* MULTI / EXEC / DISCARD / WATCH / UNWATCH of multi.c over the keyspace   *)
(* of db.c (module Keyspace), with several clients whose commands the      *)
(* event loop runs one at a time, each to completion.                      *)
(*                                                                         *)
(* A client outside MULTI has its command called at once; inside MULTI    *)
(* every command but EXEC, DISCARD, MULTI and WATCH is queued, and a       *)
(* command rejected while queueing flags the transaction (processCommand, *)
(* which is not in this repository, decides this as the spec describes).  *)
(* Time advances between commands, and also between the commands an EXEC *)
(* calls: each reads mstime() again when expireIfNeeded looks at a key.   *)
(***************************************************************************)
EXTENDS Keyspace, Sequences, SequencesExt, FiniteSets

CONSTANTS
  Cmds,      \* the data commands clients send: records [op, key, arg]
  QueueCmds, \* the data commands clients queue inside MULTI
  TTL,       \* the EX argument of SETEX, in clock ticks
  MaxTime,   \* bound on the clock
  MaxQueue   \* bound on the length of a MULTI queue

ASSUME TTL \in Nat \ {0} /\ MaxTime \in Nat /\ MaxQueue \in Nat \ {0}

VARIABLES
  dict,            \* redisDb.dict
  expires,         \* redisDb.expires
  now,             \* mstime()
  cdb,             \* client.db
  flags,           \* client.flags: MULTI, DIRTY_CAS, DIRTY_EXEC
  mstate,          \* client.mstate.commands: the MULTI queue
  watched_keys,    \* client.watched_keys: set of <<db, key>>
  db_watched_keys, \* redisDb.watched_keys: key -> clients watching it
  watched_changed  \* history: a key c watches changed value since c's WATCH

vars == <<dict, expires, now, cdb, flags, mstate, watched_keys,
          db_watched_keys, watched_changed>>

\* The server-state record the Keyspace operators act on.
S == [dict |-> dict, expires |-> expires, flags |-> flags, cdb |-> cdb]

\* Assign the record produced by a command back to the variables.
SetS(s) ==
  /\ dict' = s.dict
  /\ expires' = s.expires
  /\ flags' = s.flags
  /\ cdb' = s.cdb

TypeOK ==
  /\ dict \in [DBs -> [Keys -> Vals \cup {NIL}]]
  /\ expires \in [DBs -> [Keys -> {NoExpire} \cup 0..(MaxTime + TTL)]]
  /\ now \in 0..MaxTime
  /\ cdb \in [Clients -> DBs]
  /\ flags \in [Clients -> SUBSET ClientFlags]
  /\ mstate \in [Clients -> BoundedSeq(Cmds, MaxQueue)]
  /\ watched_keys \in [Clients -> SUBSET (DBs \X Keys)]
  /\ db_watched_keys \in [DBs -> [Keys -> SUBSET Clients]]
  /\ watched_changed \in [Clients -> BOOLEAN]

Init ==
  /\ dict = [d \in DBs |-> [k \in Keys |-> NIL]]
  /\ expires = [d \in DBs |-> [k \in Keys |-> NoExpire]]
  /\ now = 0
  /\ \E d0 \in DBs : cdb = [c \in Clients |-> d0]
  /\ flags = [c \in Clients |-> {}]
  /\ mstate = [c \in Clients |-> <<>>]
  /\ watched_keys = [c \in Clients |-> {}]
  /\ db_watched_keys = [d \in DBs |-> [k \in Keys |-> {}]]
  /\ watched_changed = [c \in Clients |-> FALSE]

-----------------------------------------------------------------------------
(* call(): dispatch a data command to its handler (command table); t is  *)
(* the mstime() its expireIfNeeded calls read.                             *)
Call(s, t, c, cmd) ==
  CASE cmd.op = "SET"      -> SetCommand(s, t, db_watched_keys, c, cmd.key, cmd.arg, FALSE, 0)
    [] cmd.op = "SETNX"    -> SetCommand(s, t, db_watched_keys, c, cmd.key, cmd.arg, TRUE, 0)
    [] cmd.op = "SETEX"    -> SetCommand(s, t, db_watched_keys, c, cmd.key, cmd.arg, FALSE, TTL)
    [] cmd.op = "GET"      -> GetCommand(s, t, c, cmd.key)
    [] cmd.op = "DEL"      -> DelCommand(s, t, db_watched_keys, c, cmd.key)
    [] cmd.op = "FLUSHDB"  -> FlushdbCommand(s, watched_keys, c)
    [] cmd.op = "FLUSHALL" -> FlushallCommand(s, watched_keys)
    [] cmd.op = "SELECT"   -> SelectCommand(s, c, cmd.arg)
    [] cmd.op = "MOVE"     -> MoveCommand(s, t, c, cmd.key, cmd.arg)
    [] cmd.op = "SWAPDB"   -> SwapdbCommand(s, cmd.arg[1], cmd.arg[2])
    [] cmd.op = "RENAME"   -> RenameCommand(s, t, db_watched_keys, c, cmd.key, cmd.arg, FALSE)
    [] cmd.op = "RENAMENX" -> RenameCommand(s, t, db_watched_keys, c, cmd.key, cmd.arg, TRUE)

\* History: record, for every client, whether a step changed the value of
\* a key it watches (the keys after the step, which the step may unwatch).
RecordWatchedChanges ==
  watched_changed' = [c \in Clients |->
    IF watched_keys'[c] = {} THEN FALSE
    ELSE watched_changed[c] \/ \E dk \in watched_keys'[c] :
                                dict'[dk[1]][dk[2]] # dict[dk[1]][dk[2]]]

\* Mutant: c is removed only from the lists of its current database.
UnwatchAllKeysCurrentDb(c) ==
  /\ db_watched_keys' = [db_watched_keys EXCEPT ![cdb[c]] =
                           [k \in Keys |-> @[k] \ {c}]]
  /\ watched_keys' = [watched_keys EXCEPT ![c] = {}]

\* unwatchAllKeys: remove c from every db->watched_keys list it is on and
\* empty its own list.
UnwatchAllKeys(c) ==
  /\ db_watched_keys' = [d \in DBs |-> [k \in Keys |->
                           db_watched_keys[d][k] \ {c}]]
  /\ watched_keys' = [watched_keys EXCEPT ![c] = {}]

\* discardTransaction on a record: free the queue and clear the
\* transaction flags (the unwatch is done by UnwatchAllKeys).
DiscardTransactionFlags(s, c) ==
  [s EXCEPT !.flags[c] = @ \ {"MULTI", "DIRTY_CAS", "DIRTY_EXEC"}]

-----------------------------------------------------------------------------
(* One action per command a client sends.                                  *)

\* A data command outside MULTI is called at once.
RunCommand(c, cmd) ==
  /\ "MULTI" \notin flags[c]
  /\ SetS(Call(S, now, c, cmd))
  /\ UNCHANGED <<now, mstate, watched_keys, db_watched_keys>>
  /\ RecordWatchedChanges

\* queueMultiCommand: inside MULTI a data command is appended to the queue.
QueueMultiCommand(c, cmd) ==
  /\ "MULTI" \in flags[c]
  /\ Len(mstate[c]) < MaxQueue
  /\ mstate' = [mstate EXCEPT ![c] = Append(@, cmd)]
  /\ UNCHANGED <<dict, expires, now, cdb, flags, watched_keys,
                 db_watched_keys, watched_changed>>

\* flagTransaction: a command rejected while queueing (unknown command,
\* wrong arity) makes the coming EXEC fail.
FlagTransaction(c) ==
  /\ "MULTI" \in flags[c]
  /\ flags' = [flags EXCEPT ![c] = @ \cup {"DIRTY_EXEC"}]
  /\ UNCHANGED <<dict, expires, now, cdb, mstate, watched_keys,
                 db_watched_keys, watched_changed>>

\* multiCommand (a nested MULTI is an error that changes nothing).
MultiCommand(c) ==
  /\ "MULTI" \notin flags[c]
  /\ flags' = [flags EXCEPT ![c] = @ \cup {"MULTI"}]
  /\ UNCHANGED <<dict, expires, now, cdb, mstate, watched_keys,
                 db_watched_keys, watched_changed>>

\* discardCommand -> discardTransaction.
DiscardCommand(c) ==
  /\ "MULTI" \in flags[c]
  /\ flags' = DiscardTransactionFlags(S, c).flags
  /\ mstate' = [mstate EXCEPT ![c] = <<>>]
  /\ UnwatchAllKeys(c)
  /\ UNCHANGED <<dict, expires, now, cdb>>
  /\ RecordWatchedChanges

\* execCommand with CLIENT_DIRTY_CAS or CLIENT_DIRTY_EXEC set: reply nil
\* or EXECABORT and discardTransaction; no queued command runs.
ExecAbort(c) ==
  /\ "MULTI" \in flags[c]
  /\ flags[c] \cap {"DIRTY_CAS", "DIRTY_EXEC"} # {}
  /\ flags' = DiscardTransactionFlags(S, c).flags
  /\ mstate' = [mstate EXCEPT ![c] = <<>>]
  /\ UnwatchAllKeys(c)
  /\ UNCHANGED <<dict, expires, now, cdb>>
  /\ RecordWatchedChanges

\* The mstime() readings of n commands called one after another from now:
\* like Tick, the model's clock only moves forward.
ExecTimes(n) ==
  {ts \in [1..n -> now..MaxTime] : \A i \in 1..(n - 1) : ts[i] <= ts[i + 1]}

\* execCommand otherwise: unwatchAllKeys, call every queued command in
\* order, each at its own mstime(), then discardTransaction.
ExecRun(c) ==
  /\ "MULTI" \in flags[c]
  /\ flags[c] \cap {"DIRTY_CAS", "DIRTY_EXEC"} = {}
  /\ \E ts \in ExecTimes(Len(mstate[c])) :
       LET step(s, i) == Call(s, ts[i], c, mstate[c][i])
       IN /\ SetS(DiscardTransactionFlags(FoldLeftDomain(step, S, mstate[c]), c))
          /\ now' = IF mstate[c] = <<>> THEN now ELSE ts[Len(mstate[c])]
  /\ mstate' = [mstate EXCEPT ![c] = <<>>]
  /\ UnwatchAllKeys(c)
  /\ RecordWatchedChanges

\* watchForKey for one key (watchCommand; WATCH inside MULTI is an error).
\* An already watched key is left as it is.
WatchCommand(c, k) ==
  /\ "MULTI" \notin flags[c]
  /\ <<cdb[c], k>> \notin watched_keys[c]
  /\ db_watched_keys' = [db_watched_keys EXCEPT ![cdb[c]][k] = @ \cup {c}]
  /\ watched_keys' = [watched_keys EXCEPT ![c] = @ \cup {<<cdb[c], k>>}]
  /\ UNCHANGED <<dict, expires, now, cdb, flags, mstate>>
  /\ RecordWatchedChanges

\* unwatchCommand: unwatchAllKeys and clear CLIENT_DIRTY_CAS.
UnwatchCommand(c) ==
  /\ "MULTI" \notin flags[c]
  /\ flags' = [flags EXCEPT ![c] = @ \ {"DIRTY_CAS"}]
  /\ UnwatchAllKeys(c)
  /\ UNCHANGED <<dict, expires, now, cdb, mstate>>
  /\ RecordWatchedChanges

\* The wall clock moves forward between commands.
Tick ==
  /\ now < MaxTime
  /\ now' = now + 1
  /\ UNCHANGED <<dict, expires, cdb, flags, mstate, watched_keys,
                 db_watched_keys, watched_changed>>

Next ==
  \/ \E c \in Clients :
       \/ \E cmd \in Cmds : RunCommand(c, cmd)
       \/ \E cmd \in QueueCmds : QueueMultiCommand(c, cmd)
       \/ FlagTransaction(c)
       \/ MultiCommand(c)
       \/ DiscardCommand(c)
       \/ ExecAbort(c)
       \/ ExecRun(c)
       \/ \E k \in Keys : WatchCommand(c, k)
       \/ UnwatchCommand(c)
  \/ Tick

Spec == Init /\ [][Next]_vars

-----------------------------------------------------------------------------
(* Properties                                                              *)

\* Every key with an expire is in the main dict: removeExpire, getExpire
\* and setExpire assert it, and a key left in expires without a dict entry
\* would never be freed. MOVE, RENAME, SWAPDB, FLUSHDB and lazy expiration
\* all move or drop the two entries separately.
ExpiresHaveKeys ==
  \A d \in DBs, k \in Keys : expires[d][k] # NoExpire => dict[d][k] # NIL

\* The two watch indexes agree: c is on db->watched_keys[k] exactly when
\* <<db, k>> is on c->watched_keys. unwatchAllKeys asserts the db-side
\* list exists for every client-side entry; SWAPDB and SELECT must not
\* break the correspondence.
WatchIndexesAgree ==
  \A c \in Clients, d \in DBs, k \in Keys :
    c \in db_watched_keys[d][k] <=> <<d, k>> \in watched_keys[c]

\* Optimistic locking: while a client is not CLIENT_DIRTY_CAS, no key it
\* WATCHes has changed value since WATCH added it (not even to change back),
\* so an EXEC that runs its queue (ExecRun) runs it against watched keys
\* that nobody modified.
WatchedKeysUnchangedUnlessDirty ==
  \A c \in Clients :
    "DIRTY_CAS" \notin flags[c] =>
      ~watched_changed[c]
=============================================================================

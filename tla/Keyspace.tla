------------------------------ MODULE Keyspace ------------------------------
(***************************************************************************)
(* The keyspace of db.c and the string commands of t_string.c, written as  *)
(* operators that map a server-state record to the record after the call:  *)
(*                                                                         *)
(*   s.dict    [DBs -> [Keys -> Vals \cup {NIL}]]   redisDb.dict            *)
(*   s.expires [DBs -> [Keys -> Int]]              redisDb.expires, where   *)
(*             NoExpire (-1) is "no entry", the value getExpire returns    *)
(*   s.flags   [Clients -> SUBSET ClientFlags]     client.flags             *)
(*   s.cdb     [Clients -> DBs]                    client.db                *)
(*                                                                         *)
(* Every command runs with the server a master (masterhost == NULL), not   *)
(* loading and outside Lua, so expireIfNeeded deletes what has expired.    *)
(* Value objects are abstracted to members of Vals; refcounts, LRU/LFU,    *)
(* keyspace notifications and propagation to AOF/replicas are left out.    *)
(* Watchers are passed in: w is db->watched_keys as [DBs -> [Keys -> SUBSET *)
(* Clients]] and wk is client->watched_keys as [Clients -> SUBSET (DBs \X  *)
(* Keys)].                                                                 *)
(***************************************************************************)
EXTENDS Integers

CONSTANTS
  DBs,      \* the databases server.db[0 .. dbnum-1]
  Keys,     \* key names
  Vals,     \* string values
  Clients,  \* connected clients
  NIL       \* "no such key" in dict

ASSUME NIL \notin Vals

NoExpire == -1
ClientFlags == {"MULTI", "DIRTY_CAS", "DIRTY_EXEC"}

\* keyIsExpired: a key with a deadline is expired once now is past it.
KeyIsExpired(s, now, d, k) == s.expires[d][k] >= 0 /\ now > s.expires[d][k]

\* Mutant: the expire entry is left behind when the key is deleted.
DbSyncDeleteKeepExpire(s, d, k) == [s EXCEPT !.dict[d][k] = NIL]

\* dbSyncDelete: drop the expire entry and the key (dbDelete with lazy
\* freeing has the same effect on the keyspace).
DbSyncDelete(s, d, k) ==
  [s EXCEPT !.expires[d][k] = NoExpire, !.dict[d][k] = NIL]

\* expireIfNeeded on a master: an expired key is deleted. No watcher is
\* touched on this path.
ExpireIfNeeded(s, now, d, k) ==
  IF KeyIsExpired(s, now, d, k) THEN DbSyncDelete(s, d, k) ELSE s

\* lookupKeyRead / lookupKeyWrite: lazy expiration, then lookupKey, which
\* only refreshes the access clock.
LookupKeyRead(s, now, d, k) == ExpireIfNeeded(s, now, d, k)
LookupKeyWrite(s, now, d, k) == ExpireIfNeeded(s, now, d, k)

\* touchWatchedKey (multi.c), reached through signalModifiedKey: every
\* client watching (d, k) gets CLIENT_DIRTY_CAS.
TouchWatchedKey(s, w, d, k) ==
  [s EXCEPT !.flags = [c \in Clients |->
                         IF c \in w[d][k] THEN @[c] \cup {"DIRTY_CAS"}
                                          ELSE @[c]]]

SignalModifiedKey(s, w, d, k) == TouchWatchedKey(s, w, d, k)

\* touchWatchedKeysOnFlush (multi.c), reached through signalFlushedDb: a
\* client watching a key of a flushed database that is present in its dict
\* gets CLIENT_DIRTY_CAS. ds is {dbid}, or DBs for dbid == -1.
TouchWatchedKeysOnFlush(s, wk, ds) ==
  [s EXCEPT !.flags = [c \in Clients |->
      IF \E dk \in wk[c] : dk[1] \in ds /\ s.dict[dk[1]][dk[2]] # NIL
      THEN @[c] \cup {"DIRTY_CAS"} ELSE @[c]]]

\* dbAdd / dbOverwrite: bind the key; the existing expire is kept.
DbAdd(s, d, k, v) == [s EXCEPT !.dict[d][k] = v]

\* setExpire: record the absolute deadline for an existing key.
SetExpire(s, d, k, when) == [s EXCEPT !.expires[d][k] = when]

\* removeExpire
RemoveExpire(s, d, k) == [s EXCEPT !.expires[d][k] = NoExpire]

\* setKey: lookupKeyWrite, add or overwrite, removeExpire, signal.
SetKey(s, now, w, d, k, v) ==
  SignalModifiedKey(RemoveExpire(DbAdd(LookupKeyWrite(s, now, d, k), d, k, v),
                                 d, k),
                    w, d, k)

\* emptyDb for the databases ds (synchronous or async: same keyspace).
EmptyDb(s, ds) ==
  [s EXCEPT !.dict    = [d \in DBs |-> IF d \in ds THEN [k \in Keys |-> NIL]
                                                   ELSE @[d]],
            !.expires = [d \in DBs |-> IF d \in ds THEN [k \in Keys |-> NoExpire]
                                                   ELSE @[d]]]

-----------------------------------------------------------------------------
(* Command handlers. c is the calling client, now is mstime().             *)

\* Mutant: the seconds-to-milliseconds conversion applied to a deadline
\* that is already absolute.
SetCommandScaledDeadline(s, now, w, c, k, v, nx, ttl) ==
  LET d  == s.cdb[c]
      s1 == LookupKeyWrite(s, now, d, k)
  IN IF nx /\ s1.dict[d][k] # NIL
     THEN s1
     ELSE LET s2 == SetKey(s1, now, w, d, k, v)
          IN IF ttl > 0 THEN SetExpire(s2, d, k, (now + ttl) * 1000) ELSE s2

\* setGenericCommand: SET k v [NX] [EX ttl]. ttl = 0 is "no EX".
SetCommand(s, now, w, c, k, v, nx, ttl) ==
  LET d  == s.cdb[c]
      s1 == LookupKeyWrite(s, now, d, k)
  IN IF nx /\ s1.dict[d][k] # NIL
     THEN s1
     ELSE LET s2 == SetKey(s1, now, w, d, k, v)
          IN IF ttl > 0 THEN SetExpire(s2, d, k, now + ttl) ELSE s2

\* getCommand
GetCommand(s, now, c, k) == LookupKeyRead(s, now, s.cdb[c], k)

\* delGenericCommand: expireIfNeeded, delete, and signal only if deleted.
DelCommand(s, now, w, c, k) ==
  LET d  == s.cdb[c]
      s1 == ExpireIfNeeded(s, now, d, k)
  IN IF s1.dict[d][k] # NIL
     THEN SignalModifiedKey(DbSyncDelete(s1, d, k), w, d, k)
     ELSE s1

\* Mutant: the database is emptied before its watchers are looked up.
FlushdbCommandEmptyFirst(s, wk, c) ==
  TouchWatchedKeysOnFlush(EmptyDb(s, {s.cdb[c]}), wk, {s.cdb[c]})

\* flushdbCommand: signalFlushedDb, then emptyDb.
FlushdbCommand(s, wk, c) ==
  EmptyDb(TouchWatchedKeysOnFlush(s, wk, {s.cdb[c]}), {s.cdb[c]})

\* flushallCommand: signalFlushedDb(-1), then emptyDb(-1).
FlushallCommand(s, wk) == EmptyDb(TouchWatchedKeysOnFlush(s, wk, DBs), DBs)

\* selectCommand / selectDb
SelectCommand(s, c, id) == [s EXCEPT !.cdb[c] = id]

\* moveCommand: add to dst with the same expire, delete from src. No key
\* is signalled.
MoveCommand(s, now, c, k, dst) ==
  LET src == s.cdb[c]
      s1  == LookupKeyWrite(s, now, src, k)
      o   == s1.dict[src][k]
      e   == s1.expires[src][k]
      s2  == LookupKeyWrite(s1, now, dst, k)
      s3  == DbAdd(s2, dst, k, o)
      s4  == IF e # NoExpire THEN SetExpire(s3, dst, k, e) ELSE s3
  IN IF src = dst THEN s
     ELSE IF o = NIL THEN s1
     ELSE IF s2.dict[dst][k] # NIL THEN s2
     ELSE DbSyncDelete(s4, src, k)

\* dbSwapDatabases: swap dict and expires; watched_keys stay in place.
SwapdbCommand(s, id1, id2) ==
  [s EXCEPT !.dict[id1] = s.dict[id2], !.dict[id2] = s.dict[id1],
            !.expires[id1] = s.expires[id2], !.expires[id2] = s.expires[id1]]

\* renameGenericCommand: RENAME / RENAMENX src dst.
RenameCommand(s, now, w, c, src, dst, nx) ==
  LET d  == s.cdb[c]
      s1 == LookupKeyWrite(s, now, d, src)
      o  == s1.dict[d][src]
      e  == s1.expires[d][src]
      s2 == LookupKeyWrite(s1, now, d, dst)
      s3 == IF s2.dict[d][dst] # NIL THEN DbSyncDelete(s2, d, dst) ELSE s2
      s4 == DbAdd(s3, d, dst, o)
      s5 == IF e # NoExpire THEN SetExpire(s4, d, dst, e) ELSE s4
      s6 == DbSyncDelete(s5, d, src)
  IN IF o = NIL \/ src = dst THEN s1
     ELSE IF nx /\ s2.dict[d][dst] # NIL THEN s2
     ELSE SignalModifiedKey(SignalModifiedKey(s6, w, d, src), w, d, dst)
=============================================================================

# TLA+ models of the Redis server core

This directory holds TLA+ models of parts of the Redis server in `src/`, the
TLC configurations that check them, and `PROJECT.json`. That file lists the
components, the runs, the mutants, the map from every definition to the
source lines it models, the findings, and the hazards.

## The system

The files in `src/` belong to a single-threaded server:

| part | source | state | operations |
|---|---|---|---|
| Event loop | `unnamed/part_002` (ae.c), `ae.h` | file events per fd (mask, read/write handlers), a list of time events (id, deadline, handler), `lastTime`, `timeEventNextId` | `aeCreate/DeleteFileEvent`, `aeCreate/DeleteTimeEvent`, `processTimeEvents`, `aeProcessEvents` |
| Dict | `unnamed/part_003` (dict.c) | two hash tables `ht[0..1]`, `rehashidx`, `iterators` | add, find, delete, expand, incremental `dictRehash`, safe and unsafe iterators, `dictScan` |
| Keyspace | `db.c` | per database `dict`, `expires`, `watched_keys`, `blocking_keys` | lookup with lazy expiration, `setKey`, `dbDelete`, `emptyDb`, SELECT, DEL, FLUSHDB/ALL, RENAME, MOVE, SWAPDB |
| Strings | `t_string.c` | values in the keyspace | SET [NX] [EX], SETNX, SETEX, GET, ... |
| Transactions | `multi.c` | per client `flags` (MULTI, DIRTY_CAS, DIRTY_EXEC), `mstate` queue, `watched_keys` | MULTI, EXEC, DISCARD, WATCH, UNWATCH, `touchWatchedKey`, `touchWatchedKeysOnFlush` |
| Pub/Sub | `pubsub.c` | `server.pubsub_channels` (channel to clients), `server.pubsub_patterns`, and per client channels and patterns | SUBSCRIBE, UNSUBSCRIBE, PSUBSCRIBE, PUNSUBSCRIBE, PUBLISH |
| Lists | `t_list.c` | list values, `blocking_keys`, `ready_keys`, `c->bpop` | push, pop, RPOPLPUSH, LINSERT, LSET, LTRIM, LREM, LRANGE, BLPOP/BRPOP/BRPOPLPUSH and the serving of blocked clients |
| Hash type | `unnamed/part_001` (t_hash.c) | ziplist or dict encoding | HSET/HGET/... and the encoding conversion |
| Quicklist, ziplist, adlist | `unnamed/part_000` (quicklist.h), `ae.h` (adlist declarations and implementation, ziplist) | linked nodes | `listCreate` .. `listJoin`; modelled only through the sequences they implement |

The parts interact as follows:

- The event loop calls the command handlers, one command at a time and each to completion.
- Commands of different clients therefore interleave only between commands.
- The keyspace is a set of dicts.
- Every write path of the keyspace is expected to call `signalModifiedKey` or `signalFlushedDb`. These functions call into `multi.c` to mark the clients that WATCH the key.
- EXEC runs a client's queued commands back to back.
- Time is `mstime()`. Each command reads it again, including each command inside an EXEC.

What is hard here, and what a test rarely reaches:

- Several clients interleave between WATCH, MULTI and EXEC.
- A watched key can change by a path that forgets to signal.
- Time passes between commands, so a key expires and is deleted lazily by whoever touches it next.
- Clients switch databases between WATCHes.
- In the dict, incremental rehash happens under iterators and scans.
- In the event loop, the clock can move backwards, and timers can be created or deleted by a handler while the timer list is being walked.

## Modules

### Keyspace (`Keyspace.tla`)

This module holds operators with no variables. Each maps a server-state record `s = [dict, expires, flags, cdb]` to the record after a call:

- the keyspace primitives of `db.c`: `KeyIsExpired`, `ExpireIfNeeded`, `LookupKeyRead/Write`, `DbAdd`, `SetKey`, `DbSyncDelete`, `SetExpire`, `RemoveExpire`, `EmptyDb`;
- the signalling of `multi.c`: `TouchWatchedKey` and `TouchWatchedKeysOnFlush`;
- the command handlers: `SetCommand` (with NX and EX), `GetCommand`, `DelCommand`, `FlushdbCommand`, `FlushallCommand`, `SelectCommand`, `MoveCommand`, `SwapdbCommand`, `RenameCommand`.

The early returns of each handler are an IF chain in the order the code tests them. Lazy expiration happens wherever the code calls `lookupKeyWrite` or `lookupKeyRead`.

The following are abstracted away:

- value objects are model values;
- `expires` holds the absolute deadline, or `NoExpire` (-1, what `getExpire` returns);
- the server is a master that is not loading and not running Lua.

Replies, keyspace notifications, propagation and `server.dirty` are left out, because no property reads them.

### Transactions (`Transactions.tla`)

This module adds variables for every part of the state the commands touch:

- the keyspace: `dict`, `expires`, and `cdb`, the database each client has selected;
- the transaction state: `flags`, the `mstate` queue, `watched_keys` (client to set of <<db, key>>) and `db_watched_keys` (db, key to clients);
- the clock: `now`.

It has one action per command a client may send:

- `RunCommand` calls a data command outside MULTI.
- `QueueMultiCommand` queues a data command inside MULTI.
- `FlagTransaction` models a command rejected while queueing.
- `MultiCommand`, `DiscardCommand` and `WatchCommand` model MULTI, DISCARD and WATCH.
- `ExecAbort` is the EXEC path taken when DIRTY_CAS or DIRTY_EXEC is set.
- `ExecRun` is the other EXEC path. It folds `Call` over the queue, then runs `discardTransaction` and `unwatchAllKeys`. Each queued command gets its own `mstime()` reading (`ExecTimes`: non-decreasing times from `now`), because `keyIsExpired` (`db.c:1302`) reads the clock again for every key it looks at; a key can expire between two commands of one EXEC.
- `UnwatchCommand` models UNWATCH.
- `Tick` advances the clock.

`Call` is the command table's dispatch, which lives in `server.c`, not in this repository. `RunCommand`/`QueueMultiCommand` is the MULTI test of `processCommand`. Both are modelled from the spec.

The history variable `watched_changed` records whether a key a client watches changed value since the client started watching it. Every action that can change `dict` or the watch sets updates it as its last conjunct.

`Cmds` are the commands sent directly and `QueueCmds` those queued inside MULTI. `MCTransactions.tla` defines the command sets a run lets clients send, and the symmetry over clients, keys and databases. All of these are model values, so the symmetry is sound.

### Dict (`Dict.tla`, `DictMachine.tla`, `KeyMap.tla`, `DictIter.tla`, `DictScan.tla`)

- **`Dict.tla`** holds operators with no variables, over a record `d = [ht, rehashidx, iterators]`:
  - `ht[0..1]` is `[table, size, used]`, and a bucket is a sequence of keys, head first;
  - the operators are `DictAdd`, `DictDelete`, `DictFind`, `DictExpand`, `_dictExpandIfNeeded` (with `dict_can_resize` and `dict_force_resize_ratio`), `DictRehash(n)` (with its limit of `n*10` empty buckets), `_dictRehashStep` (skipped while `iterators > 0`), `DictResize`, `DictRehashMilliseconds` and `DictEmpty`.
  - `Hash` is a constant function giving the low bits of `dictHashKey`.
- **`DictMachine.tla`** turns one dict into a state machine. It has one action per call the server makes, plus the global `dict_can_resize` switch.
- **`KeyMap.tla`** is the abstract specification: a set of distinct keys, changed only by inserting an absent key, removing a key, or clearing. `DictMachine` implements it through `INSTANCE KeyMap WITH keys <- the keys of both tables`. The run checks this as the PROPERTY `DictImplementsKeyMap`.
- **`DictIter.tla`** adds a safe iterator (`dictGetSafeIterator`, `dictNext`, `dictReleaseIterator`). The body of its loop may add and find any key and delete the entry just returned. Two history variables record what it returned and which keys were present throughout.
- **`DictScan.tla`** adds `dictScan`:
  - `rev()` is a RECURSIVE operator over a word of `CursorBits` bits, checked against a reference definition of bit reversal;
  - the reversed increment uses Bitwise;
  - between two SCAN calls, any other dict call may run;
  - `CronRehash` is `serverCron`'s call of `dictRehashMilliseconds` through `databasesCron` and `incrementallyRehash` (server.c, modelled from the spec). It runs only while no child process exists (`dict_can_resize`) and the dict is rehashing. The ghost bit `cron_tick` flips on each call, so that a call counts as a step even when it leaves the dict unchanged. `ChildDone` is the child ending (`dict_can_resize` set again).

### Event loop (`AeTimer.tla`, `AeFile.tla`)

- **`AeTimer.tla`** models the time events inside the `aeMain` iteration:
  - `Poll` sleeps at most until the nearest timer (`PollTimeout`, from `aeSearchNearestTimer`);
  - file handlers may then create or delete timers;
  - `processTimeEvents` walks the list one timer per step:
    - `ProcessTimeEventsStart` applies the clock-skew check;
    - `RemoveDeleted` frees a marked timer;
    - `NotDue` skips a timer that is not due;
    - `Fire` runs a handler, which may create or delete timers (itself included), returns `AE_NOMORE` or a period, and is skipped if its id exceeds `maxId`;
    - `ProcessTimeEventsEnd` ends the walk.
  - The clock is `[sec, ms]`. It ticks, and it may jump forward or back up to `MaxJumps` times.
  - `MsPerSec` stands for the code's 1000, so that the carry in `aeAddMillisecondsToNow` is reached.
  - `PollFor(d)` is `aeApiPoll` returning after `d` milliseconds; `Poll` lets a file event end the sleep at any `d` up to the timeout.
  - The ghost `ran` flips a timer's bit each time its handler runs, so that a liveness property can say "runs again".
- **`AeFile.tla`** models the `events[]` table:
  - its state is the mask and procs per fd, `maxfd` and `setsize`;
  - `aeCreateFileEvent`, `aeDeleteFileEvent` (with its downward scan for `maxfd`) and `aeResizeSetSize` are actions;
  - the dispatch of one poll is a sequence of steps: `ReadFirst`, `Writable` and `ReadAfter`, with AE_BARRIER inverting the order. The `fe->rfileProc != fe->wfileProc` test avoids a double call.
  - Each handler may register or remove events on any fd.
  - `aeApiPoll` is modelled from the spec: any non-empty set of registered fds, reported in any order.

### Pub/Sub (`PubSub.tla`)

- The state is:
  - `cchannels` and `cpatterns`: each client's `pubsub_channels` and `pubsub_patterns`;
  - `schannels`: `server.pubsub_channels`, from channel to a list of clients, holding only channels with subscribers;
  - `spatterns`: the `[client, pattern]` list `server.pubsub_patterns`;
  - `pubsubFlag`: `CLIENT_PUBSUB`.
- There is one action per command: SUBSCRIBE, UNSUBSCRIBE with or without arguments, PSUBSCRIBE, PUNSUBSCRIBE with or without arguments, PUBLISH, and `FreeClient`. `FreeClient` models the unsubscribe-all pair that `freeClient` runs, from the spec.
- A command with several arguments calls the same helper once per argument. It is modelled as one argument per command. For the properties below this is the same as consecutive single-argument commands, because nothing reads the state between the iterations.
- `GlobMatch` models `stringmatchlen` (util.c, not in this tree) for `*`, `?` and literal characters. It is a RECURSIVE operator, checked against `GlobReference`, which cuts the channel name into one piece per pattern character.
- PUBSUB CHANNELS, NUMSUB and NUMPAT are operators over the server's indexes.
- The ghost variables `delivered` and `published` record the messages sent by the PUBLISH step just taken.

### Lists and blocking pops (`ListBlocking.tla`)

- The state is:
  - `db`: one database, where a key holds a non-empty list or `STRING_VALUE`;
  - `bpop`: each client's `c->bpop` (keys, target, end);
  - `blockingKeys`: `db->blocking_keys`;
  - `readyKeys`: `server.ready_keys`;
  - the ghost variables `nextVal` (each push creates fresh numbered elements) and `gone` (the elements popped and replied, or dropped by SET and DEL).
- The commands are:
  - LPUSH and RPUSH, of one or two elements;
  - LPUSHX and RPUSHX;
  - LPOP and RPOP;
  - RPOPLPUSH;
  - BLPOP and BRPOP over a sequence of distinct keys;
  - BRPOPLPUSH;
  - LINSERT BEFORE/AFTER a pivot (a fresh element), LSET at an index (the replaced element leaves the lists), LTRIM start end and LREM count value; LTRIM and LREM delete a list they empty;
  - `Timeout`, for a blocked client whose timeout fires or that disconnects;
  - SET and DEL of the same keys;
  - RENAME and RENAMENX (`renameGenericCommand`), which delete an existing destination and re-create it with `dbAdd`, so that a list moved onto a key wakes the clients blocked on it. `Strings.tla` moves the key's string object with it.
- A command runs only when `server.ready_keys` is empty (`Idle`).
- `ServeReadyKey` models `handleClientsBlockedOnKeys` from `blocked.c` (not in this tree), which `processCommand` runs after every command. It takes the head ready key and serves its blocked clients in blocking order. Serving a client is `serveClientBlockedOnList`, which pops and either replies or pushes to the BRPOPLPUSH target. When the target holds another type, the pop is undone. A list created for a target is signalled with `dbAdd`, so it is served in the same round.
- `signalKeyAsReady`, `blockForKeys` and `unblockClientWaitingData` also come from `blocked.c` and are modelled from the spec.
- LRANGE only replies: `LrangeReply` translates `lrangeCommand`'s index conversion and clamping, and `LtrimKeepsLrange` compares it with what `ltrimCommand`'s own conversion keeps. LLEN and LINDEX only reply and are left out.
- Elements are distinct, so LREM finds at most one match and its count only chooses the search direction.
- `ListCommand` is every list command and `ServeReadyKey`. `Strings.tla` reuses it, so that lists and strings share one key space.

### String commands (`Strings.tla`, composed with `ListBlocking.tla`)

- The state is `ListBlocking`'s, plus the following:
  - `strs`: the string object stored at each key (`NoStr` when the key holds none). An object is a record of its encoding (`int`, `embstr`, `raw`), whether it is one of `shared.integers`, its integer, and its bytes;
  - `shared`: the values held by the objects of `shared.integers`. No correct command changes them, and they are state so that a write through a shared object can be seen.
- `long long` is `LLBits` wide. `Wrap` models the two's-complement result of `value += incr` and of DECRBY's `-incr`.
- The commands are SET, GETSET, MSET and MSETNX (which fold `setKey` over the pairs), APPEND, SETRANGE, INCR, DECR, INCRBY, DECRBY and DEL. Each is one action, from the type check to the store. GETRANGE and STRLEN change nothing and are the reply operators `GetrangeReply` and `StrlenReply`.
  - The in-place update of INCR (`refcount == 1`, int encoding, a value outside the shared range) is `CanUpdateInPlace`.
  - The copy before APPEND and SETRANGE write is `DbUnshareStringValue`.
  - The length checks are `CheckStringLength`.
- Storing a string over a list removes the list's elements (they go to `gone`), exactly as `SetString` of `ListBlocking` does. A client blocked on such a key stays blocked.
- `object.c`, `util.c` and `server.c` are not in this tree, so the following are modelled from the spec and marked `spec_modelled`:
  - `string2ll`, `ll2string` and `sdigits10`;
  - `tryObjectEncoding`, `createStringObjectFromLongLongForValue`, `getLongLongFromObject`, `getDecodedObject` and `stringObjectLen`;
  - `shared.integers`.

## Runs

| run | module / cfg | expect | checks |
|---|---|---|---|
| keyspace | `MCTransactions_keyspace.cfg` | pass | `TypeOK`, `ExpiresHaveKeys` |
| watch | `MCTransactions_watch.cfg` | pass | `WatchIndexesAgree`, `WatchedKeysUnchangedUnlessDirty` |
| watch_expiry | `MCTransactions_expiry.cfg` | violation | `WatchedKeysUnchangedUnlessDirty` |
| watch_move | `MCTransactions_move.cfg` | violation | `WatchedKeysUnchangedUnlessDirty` |
| watch_swapdb | `MCTransactions_swapdb.cfg` | violation | `WatchedKeysUnchangedUnlessDirty` |
| dict | `MCDictIter.cfg` | pass | `TypeOK`, `TablesWellFormed`, `NoDuplicateEntries`, `SafeIteratorReturnsEachOnce`, `IteratorsCounted`, PROPERTY `DictImplementsKeyMap` |
| dict_scan | `MCDictScan.cfg` (`FairSpec`) | pass | `RevIsReversal`, `ScanReturnsEveryStableKey`, PROPERTY `RehashFinishes` |
| ae_timer | `MCAeTimer.cfg` (`FairSpec`) | pass | `TypeOK`, `DeletedTimerNeverFires`, `FiresOnlyAfterDeadline`, `NewTimersNotWalked`, PROPERTY `DueTimersRun` |
| ae_file | `MCAeFile.cfg` | pass | `TypeOK`, `MaxfdIsHighest`, `EventsMatchRegistrations`, `BarrierWritableFirst`, `NoCallForRemovedEvent` |
| pubsub | `MCPubSub.cfg` | pass | `TypeOK`, `ChannelIndexesAgree`, `PatternIndexesAgree`, `PublishReachesExactlySubscribers`, `IntrospectionAgrees`, `PubsubFlagIffSubscribed` |
| strings_lists | `MCStrings.cfg` | pass | `TypeOK`, `ValuesConserved`, `NoClientBlockedBesideData`, `BlockedIndexesAgree`, `StringTypeOK`, `StringsWithinLimit`, `ReadCommandsAgree`, `LtrimKeepsLrange`, PROPERTY `NoWriteThroughSharedObject`, PROPERTY `IncrIsExact` |
| decrby_min | `MCStrings_decrby.cfg` | violation | PROPERTY `IncrIsExact` |

The runs show the following:

- **keyspace**: every command, including SETEX deadlines that pass as the clock ticks to 2, is sent directly or through MULTI/EXEC. Two commands may be queued (SETEX, GET and RENAME of distinct keys, `ExecExpiryCmds`), and the clock may pass a deadline between them inside one EXEC. MOVE, RENAME, SWAPDB, FLUSH and lazy expiration never leave an expire entry without its key.
- **watch** (2 databases, 2 keys, 2 clients, each client watching at most one key at a time, `MaxWatch` in `MCTransactions.tla`): SET, DEL, RENAME, FLUSHDB, FLUSHALL and SELECT keep the two watch indexes equal and mark every client whose watched key they change. As a result, an EXEC that runs its queue never runs after a change to its watched key, not even a change that was later undone.
- **watch_expiry**, **watch_move**, **watch_swapdb**: each adds one command family, and TLC finds a watched key that changes while its watcher stays clean. The spec says that every modification of a watched key aborts the EXEC. The code does not do this in `expireIfNeeded` (`db.c:1352`), `moveCommand` (`db.c:1103`) or `dbSwapDatabases` (`db.c:1150`).
- **dict** (4 keys with hashes 0, 4, 1, 5: they share buckets in pairs in a 4-bucket table and are split in an 8-bucket table, so both tables, chains and an expand in progress are exercised): every sequence of adds, deletes, finds, resizes, rehash steps and resize-policy switches, with or without a safe iterator bound, keeps each key in the bucket its hash selects. No key is in both tables, buckets below `rehashidx` are empty, and the stored key set changes only as `KeyMap` allows. A safe iterator whose loop body adds keys (which starts an expand) and deletes the returned entry still returns every key present for the whole walk exactly once, and `dict.iterators` counts the bound iterator.
- **dict_scan**: a SCAN whose calls are interleaved with growth, shrinking and rehash steps returns every key present from its first call to its last. Under the fairness below, every rehash in progress finishes (`IsRehashing ~> ~IsRehashing`). This holds when clients stop calling the dict, when children come and go, and when deletes empty the old table before the rehash reaches its last buckets.
- **ae_timer**:
  - timers are created and deleted by file handlers and by timer handlers, their own timer included;
  - timers never run after they are deleted (only marked and freed on a later pass);
  - they never run before their deadline, unless the skew check forced them;
  - they are never met by the walk that created them;
  - under the fairness below, every due timer is eventually run or deleted, also after the clock is set back and while handlers create and delete timers.
- **ae_file**: registering, removing and resizing, including from handlers in the middle of a dispatch, keep the following true:
  - `maxfd` is the highest fd in use;
  - the event table matches the registrations;
  - AE_BARRIER's write-before-read order holds;
  - a proc is never called for an event that a handler removed earlier in the same dispatch.
- **pubsub** (2 clients; channels `a`, `b`, `ab`; patterns `a*`, `?b`): in any order of subscribing, unsubscribing and disconnecting, the following hold:
  - the server's channel index and pattern list stay the exact inverse of the clients' subscriptions (two clients on the same pattern included);
  - PUBLISH reaches each matching subscription exactly once;
  - PUBSUB CHANNELS/NUMSUB/NUMPAT answer truly;
  - `CLIENT_PUBSUB` is set exactly while a subscription is left.
- **strings_lists** (2 keys, 2 clients, 3 list elements; the string commands on `k1`): pushes, pops, RPOPLPUSH, LINSERT, LSET, LTRIM, LREM, RENAME and blocking pops, with timeouts, and the string commands in between, keep the following true:
  - no list element is lost or duplicated, including a BRPOPLPUSH to a key of another type, where the pop is undone, and a list replaced by a string;
  - no empty list is left in the key space, also after LTRIM or LREM empties one;
  - LTRIM keeps exactly the elements LRANGE with the same indexes returns, for every list reached and every pair of indexes;
  - between commands, no client is blocked on a key that holds a list, also when RENAME moves a list onto a key that held a string;
  - `db->blocking_keys` equals the clients' `bpop`;
  - every string object is well formed: an int object is shared exactly when its value is in `0..OBJ_SHARED_INTEGERS-1`, and a key holds a string object exactly when `db` says it holds a string;
  - no step changes the bytes of a key whose object it did not replace, so INCR never writes through a shared integer;
  - INCR, DECR, INCRBY and DECRBY either add exactly or refuse, for the increments 1 and 2 this run sends (`IncrArgs = {2}`); LLONG_MIN, the one argument for which this fails, is the decrby_min run;
  - no value is longer than the proto limit;
  - GETRANGE 0 -1 returns the decoded value, every GETRANGE returns a run of its bytes, and STRLEN's digit count equals the length of the decimal form.
- **decrby_min** (the strings_lists model with `IncrArgs = {LLONG_MIN}`, -4 at 3 bits): TLC finds `IncrIsExact` violated in one step. `decrbyCommand` (`t_string.c:466`) passes `-incr` to `incrDecrCommand`, and `-LLONG_MIN` is LLONG_MIN again on a two's complement build (the negation is undefined in C). DECRBY k1 LLONG_MIN on a missing key then passes the overflow check at `t_string.c:409-413` and stores LLONG_MIN, where `0 - LLONG_MIN` exceeds LLONG_MAX and must be refused. This is a finding (a code bug).

### Bounds

Two actors are enough for every interleaving the properties are about: one client watches, subscribes or blocks, and the other writes, publishes or pushes.

- **keyspace**: the MULTI queue holds two commands (`MaxQueue = 2`), the least that lets a deadline pass inside one EXEC. The queued commands are SETEX, GET and RENAME of two distinct keys (`QueueCmds`); with every command queueable the run passes 9 million states without finishing.
- **watch**: a client watches one key at a time (`MaxWatch = 1`); with two keys per client the run takes about five minutes. Each change is checked against each watched key separately, so one key per client already meets every touch path; the keys of both databases and RENAME's two keys remain in play.

- **dict**: 4 keys give tables of 4 and 8 buckets, growth, shrinking and a rehash in progress; with four entries any add makes the table grow, even while the iterator is bound. A rehash step's limit of 10 empty buckets is never reached at this size, and that hazard is listed in PROJECT.json.
- **dict_scan**: a cursor word of 4 bits covers every mask of these tables.
- **ae_timer**: `MsPerSec = 2` and periods `{1, 2}` reach the millisecond carry. Two timers let one handler create or delete the other. One clock jump is enough for the backwards-skew case.
- **ae_file**: two fds give a `maxfd` scan that passes over a gap, and a resize to exactly `maxfd + 1`.
- **pubsub**: the patterns are chosen so that `*` and `?` each match some channels and miss others.
- **strings_lists**: three elements let one push of two elements reach two blocked clients and leave one element for a later pop. The string commands are sent for `k1` only (`StringKeys`): the values of one key already have 130 to 260 states, and on both keys the run does not finish in 30 minutes. Sharing one key with the lists is enough for every list-string interaction. Two keys pointing at one shared integer need no second string key either, because a write through `shared` changes the value of the writer's own unchanged object, and the property sees that. `long long` is 3 bits (-4..3), `shared.integers` holds 0 and 1, and the proto limit is 2 bytes. With these, INCRBY 2 and DECR reach both ends of the range, and SET "1" gives a shared integer that INCR must not write to. APPEND and SETRANGE at offset 1 meet the limit, both with raw strings and with int objects counted by their digits. GETRANGE is asked for indexes -3, -1, 0 and 2: before the start, the last byte, the first byte, and past the end of every value. LSET, LTRIM and LREM get -3, -1 and 1 (`MCListIndexes`): a start before the head that is clamped, the last element, an end past a list of one, and start > end; LREM's counts -3, -1 and 1 search from both ends. RENAME is sent from `k2` to `k1` only (`RenamePairs`): that moves a list onto the key the strings use, over a string, a list or no key. Renames in both directions spread string objects to `k2` and the run does not finish in 15 minutes.

### Fairness

Two runs assume fairness. `dict_scan` uses `FairSpec` in `DictScan.tla`, with these assumptions:

- **Strong fairness of `CronRehash`.** The event loop keeps calling `serverCron`, and `databasesCron` rehashes every rehashing dict on each tick while no child exists. A new child may start between two ticks, so a call that is possible again and again, but not continuously, must still happen; that is strong fairness. It is written out as `[]<>CronRehashEnabled => []<><<CronRehash>>_vars`. `CronRehashEnabled` is the state predicate `ENABLED <<CronRehash>>_vars`, because the tick always flips `cron_tick`. Writing it out keeps TLC from evaluating the recursive rehash to decide whether the action is enabled, which made the run take hours.
- **Strong fairness of `ChildDone`.** A child process saving the dataset ends.

`ae_timer` uses `FairSpec` in `AeTimer.tla`, with these assumptions:

- **Weak fairness of the loop's own steps.** `aeMain` never stops. `aeApiPoll` returns when its timeout expires (`PollFor(PollTimeout)`); a file event may wake it earlier, but none has to. `processTimeEvents` is called after the file handlers, and its walk goes on (`WalkStep`) to the end of the list.
- **Strong fairness of `Tick`.** Real time passes, so an endless run of iterations that take no time does not happen. `Tick` is enabled between polls only, again and again, hence strong fairness. The clock stops at `MaxSec`, and timers due later are never due in the model.

Under these assumptions `DueTimersRun` holds: a linked, unmarked, due timer is eventually run or deleted.

Client commands get no fairness: a client may stop at any time. File events, handler choices and clock jumps get none either. The other runs check only safety and assume no fairness. Every step in them is a client's choice (a command, a disconnect, or a timeout that the client chose).

### Mutants

Each mutant in `PROJECT.json` replaces one mapped definition with a plausible bug, and TLC finds the run's property violated. For example:

- the expire entry is kept on delete;
- `_dictRehashStep` runs while a safe iterator is open;
- `rev()` swaps only halves;
- the timer list appends new timers at the tail;
- the `maxfd` scan stops above 0;
- the poll timeout blocks (`-1`) when the nearest timer is already due, which starves it while no file event arrives;
- the server-side PUNSUBSCRIBE search ignores the client;
- `clientSubscriptionsCount` forgets patterns;
- a BRPOPLPUSH target created during serving is not signalled;
- the undo of a failed BRPOPLPUSH is dropped;
- LTRIM's `rtrim` counts the end element among those trimmed;
- RENAME overwrites an existing destination in place (`dbOverwrite`) instead of deleting it and calling `dbAdd`, so a list appears under a blocked client without a signal;
- INCR updates in place without looking at the refcount;
- the overflow check only looks upwards;
- APPEND checks only the argument's length;
- `dictRehash` checks for the end of the rehash only when the old table is not yet empty, so a rehash whose old table was emptied by deletes never ends.

## Plan

Done: Keyspace and Transactions (with time passing inside EXEC), Dict (with refinement, iterator and scan), the event loop's timers and file events, Pub/Sub, lists with blocking pops, and the string commands with their encodings on the list key space.

Found by the string model: `decrbyCommand` (`t_string.c:466`) negates its argument before the overflow check, so DECRBY with LLONG_MIN stores LLONG_MIN on a missing key (the decrby_min run).

Still to do:

1. Wake-ups of blocked lists on SWAPDB (`scanDatabaseForReadyLists`) and MOVE into a key clients block on, which need the list model on two databases (RENAME is done).
2. `t_hash.c`: the conversion between ziplist and dict encodings, checked as a refinement of a map of fields.
3. The adlist of `ae.h` at the level of nodes and pointers, shown to implement the sequences `ListBlocking` and `PubSub` use for lists of clients. It needs a run of its own.

## Not modelled

- Replication, AOF and propagation.
- Cluster mode, since MOVE and SWAPDB are refused there.
- Lua time freezing.
- LRU/LFU.
- Keyspace notifications and reply formatting.
- The encodings of values (ziplist, quicklist, intset). Their headers here (`part_000`) only declare their API; a list value is a sequence.
- The adlist implementation in `ae.h` (lines 207-560). The lists of clients built on it (`blocking_keys`, `pubsub_channels`, `pubsub_patterns`) are sequences in the models, which is what an adlist implements. The nodes and pointers would need a run of their own, and the project keeps one run per question about the server.
- The hash type (`part_001`), for now.
- INCRBYFLOAT (long double parsing and formatting), MGET, and the options of SET (those are in `Keyspace`) in `Strings`.
- The multiplexing back ends of the event loop (`ae_epoll.c` and the others), which are not in this tree. `aeApiPoll` is modelled as a nondeterministic report.
- `server.c`, `networking.c`, `blocked.c` and `util.c`, which are not in `src/`. The dispatch, `freeClient`, the blocked-client serving and `stringmatchlen` are modelled from the spec and marked `spec_modelled` in the map.

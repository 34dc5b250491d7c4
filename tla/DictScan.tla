------------------------------ MODULE DictScan ------------------------------
(***************************************************************************)
(* dictScan: the stateless cursor iteration that SCAN runs one call per    *)
(* command, while any other call of the server (adds, deletes, lookups     *)
(* with their rehash steps, resizes, timed rehash) runs between two calls. *)
(*                                                                         *)
(* The cursor is an unsigned long; here it is a word of CursorBits bits,   *)
(* a power of two (as rev() needs) whose range covers every sizemask. The  *)
(* bits above the largest mask are all set by v |= ~m before the reversed  *)
(* increment and all cleared by its carry, so the low CursorBits bits of   *)
(* the 64-bit computation are exactly what this word computes.             *)
(***************************************************************************)
EXTENDS DictMachine, Bitwise

CONSTANT CursorBits

ASSUME CursorBits \in {2, 4, 8}

Word == 2^CursorBits
Ones == Word - 1

\* rev(): swap halves, then quarters, ... of the word, under a mask that
\* keeps the low half of each part.
RECURSIVE RevLoop(_, _, _)
RevLoop(v, mask, s) ==
  LET s2 == s \div 2
      m2 == mask ^^ ((mask * 2^s2) % Word)
  IN IF s2 = 0 THEN v
     ELSE RevLoop((shiftR(v, s2) & m2) | (((v * 2^s2) % Word) & (Ones - m2)),
                  m2, s2)

\* Mutant: the loop stops after swapping the two halves.
RevHalvesOnly(v) ==
  LET s2 == CursorBits \div 2
      m2 == Ones ^^ ((Ones * 2^s2) % Word)
  IN (shiftR(v, s2) & m2) | (((v * 2^s2) % Word) & (Ones - m2))

Rev(v) == RevLoop(v, Ones, CursorBits)

\* The reference: bit i of v is bit CursorBits-1-i of its reversal.
RevReference(v) ==
  FoldFunctionOnSet(LAMBDA i, acc : ((v \div 2^i) % 2) * 2^(CursorBits - 1 - i) + acc,
                    0, [i \in 0..(CursorBits - 1) |-> i], 0..(CursorBits - 1))

\* Mutant: the cursor is incremented normally within the mask.
CursorIncrPlain(v, m) == ((v & m) + 1) % (m + 1)

\* v |= ~m; v = rev(v); v++; v = rev(v);
CursorIncr(v, m) == Rev((Rev(v | (Ones - m)) + 1) % Word)

\* The keys chained in bucket v & sizemask of table t.
BucketAt(d, t, v) == ToSet(d.ht[t].table[v & (d.ht[t].size - 1)])

\* The do-while over the buckets of the larger table t1 that expand the
\* cursor's bucket of the smaller mask m0.
RECURSIVE ScanLarger(_, _, _, _, _)
ScanLarger(d, t1, v, m0, acc) ==
  LET m1  == d.ht[t1].size - 1
      acc1 == acc \cup BucketAt(d, t1, v)
      v1  == CursorIncr(v, m1)
  IN IF (v1 & (m0 ^^ m1)) # 0 THEN ScanLarger(d, t1, v1, m0, acc1)
     ELSE [v |-> v1, keys |-> acc1]

\* dictScan(d, v, fn): [v |-> the next cursor, keys |-> the keys passed to fn].
DictScanCall(d, v) ==
  IF d.ht[0].used + d.ht[1].used = 0 THEN [v |-> 0, keys |-> {}]
  ELSE IF ~IsRehashing(d)
  THEN [v |-> CursorIncr(v, d.ht[0].size - 1), keys |-> BucketAt(d, 0, v)]
  ELSE LET t0 == IF d.ht[0].size > d.ht[1].size THEN 1 ELSE 0
           t1 == 1 - t0
       IN ScanLarger(d, t1, v, d.ht[t0].size - 1, BucketAt(d, t0, v))

VARIABLES
  cursor,        \* the cursor the client passes back
  scan_on,       \* a SCAN iteration has started and not yet ended
  scan_emitted,  \* history: keys returned by the calls so far
  scan_stable,   \* history: keys present since the first call
  cron_tick      \* ghost: flips on every rehash call of serverCron

scanVars == <<cursor, scan_on, scan_emitted, scan_stable>>
vars == <<dictVars, scanVars, cron_tick>>

Init ==
  /\ DictMachineInit
  /\ cursor = 0 /\ scan_on = FALSE /\ scan_emitted = {} /\ scan_stable = {}
  /\ cron_tick = 0

\* The first SCAN 0 of an iteration.
StartScan ==
  /\ ~scan_on
  /\ scan_on' = TRUE /\ cursor' = 0 /\ scan_emitted' = {}
  /\ scan_stable' = KeysOf(D)
  /\ UNCHANGED <<dictVars, cron_tick>>

\* One SCAN call: dictScan until the cursor comes back as 0.
Scan ==
  /\ scan_on
  /\ LET r == DictScanCall(D, cursor)
     IN /\ cursor' = r.v
        /\ scan_emitted' = scan_emitted \cup r.keys
        /\ scan_on' = (r.v # 0)
  /\ UNCHANGED <<dictVars, scan_stable, cron_tick>>

\* Between two SCAN calls the server makes any call on the dict.
ServerCall ==
  /\ DictCall \/ ResizeSwitch
  /\ scan_stable' = scan_stable \cap KeysOf(D)'
  /\ UNCHANGED <<cursor, scan_on, scan_emitted, cron_tick>>

\* databasesCron (server.c): on a serverCron tick between commands, and
\* only while no child process saves the dataset (dict_can_resize),
\* incrementallyRehash calls dictRehashMilliseconds on a dict that is
\* rehashing.
CronRehash ==
  /\ dict_can_resize /\ IsRehashing(D)
  /\ RehashMilliseconds
  /\ cron_tick' = 1 - cron_tick
  /\ UNCHANGED scanVars

\* ENABLED <<CronRehash>>_vars (the tick always changes cron_tick), stated
\* without evaluating the rehash.
CronRehashEnabled == dict_can_resize /\ IsRehashing(D)

Next == StartScan \/ Scan \/ ServerCall \/ CronRehash

Spec == Init /\ [][Next]_vars

\* checkChildrenDone and updateDictResizePolicy (server.c): the child ends.
ChildDone == EnableResize /\ UNCHANGED <<scanVars, cron_tick>>

\* The event loop keeps running serverCron, and a child process ends. A
\* cron rehash that is possible again and again happens (strong fairness:
\* a new child may start before each tick); the strong fairness of
\* CronRehash is written out with CronRehashEnabled. Clients get no
\* fairness: they may stop calling the dict at any time.
FairSpec ==
  /\ Spec
  /\ []<>CronRehashEnabled => []<><<CronRehash>>_vars
  /\ SF_vars(ChildDone)

-----------------------------------------------------------------------------
\* rev() reverses the bits of every cursor a SCAN call is given or returns.
RevIsReversal == Rev(cursor) = RevReference(cursor)

\* The guarantee stated above dictScan: a SCAN that comes back to cursor 0
\* has returned every key that was in the dict from its first call to its
\* last, however the tables grew, shrank or rehashed between the calls.
ScanReturnsEveryStableKey ==
  scan_on = FALSE /\ cursor = 0 => scan_stable \subseteq scan_emitted

\* A rehash in progress finishes even when no client touches the dict
\* again: the cron's dictRehashMilliseconds moves the remaining buckets, and
\* dictRehash ends the rehash as soon as ht[0].used is 0, also when deletes
\* emptied the old table before its buckets moved (what the wait for the
\* end of rehashing in the dict benchmark relies on).
RehashFinishes == IsRehashing(D) ~> ~IsRehashing(D)
=============================================================================

---------------------------- MODULE ListBlocking ----------------------------
(***************************************************************************)
(* The list commands of t_list.c together with the blocking pops: LPUSH,  *)
(* RPUSH, LPUSHX, RPUSHX, LPOP, RPOP, RPOPLPUSH, LINSERT, LSET, LTRIM,     *)
(* LREM, BLPOP, BRPOP and BRPOPLPUSH on one database, the keys that hold  *)
(* non-list values (SET), DEL, RENAME, the blocked clients (c->bpop,      *)
(* db->blocking_keys), the ready keys (server.ready_keys) and the serving *)
(* of blocked clients that runs after every command                      *)
(* (handleClientsBlockedOnKeys in blocked.c, modelled from its            *)
(* description; it calls serveClientBlockedOnList of t_list.c).           *)
(*                                                                         *)
(* Every pushed element is a fresh number, so that where each element went *)
(* can be followed: gone is the sequence of elements that left the lists  *)
(* for good, popped and replied to a client or dropped with their key by  *)
(* SET, DEL or RENAME (RPOPLPUSH replies with an element it keeps).       *)
(***************************************************************************)
EXTENDS Integers, Sequences, SequencesExt, FiniteSetsExt, Functions, TLC

CONSTANTS
  Keys,        \* the keys of the database
  Clients,     \* the clients that may block
  MaxVal,      \* the number of elements pushed in a behaviour
  ListIndexes, \* the indexes and counts LSET, LTRIM and LREM get
  RenamePairs, \* the <<src, dst>> pairs RENAME and RENAMENX are sent
  NoKey,       \* bpop.target of BLPOP / BRPOP
  NotBlocked,  \* c->bpop of a client that is not blocked
  STRING_VALUE \* the value of a key of another type (a string)
LIST_HEAD == "head"
LIST_TAIL == "tail"
Vals == 1..MaxVal

VARIABLES
  db,            \* the key space: a function on the keys present
  bpop,          \* c->bpop: [keys, target, where] or NotBlocked
  blockingKeys,  \* db->blocking_keys: key -> clients in blocking order
  readyKeys,     \* server.ready_keys, deduplicated by db->ready_keys
  nextVal,       \* the next element a push creates
  gone           \* the elements that left the lists for good, in order

vars == <<db, bpop, blockingKeys, readyKeys, nextVal, gone>>

BpopRec == [keys : SUBSET Keys, target : Keys \cup {NoKey},
            where : {LIST_HEAD, LIST_TAIL}]

TypeOK ==
  /\ DOMAIN db \subseteq Keys
  /\ \A k \in DOMAIN db : db[k] \in (Seq(Vals) \ {<<>>}) \cup {STRING_VALUE}
  /\ bpop \in [Clients -> BpopRec \cup {NotBlocked}]
  /\ blockingKeys \in [Keys -> Seq(Clients)]
  /\ readyKeys \in Seq(Keys)
  /\ nextVal \in 1..(MaxVal + 1)
  /\ gone \in Seq(Vals)

Init ==
  /\ db = [k \in {} |-> <<>>]
  /\ bpop = [c \in Clients |-> NotBlocked]
  /\ blockingKeys = [k \in Keys |-> <<>>]
  /\ readyKeys = <<>>
  /\ nextVal = 1
  /\ gone = <<>>

-----------------------------------------------------------------------------
(* Helpers.                                                                *)

IsList(d, k) == k \in DOMAIN d /\ d[k] # STRING_VALUE

\* listTypePush and listTypePop on the quicklist.
ListTypePush(l, v, where) == IF where = LIST_HEAD THEN <<v>> \o l ELSE Append(l, v)

ListTypePopValue(l, where) == IF where = LIST_HEAD THEN Head(l) ELSE Last(l)

ListTypePopRest(l, where) == IF where = LIST_HEAD THEN Tail(l) ELSE Front(l)

DbDelete(d, k) == [x \in DOMAIN d \ {k} |-> d[x]]

\* Mutant: the emptied list is left in the key space.
DeleteIfEmptyNever(d, k) == d

\* A list left empty by a pop is deleted with its key.
DeleteIfEmpty(d, k) == IF d[k] = <<>> THEN DbDelete(d, k) ELSE d

\* signalKeyAsReady: only keys some client is blocked on, each once.
SignalKeyAsReady(bk, rk, k) ==
  IF bk[k] = <<>> \/ k \in ToSet(rk) THEN rk ELSE Append(rk, k)

\* Mutant: the destination list created for a served client is not signalled.
HandlePushNoSignal(d, rk, bk, dst, v) ==
  IF dst \in DOMAIN d THEN [db |-> [d EXCEPT ![dst] = <<v>> \o @], ready |-> rk]
  ELSE [db |-> (dst :> <<v>>) @@ d, ready |-> rk]

\* rpoplpushHandlePush: a missing destination is created with dbAdd, which
\* signals it as ready; the element goes to its head.
HandlePush(d, rk, bk, dst, v) ==
  IF dst \in DOMAIN d THEN [db |-> [d EXCEPT ![dst] = <<v>> \o @], ready |-> rk]
  ELSE [db |-> (dst :> <<v>>) @@ d, ready |-> SignalKeyAsReady(bk, rk, dst)]

\* Mutant: the client is taken from the head of each list it waits in.
UnblockKeysPopHead(bk, c, ks) ==
  [k \in Keys |-> IF k \in ks THEN Tail(bk[k]) ELSE bk[k]]

\* unblockClientWaitingData: the client leaves the list of every key.
UnblockKeys(bk, c, ks) ==
  [k \in Keys |-> IF k \in ks THEN RemoveFirst(bk[k], c) ELSE bk[k]]

\* blockForKeys: the client is appended to the list of every key.
BlockForKeys(c, ks, target, where) ==
  /\ bpop' = [bpop EXCEPT ![c] = [keys |-> ks, target |-> target, where |-> where]]
  /\ blockingKeys' = [k \in Keys |-> IF k \in ks THEN Append(blockingKeys[k], c)
                                     ELSE blockingKeys[k]]

\* Commands run only when no ready key waits to be served.
Idle == readyKeys = <<>>

-----------------------------------------------------------------------------
(* The commands. A command on a key of another type replies WRONGTYPE and *)
(* changes nothing, so those cases are left out of the actions.           *)

\* pushGenericCommand: LPUSH / RPUSH k with n fresh elements; a missing key
\* is created with dbAdd, which signals it as ready.
Push(k, where, n) ==
  /\ Idle
  /\ nextVal + n - 1 <= MaxVal
  /\ ~(k \in DOMAIN db /\ db[k] = STRING_VALUE)
  /\ LET l0 == IF k \in DOMAIN db THEN db[k] ELSE <<>>
         vs == [i \in 1..n |-> nextVal + i - 1]
     IN db' = (k :> FoldLeft(LAMBDA l, v : ListTypePush(l, v, where), l0, vs)) @@ db
  /\ readyKeys' = IF k \in DOMAIN db THEN readyKeys
                  ELSE SignalKeyAsReady(blockingKeys, readyKeys, k)
  /\ nextVal' = nextVal + n
  /\ UNCHANGED <<bpop, blockingKeys, gone>>

\* pushxGenericCommand: LPUSHX / RPUSHX only push to an existing list.
PushX(k, where) ==
  /\ Idle
  /\ nextVal <= MaxVal
  /\ IsList(db, k)
  /\ db' = [db EXCEPT ![k] = ListTypePush(@, nextVal, where)]
  /\ nextVal' = nextVal + 1
  /\ UNCHANGED <<bpop, blockingKeys, readyKeys, gone>>

\* popGenericCommand: LPOP / RPOP; the emptied list is deleted.
Pop(k, where) ==
  /\ Idle
  /\ IsList(db, k)
  /\ db[k] # <<>>
  /\ gone' = Append(gone, ListTypePopValue(db[k], where))
  /\ db' = DeleteIfEmpty([db EXCEPT ![k] = ListTypePopRest(@, where)], k)
  /\ UNCHANGED <<bpop, blockingKeys, readyKeys, nextVal>>

\* rpoplpushCommand on an existing non-empty source: the destination is
\* looked up before the pop (so src = dst finds the source list), the tail
\* goes to the head of the destination, and the source is deleted if empty.
RpopLpushEffect(src, dst) ==
  LET v == Last(db[src])
      h == HandlePush([db EXCEPT ![src] = Front(@)], readyKeys, blockingKeys, dst, v)
  IN /\ db' = DeleteIfEmpty(h.db, src)
     /\ readyKeys' = h.ready
     /\ UNCHANGED gone

RpopLpush(src, dst) ==
  /\ Idle
  /\ IsList(db, src)
  /\ db[src] # <<>>
  /\ ~(dst \in DOMAIN db /\ db[dst] = STRING_VALUE)
  /\ RpopLpushEffect(src, dst)
  /\ UNCHANGED <<bpop, blockingKeys, nextVal>>

\* blockingPopGenericCommand: BLPOP / BRPOP k1 .. kn. The first key holding
\* a non-empty list is popped; if a key of another type comes first the
\* reply is WRONGTYPE; if every key is missing the client blocks on all.
BlockingPop(c, args, where) ==
  LET stop == {j \in DOMAIN args : args[j] \in DOMAIN db
                                   /\ (db[args[j]] = STRING_VALUE \/ db[args[j]] # <<>>)}
      k == args[Min(stop)]
  IN /\ Idle
     /\ bpop[c] = NotBlocked
     /\ IF stop = {}
        THEN /\ BlockForKeys(c, ToSet(args), NoKey, where)
             /\ UNCHANGED <<db, readyKeys, nextVal, gone>>
        ELSE /\ db[k] # STRING_VALUE
             /\ gone' = Append(gone, ListTypePopValue(db[k], where))
             /\ db' = DeleteIfEmpty([db EXCEPT ![k] = ListTypePopRest(@, where)], k)
             /\ UNCHANGED <<bpop, blockingKeys, readyKeys, nextVal>>

\* brpoplpushCommand: a missing source blocks the client with the
\* destination as bpop.target; an existing list runs rpoplpushCommand.
Brpoplpush(c, src, dst) ==
  /\ Idle
  /\ bpop[c] = NotBlocked
  /\ IF src \notin DOMAIN db
     THEN /\ BlockForKeys(c, {src}, dst, LIST_TAIL)
          /\ UNCHANGED <<db, readyKeys, nextVal, gone>>
     ELSE /\ IsList(db, src)
          /\ db[src] # <<>>
          /\ ~(dst \in DOMAIN db /\ db[dst] = STRING_VALUE)
          /\ RpopLpushEffect(src, dst)
          /\ UNCHANGED <<bpop, blockingKeys, nextVal>>

\* The blocked client's timeout fires (or it disconnects): it is unblocked
\* and leaves the list of every key it waited for.
Timeout(c) ==
  /\ Idle
  /\ bpop[c] # NotBlocked
  /\ bpop' = [bpop EXCEPT ![c] = NotBlocked]
  /\ blockingKeys' = UnblockKeys(blockingKeys, c, bpop[c].keys)
  /\ UNCHANGED <<db, readyKeys, nextVal, gone>>

\* The elements of a list that SET or DEL drops.
Dropped(k) == IF IsList(db, k) THEN db[k] ELSE <<>>

\* SET k v: setKey; a new key of type string is not signalled.
SetString(k) ==
  /\ Idle
  /\ db' = (k :> STRING_VALUE) @@ db
  /\ gone' = gone \o Dropped(k)
  /\ UNCHANGED <<bpop, blockingKeys, readyKeys, nextVal>>

\* DEL k: dbDelete.
Del(k) ==
  /\ Idle
  /\ k \in DOMAIN db
  /\ db' = DbDelete(db, k)
  /\ gone' = gone \o Dropped(k)
  /\ UNCHANGED <<bpop, blockingKeys, readyKeys, nextVal>>

\* quicklistIndex, for LSET: a negative index counts from the tail (-1 is
\* the last element); the 1-based position, in the list or not.
ListPos(l, i) == IF i < 0 THEN Len(l) + i + 1 ELSE i + 1

\* The conversion lrangeCommand and ltrimCommand each make of their start
\* and end: negative indexes count from the tail, and a start before the
\* head is taken as 0 (end is left as it is).
ConvertIndexes(llen, start, end) ==
  LET s == IF start < 0 THEN llen + start ELSE start
      e == IF end < 0 THEN llen + end ELSE end
  IN <<IF s < 0 THEN 0 ELSE s, e>>

\* lrangeCommand: empty when start > end or start >= llen, else the
\* elements start..end with end clamped to the last one.
LrangeReply(l, start, end) ==
  LET r == ConvertIndexes(Len(l), start, end)
  IN IF r[1] > r[2] \/ r[1] >= Len(l) THEN <<>>
     ELSE SubSeq(l, r[1] + 1, IF r[2] >= Len(l) THEN Len(l) ELSE r[2] + 1)

\* Mutant: rtrim counts the end element among those trimmed.
LtrimBoundsOffByOne(llen, start, end) ==
  LET r == ConvertIndexes(llen, start, end)
  IN IF r[1] > r[2] \/ r[1] >= llen THEN <<llen, 0>>
     ELSE <<r[1], llen - (IF r[2] >= llen THEN llen - 1 ELSE r[2])>>

\* ltrimCommand: the numbers <<ltrim, rtrim>> of elements removed from the
\* head and from the tail; an empty range trims the whole list.
LtrimBounds(llen, start, end) ==
  LET r == ConvertIndexes(llen, start, end)
  IN IF r[1] > r[2] \/ r[1] >= llen THEN <<llen, 0>>
     ELSE <<r[1], llen - (IF r[2] >= llen THEN llen - 1 ELSE r[2]) - 1>>

\* What ltrimCommand's two quicklistDelRange calls leave of the list.
LtrimKept(l, start, end) ==
  LET b == LtrimBounds(Len(l), start, end) IN SubSeq(l, b[1] + 1, Len(l) - b[2])

\* LINSERT k BEFORE|AFTER pivot v: the pivot is sought from the head and
\* the fresh element inserted next to its first occurrence. A missing key
\* or pivot changes nothing (reply 0 or -1). The key exists, so no client
\* is signalled.
Linsert(k, where, pivot) ==
  /\ Idle
  /\ nextVal <= MaxVal
  /\ IsList(db, k)
  /\ pivot \in ToSet(db[k])
  /\ LET p == Min({i \in DOMAIN db[k] : db[k][i] = pivot})
     IN db' = [db EXCEPT ![k] = InsertAt(@, IF where = LIST_HEAD THEN p ELSE p + 1, nextVal)]
  /\ nextVal' = nextVal + 1
  /\ UNCHANGED <<bpop, blockingKeys, readyKeys, gone>>

\* LSET k i v: quicklistReplaceAtIndex puts the fresh element in place of
\* the one at the index, which leaves the lists; an index out of range
\* replies an error and changes nothing.
Lset(k, i) ==
  /\ Idle
  /\ nextVal <= MaxVal
  /\ IsList(db, k)
  /\ ListPos(db[k], i) \in 1..Len(db[k])
  /\ gone' = Append(gone, db[k][ListPos(db[k], i)])
  /\ db' = [db EXCEPT ![k] = ReplaceAt(@, ListPos(@, i), nextVal)]
  /\ nextVal' = nextVal + 1
  /\ UNCHANGED <<bpop, blockingKeys, readyKeys>>

\* LTRIM k start end: ltrim elements go from the head, then rtrim from the
\* tail (quicklistDelRange twice); an emptied list is deleted.
Ltrim(k, start, end) ==
  /\ Idle
  /\ IsList(db, k)
  /\ LET l == db[k]
         b == LtrimBounds(Len(l), start, end)
     IN /\ gone' = gone \o SubSeq(l, 1, b[1]) \o SubSeq(l, Len(l) - b[2] + 1, Len(l))
        /\ db' = DeleteIfEmpty([db EXCEPT ![k] = LtrimKept(l, start, end)], k)
  /\ UNCHANGED <<bpop, blockingKeys, readyKeys, nextVal>>

\* The positions lremCommand deletes: count > 0 the first count matches
\* from the head, count < 0 the first -count from the tail, 0 every match.
LremDeleted(l, count, v) ==
  LET m == {i \in DOMAIN l : l[i] = v}
      seenBefore(i) == {j \in m : IF count < 0 THEN j > i ELSE j < i}
  IN IF count = 0 THEN m
     ELSE {i \in m : Cardinality(seenBefore(i)) < (IF count < 0 THEN -count ELSE count)}

\* LREM k count v: the matches leave the lists in the order the iterator
\* meets them, and an emptied list is deleted.
Lrem(k, count, v) ==
  /\ Idle
  /\ IsList(db, k)
  /\ LET l == db[k]
         del == LremDeleted(l, count, v)
         keep == SetToSortSeq(DOMAIN l \ del, <)
     IN /\ gone' = gone \o [j \in 1..Cardinality(del) |-> v]
        /\ db' = DeleteIfEmpty([db EXCEPT ![k] = [j \in DOMAIN keep |-> l[keep[j]]]], k)
  /\ UNCHANGED <<bpop, blockingKeys, readyKeys, nextVal>>
\* Mutant: an existing destination is overwritten in place (dbOverwrite),
\* which does not signal the key.
RenameStoreOverwrite(d, rk, bk, dst, o) ==
  IF dst \in DOMAIN d THEN [db |-> [d EXCEPT ![dst] = o], ready |-> rk]
  ELSE [db |-> (dst :> o) @@ d,
        ready |-> IF o # STRING_VALUE THEN SignalKeyAsReady(bk, rk, dst) ELSE rk]

\* renameGenericCommand stores the value under dst: an existing dst is
\* deleted first, then dbAdd creates it, which signals a list as ready.
RenameStore(d, rk, bk, dst, o) ==
  [db |-> (dst :> o) @@ DbDelete(d, dst),
   ready |-> IF o # STRING_VALUE THEN SignalKeyAsReady(bk, rk, dst) ELSE rk]

\* RENAME / RENAMENX src dst: the value moves to dst and src is deleted;
\* a missing src, src = dst, and RENAMENX onto an existing key change
\* nothing. The elements of a list at dst are dropped with it.
Rename(src, dst, nx) ==
  /\ Idle
  /\ src \in DOMAIN db
  /\ src # dst
  /\ ~(nx /\ dst \in DOMAIN db)
  /\ LET r == RenameStore(db, readyKeys, blockingKeys, dst, db[src])
     IN /\ db' = DbDelete(r.db, src)
        /\ readyKeys' = r.ready
  /\ gone' = gone \o Dropped(dst)
  /\ UNCHANGED <<bpop, blockingKeys, nextVal>>

-----------------------------------------------------------------------------
(* Serving the blocked clients of one ready key (handleClientsBlockedOnKeys *)
(* and serveClientBlockedOnList). The walk's state is a record of the      *)
(* variables it changes.                                                   *)

\* Mutant: the element of a BRPOPLPUSH that cannot be served is dropped.
UndoPopDropped(l, v, where) == l

\* The pop is undone: the element goes back where it was taken from.
UndoPop(l, v, where) == ListTypePush(l, v, where)

\* The first client blocked on k is unblocked and given the element popped
\* from its end of the list; a BRPOPLPUSH pushes it on its target, or, if
\* the target holds another type, gets WRONGTYPE and the pop is undone.
ServeOne(st, k) ==
  LET r == Head(st.bk[k])
      b == st.bpop[r]
      v == ListTypePopValue(st.db[k], b.where)
      d1 == [st.db EXCEPT ![k] = ListTypePopRest(@, b.where)]
      bp == [st.bpop EXCEPT ![r] = NotBlocked]
      bk == UnblockKeys(st.bk, r, b.keys)
  IN IF b.target = NoKey
     THEN [st EXCEPT !.db = d1, !.bpop = bp, !.bk = bk, !.gone = Append(@, v)]
     ELSE IF b.target \in DOMAIN d1 /\ d1[b.target] = STRING_VALUE
     THEN [st EXCEPT !.db = [d1 EXCEPT ![k] = UndoPop(@, v, b.where)],
                     !.bpop = bp, !.bk = bk]
     ELSE LET h == HandlePush(d1, st.ready, bk, b.target, v)
          IN [st EXCEPT !.db = h.db, !.ready = h.ready, !.bpop = bp, !.bk = bk]

\* As many clients as were blocked on k when its turn came are served, in
\* blocking order, until the list runs out.
RECURSIVE ServeClients(_, _, _)
ServeClients(st, k, n) ==
  IF n = 0 \/ st.db[k] = <<>> THEN st
  ELSE ServeClients(ServeOne(st, k), k, n - 1)

\* The head of server.ready_keys is taken off; if it holds a list its
\* blocked clients are served and the list is deleted if they emptied it.
ServeReadyKey ==
  LET k == Head(readyKeys)
      st0 == [db |-> db, bpop |-> bpop, bk |-> blockingKeys,
              ready |-> Tail(readyKeys), gone |-> gone]
      st1 == IF IsList(db, k) THEN ServeClients(st0, k, Len(blockingKeys[k])) ELSE st0
  IN /\ readyKeys # <<>>
     /\ db' = IF IsList(db, k) THEN DeleteIfEmpty(st1.db, k) ELSE st1.db
     /\ bpop' = st1.bpop
     /\ blockingKeys' = st1.bk
     /\ readyKeys' = st1.ready
     /\ gone' = st1.gone
     /\ UNCHANGED nextVal

\* The commands of t_list.c and the serving of ready keys.
ListCommand ==
  \/ \E k \in Keys, where \in {LIST_HEAD, LIST_TAIL} :
       \/ \E n \in 1..2 : Push(k, where, n)
       \/ PushX(k, where)
       \/ Pop(k, where)
       \/ \E pivot \in Vals : Linsert(k, where, pivot)
  \/ \E k \in Keys, i \in ListIndexes :
       \/ Lset(k, i)
       \/ \E end \in ListIndexes : Ltrim(k, i, end)
       \/ \E v \in Vals : Lrem(k, i, v)
  \/ \E src, dst \in Keys : RpopLpush(src, dst)
  \/ \E c \in Clients :
       \/ \E args \in UNION {SetToSeqs(S) : S \in SUBSET Keys \ {{}}},
             where \in {LIST_HEAD, LIST_TAIL} : BlockingPop(c, args, where)
       \/ \E src, dst \in Keys : Brpoplpush(c, src, dst)
       \/ Timeout(c)
  \/ ServeReadyKey

Next ==
  \/ ListCommand
  \/ \E k \in Keys : SetString(k) \/ Del(k)
  \/ \E p \in RenamePairs, nx \in BOOLEAN : Rename(p[1], p[2], nx)

Spec == Init /\ [][Next]_vars

-----------------------------------------------------------------------------
(* Properties.                                                             *)

Occurrences(v) ==
  Len(SelectSeq(gone, LAMBDA x : x = v))
  + FoldFunction(LAMBDA n, acc : n + acc, 0,
      [k \in {x \in DOMAIN db : db[x] # STRING_VALUE} |->
         Len(SelectSeq(db[k], LAMBDA x : x = v))])

\* Every pushed element is, at every moment, in exactly one list or has left
\* the lists exactly once (popped and replied to one client, or dropped with
\* its key): pops, RPOPLPUSH, the serving of blocked
\* clients and its undo for a BRPOPLPUSH of the wrong destination type
\* neither lose nor duplicate one.
ValuesConserved ==
  \A v \in Vals : Occurrences(v) = IF v < nextVal THEN 1 ELSE 0

\* Between commands no client stays blocked on a key that holds a list:
\* every way a list comes into being wakes the clients waiting for it.
NoClientBlockedBesideData ==
  Idle => \A c \in Clients : bpop[c] # NotBlocked =>
            \A k \in bpop[c].keys : ~IsList(db, k)

\* db->blocking_keys lists exactly the blocked clients waiting for each key,
\* each once, however clients are served, time out or are blocked again.
BlockedIndexesAgree ==
  \A k \in Keys :
    /\ IsInjective(blockingKeys[k])
    /\ ToSet(blockingKeys[k]) = {c \in Clients : bpop[c] # NotBlocked /\ k \in bpop[c].keys}

\* For every list the key space holds and every start and end, LTRIM
\* keeps exactly the elements LRANGE with the same indexes replies (and an
\* empty range empties the list, which is then deleted): ltrimCommand and
\* lrangeCommand each convert and clamp the indexes their own way, and the
\* trim removes ltrim elements from the head and rtrim from the tail.
LtrimKeepsLrange ==
  \A k \in DOMAIN db, start, end \in ListIndexes :
    IsList(db, k) => LtrimKept(db[k], start, end) = LrangeReply(db[k], start, end)
=============================================================================

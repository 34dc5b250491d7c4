------------------------------ MODULE DictIter ------------------------------
(***************************************************************************)
(* A safe iterator (dictGetSafeIterator, dictNext, dictReleaseIterator)    *)
(* walking a dict while the loop body calls the dict: it may add or look  *)
(* up any key and delete the entry just returned, as the safe iterator     *)
(* allows. The walk runs inside one command, so no other client's command *)
(* and no cron rehash or resize runs until the iterator is released.       *)
(***************************************************************************)
EXTENDS DictMachine

CONSTANT NoEntry   \* the NULL dictEntry pointer

ASSUME NoEntry \notin Keys

VARIABLES
  it,           \* the dictIterator: [on, table, index, entry, next]
  it_returned,  \* history: how many times dictNext returned each key
  it_stable,    \* history: keys present since the iterator was created
  it_done       \* dictNext has returned NULL

iterVars == <<it, it_returned, it_stable, it_done>>
vars == <<dictVars, iterVars>>

\* The entry after k in the chain that holds it (entry->next).
Succ(d, k) ==
  LET t == CHOOSE t \in 0..1 : \E i \in DOMAIN d.ht[t].table : k \in ToSet(d.ht[t].table[i])
      c == d.ht[t].table[Idx(d, t, k)]
      p == CHOOSE p \in DOMAIN c : c[p] = k
  IN IF p = Len(c) THEN NoEntry ELSE c[p + 1]

HeadOr(c) == IF c = <<>> THEN NoEntry ELSE Head(c)

\* The body of dictNext's loop, run until it returns an entry or NULL:
\* [d |-> dict after, it |-> iterator after, ret |-> entry or NoEntry].
RECURSIVE IterNext(_, _)
IterNext(d, i) ==
  LET Emit(d1, i1, e) ==
        IF e # NoEntry
        THEN [d |-> d1, it |-> [i1 EXCEPT !.entry = e, !.next = Succ(d1, e)], ret |-> e]
        ELSE IterNext(d1, [i1 EXCEPT !.entry = NoEntry])
  IN IF i.entry # NoEntry THEN Emit(d, i, i.next)
     ELSE LET d1  == IF i.index = -1 /\ i.table = 0
                     THEN [d EXCEPT !.iterators = @ + 1] ELSE d
              idx == i.index + 1
          IN IF idx < d1.ht[i.table].size
             THEN Emit(d1, [i EXCEPT !.index = idx], HeadOr(d1.ht[i.table].table[idx]))
             ELSE IF IsRehashing(d1) /\ i.table = 0
             THEN Emit(d1, [i EXCEPT !.table = 1, !.index = 0], HeadOr(d1.ht[1].table[0]))
             ELSE [d |-> d1, it |-> [i EXCEPT !.index = idx], ret |-> NoEntry]

\* No iterator allocated; a new one starts at table 0, index -1.
NoIterator == [on |-> FALSE, table |-> 0, index |-> -1, entry |-> NoEntry, next |-> NoEntry]

Init ==
  /\ DictMachineInit
  /\ it = NoIterator
  /\ it_returned = [k \in Keys |-> 0]
  /\ it_stable = {}
  /\ it_done = FALSE

\* dictGetSafeIterator
GetSafeIterator ==
  /\ ~it.on
  /\ it' = [NoIterator EXCEPT !.on = TRUE]
  /\ it_returned' = [k \in Keys |-> 0]
  /\ it_stable' = KeysOf(D)
  /\ it_done' = FALSE
  /\ UNCHANGED dictVars

\* dictNext
DictNext ==
  /\ it.on /\ ~it_done
  /\ LET r == IterNext(D, it)
     IN /\ SetD(r.d)
        /\ it' = r.it
        /\ it_done' = (r.ret = NoEntry)
        /\ it_returned' = IF r.ret = NoEntry THEN it_returned
                          ELSE [it_returned EXCEPT ![r.ret] = @ + 1]
  /\ UNCHANGED <<dict_can_resize, it_stable>>

\* Mutant: the counter is decremented also for an iterator never started.
ReleaseIteratorAlwaysDecrement ==
  /\ it.on
  /\ iterators' = iterators - 1
  /\ it' = NoIterator
  /\ it_returned' = [k \in Keys |-> 0]
  /\ it_stable' = {}
  /\ it_done' = FALSE
  /\ UNCHANGED <<ht, rehashidx, dict_can_resize>>

\* Mutant: the counter is never decremented.
ReleaseIteratorKeepCount ==
  /\ it.on
  /\ iterators' = iterators
  /\ it' = NoIterator
  /\ it_returned' = [k \in Keys |-> 0]
  /\ it_stable' = {}
  /\ it_done' = FALSE
  /\ UNCHANGED <<ht, rehashidx, dict_can_resize>>

\* dictReleaseIterator: unbind and free the iterator (the histories are
\* reset with it).
ReleaseIterator ==
  /\ it.on
  /\ iterators' = IF it.index = -1 /\ it.table = 0 THEN iterators ELSE iterators - 1
  /\ it' = NoIterator
  /\ it_returned' = [k \in Keys |-> 0]
  /\ it_stable' = {}
  /\ it_done' = FALSE
  /\ UNCHANGED <<ht, rehashidx, dict_can_resize>>

\* The loop body: add or find any key, delete the entry just returned.
BodyCall ==
  /\ it.on
  /\ \/ \E k \in Keys : Add(k) \/ Find(k)
     \/ it.entry # NoEntry /\ Delete(it.entry)
  /\ it_stable' = it_stable \cap KeysOf(D)'
  /\ UNCHANGED <<it, it_returned, it_done>>

\* Between commands: any call of the server on the dict, or the server
\* switching dict_can_resize (updateDictResizePolicy, as a child process
\* starts or ends).
ServerCall == ~it.on /\ (DictCall \/ ResizeSwitch) /\ UNCHANGED iterVars

Next == GetSafeIterator \/ DictNext \/ ReleaseIterator \/ BodyCall \/ ServerCall

Spec == Init /\ [][Next]_vars

-----------------------------------------------------------------------------
\* A safe iterator that ran to the end returned every key that was in the
\* dict for the whole walk exactly once, although the loop body added keys
\* (which may start an expand) and deleted entries: _dictRehashStep does
\* nothing while dict.iterators is non-zero, so no key moves between the
\* tables under the walk.
SafeIteratorReturnsEachOnce ==
  it.on /\ it_done => \A k \in it_stable : it_returned[k] = 1

\* dict.iterators counts the safe iterators that dictNext has bound and
\* dictReleaseIterator has not yet released.
IteratorsCounted ==
  iterators = IF it.on /\ ~(it.index = -1 /\ it.table = 0) THEN 1 ELSE 0
=============================================================================

-------------------------------- MODULE Dict --------------------------------
(***************************************************************************)
(* The hash table of dict.c: two tables ht[0] and ht[1] with chaining, the *)
(* incremental rehash from ht[0] to ht[1], and the counter of safe         *)
(* iterators that suspends rehash steps.                                   *)
(*                                                                         *)
(* Entries are keys (values are not modelled: dictReplace and dictFind    *)
(* differ from dictAdd only in what they do to the value). A chain is a    *)
(* sequence of keys, head first, so the order in which dictRehash and      *)
(* dictAddRaw prepend entries is kept. Hash gives the low bits of          *)
(* dictHashKey; a key lives in bucket Hash[k] & sizemask.                  *)
(*                                                                         *)
(* The operators take and return a record d = [ht, rehashidx, iterators]  *)
(* (ht[0..1] of [table, size, used]); a module using them assigns it back. *)
(***************************************************************************)
EXTENDS Integers, Sequences, SequencesExt, FiniteSets

CONSTANTS
  Keys,   \* the keys that may be stored
  Hash    \* [Keys -> Nat]: dictHashKey, reduced to the bits any mask keeps

DICT_HT_INITIAL_SIZE == 4
\* static unsigned int dict_force_resize_ratio
dict_force_resize_ratio == 5

\* _dictReset: table NULL, size 0, sizemask 0, used 0.
EmptyHt == [table |-> [i \in {} |-> <<>>], size |-> 0, used |-> 0]

\* A freshly allocated table of n buckets (zcalloc).
NewHt(n) == [table |-> [i \in 0..(n - 1) |-> <<>>], size |-> n, used |-> 0]

\* _dictInit
DictInit == [ht |-> [t \in 0..1 |-> EmptyHt], rehashidx |-> -1, iterators |-> 0]

IsRehashing(d) == d.rehashidx # -1

\* h & ht[t].sizemask; sizemask is size - 1, and 0 for a reset table.
Idx(d, t, k) == IF d.ht[t].size = 0 THEN 0 ELSE Hash[k] % d.ht[t].size

\* Mutant: lookups never look at ht[1].
SearchedFirstOnly(d) == {0}

\* The tables a lookup visits: ht[1] only while rehashing.
Searched(d) == IF IsRehashing(d) THEN {0, 1} ELSE {0}

\* The keys chained in the tables of d.
KeysOf(d) == UNION {UNION {ToSet(d.ht[t].table[i]) : i \in DOMAIN d.ht[t].table} :
                    t \in 0..1}

\* _dictNextPower: the first power of two from the initial size up.
RECURSIVE NextPowerFrom(_, _)
NextPowerFrom(i, size) == IF i >= size THEN i ELSE NextPowerFrom(i * 2, size)
DictNextPower(size) == NextPowerFrom(DICT_HT_INITIAL_SIZE, size)

\* dictExpand: [d |-> the dict after, ok |-> DICT_OK].
DictExpand(d, size) ==
  LET realsize == DictNextPower(size)
  IN IF IsRehashing(d) \/ d.ht[0].used > size \/ realsize = d.ht[0].size
     THEN [d |-> d, ok |-> FALSE]
     ELSE IF d.ht[0].size = 0
     THEN [d |-> [d EXCEPT !.ht[0] = NewHt(realsize)], ok |-> TRUE]
     ELSE [d |-> [d EXCEPT !.ht[1] = NewHt(realsize), !.rehashidx = 0],
           ok |-> TRUE]

\* Mutant: only the head entry of the bucket reaches ht[1].
MoveBucketHeadOnly(d, i) ==
  LET chain == d.ht[0].table[i]
      k == Head(chain)
  IN [d EXCEPT !.ht[1].table[Idx(d, 1, k)] = <<k>> \o @,
               !.ht[1].used = @ + 1,
               !.ht[0].table[i] = <<>>,
               !.ht[0].used = @ - Len(chain),
               !.rehashidx = i + 1]

\* Mutant: entries are placed with the mask of the old table.
MoveBucketOldMask(d, i) ==
  LET push(t1, k) ==
        [t1 EXCEPT !.table[Idx(d, 0, k) % t1.size] = <<k>> \o @, !.used = @ + 1]
      chain == d.ht[0].table[i]
  IN [d EXCEPT !.ht[1] = FoldLeft(push, d.ht[1], chain),
               !.ht[0].table[i] = <<>>,
               !.ht[0].used = @ - Len(chain),
               !.rehashidx = i + 1]

\* dictRehash, the move of one bucket: every entry of ht[0].table[i], head
\* first, is pushed on the head of its bucket in ht[1].
MoveBucket(d, i) ==
  LET push(t1, k) ==
        [t1 EXCEPT !.table[Idx(d, 1, k)] = <<k>> \o @, !.used = @ + 1]
      chain == d.ht[0].table[i]
  IN [d EXCEPT !.ht[1] = FoldLeft(push, d.ht[1], chain),
               !.ht[0].table[i] = <<>>,
               !.ht[0].used = @ - Len(chain),
               !.rehashidx = i + 1]

\* dictRehash, the end: once ht[0] is empty, ht[1] becomes ht[0].
RehashDone(d) ==
  IF d.ht[0].used = 0
  THEN [d EXCEPT !.ht = [t \in 0..1 |-> IF t = 0 THEN d.ht[1] ELSE EmptyHt],
                 !.rehashidx = -1]
  ELSE d

\* dictRehash(d, n) with ev empty visits left. After ev empty buckets it
\* returns at once, without the check for the end of the rehash.
RECURSIVE RehashLoop(_, _, _)
RehashLoop(d, n, ev) ==
  IF n = 0 \/ d.ht[0].used = 0 THEN RehashDone(d)
  ELSE LET first == CHOOSE i \in d.rehashidx..(d.ht[0].size - 1) :
                      /\ d.ht[0].table[i] # <<>>
                      /\ \A j \in d.rehashidx..(i - 1) : d.ht[0].table[j] = <<>>
           empties == first - d.rehashidx
       IN IF empties >= ev
          THEN [d EXCEPT !.rehashidx = @ + ev]
          ELSE RehashLoop(MoveBucket(d, first), n - 1, ev - empties)

\* Mutant: the end of the rehash is only checked after a bucket moved.
DictRehashOldTableNonEmpty(d, n) ==
  IF IsRehashing(d) /\ d.ht[0].used > 0 THEN RehashLoop(d, n, n * 10) ELSE d

DictRehash(d, n) == IF IsRehashing(d) THEN RehashLoop(d, n, n * 10) ELSE d

\* Mutant: the step is taken even with safe iterators bound.
DictRehashStepIgnoringIterators(d) == DictRehash(d, 1)

\* _dictRehashStep: one step, only when no safe iterator is bound.
DictRehashStep(d) == IF d.iterators = 0 THEN DictRehash(d, 1) ELSE d

\* _dictExpandIfNeeded: [d, ok]. can_resize is dict_can_resize.
DictExpandIfNeeded(d, can_resize) ==
  IF IsRehashing(d) THEN [d |-> d, ok |-> TRUE]
  ELSE IF d.ht[0].size = 0 THEN DictExpand(d, DICT_HT_INITIAL_SIZE)
  ELSE IF d.ht[0].used >= d.ht[0].size
          /\ (can_resize \/ d.ht[0].used \div d.ht[0].size > dict_force_resize_ratio)
  THEN DictExpand(d, d.ht[0].used * 2)
  ELSE [d |-> d, ok |-> TRUE]

\* The key is chained in one of the tables a lookup visits.
Found(d, k) == \E t \in Searched(d) : k \in ToSet(d.ht[t].table[Idx(d, t, k)])

\* dictAddRaw: rehash step, _dictKeyIndex (which may expand), then insert
\* at the head of the bucket, in ht[1] while rehashing.
DictAdd(d, k, can_resize) ==
  LET d1 == IF IsRehashing(d) THEN DictRehashStep(d) ELSE d
      e  == DictExpandIfNeeded(d1, can_resize)
      d2 == e.d
      t  == IF IsRehashing(d2) THEN 1 ELSE 0
  IN IF ~e.ok \/ Found(d2, k) THEN d2
     ELSE [d2 EXCEPT !.ht[t].table[Idx(d2, t, k)] = <<k>> \o @,
                     !.ht[t].used = @ + 1]

\* dictGenericDelete: unlink k from the first table that chains it.
DictDelete(d, k) ==
  IF d.ht[0].used = 0 /\ d.ht[1].used = 0 THEN d
  ELSE LET d1 == IF IsRehashing(d) THEN DictRehashStep(d) ELSE d
           hit == {t \in Searched(d1) : k \in ToSet(d1.ht[t].table[Idx(d1, t, k)])}
           t == CHOOSE t \in hit : \A u \in hit : t <= u
       IN IF hit = {} THEN d1
          ELSE [d1 EXCEPT !.ht[t].table[Idx(d1, t, k)] =
                            SelectSeq(@, LAMBDA x : x # k),
                          !.ht[t].used = @ - 1]

\* dictFind: only the rehash step changes the dict.
DictFind(d, k) ==
  IF d.ht[0].used + d.ht[1].used = 0 THEN d
  ELSE IF IsRehashing(d) THEN DictRehashStep(d) ELSE d

\* dictResize: shrink or grow to the smallest power holding every entry.
DictResize(d, can_resize) ==
  IF ~can_resize \/ IsRehashing(d) THEN d
  ELSE DictExpand(d, IF d.ht[0].used < DICT_HT_INITIAL_SIZE
                     THEN DICT_HT_INITIAL_SIZE ELSE d.ht[0].used).d

\* dictRehashMilliseconds: dictRehash(d, 100) until it returns 0 or the
\* time is up; on tables of at most 100 buckets the first call finishes.
DictRehashMilliseconds(d) == DictRehash(d, 100)

\* dictEmpty: _dictClear both tables, rehashidx -1, iterators 0.
DictEmpty(d) == [d EXCEPT !.ht = [t \in 0..1 |-> EmptyHt], !.rehashidx = -1,
                          !.iterators = 0]
=============================================================================

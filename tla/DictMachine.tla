---------------------------- MODULE DictMachine ----------------------------
(***************************************************************************)
(* One dict of dict.c as a state machine: the calls the server makes on it *)
(* (add, delete, find, resize, timed rehash, empty) and the global         *)
(* dict_can_resize switch, each call one atomic step as the single-        *)
(* threaded server makes it. Every lookup and update first takes one       *)
(* incremental rehash step.                                                *)
(***************************************************************************)
EXTENDS Dict

VARIABLES
  ht,              \* dict.ht[0..1]: [table, size, used]
  rehashidx,       \* dict.rehashidx, -1 when not rehashing
  iterators,       \* dict.iterators: safe iterators bound to the dict
  dict_can_resize  \* static int dict_can_resize

dictVars == <<ht, rehashidx, iterators, dict_can_resize>>

D == [ht |-> ht, rehashidx |-> rehashidx, iterators |-> iterators]

SetD(d) == /\ ht' = d.ht
           /\ rehashidx' = d.rehashidx
           /\ iterators' = d.iterators

Chains == Seq(Keys)

TypeOK ==
  /\ \A t \in 0..1 :
       /\ ht[t].size \in {0} \cup {2^e : e \in 2..4}
       /\ ht[t].table \in [0..(ht[t].size - 1) -> Chains]
       /\ ht[t].used \in 0..Cardinality(Keys)
  /\ rehashidx \in -1..(ht[0].size)
  /\ iterators \in Nat
  /\ dict_can_resize \in BOOLEAN

\* dictCreate
DictMachineInit ==
  /\ ht = DictInit.ht /\ rehashidx = -1 /\ iterators = 0
  /\ dict_can_resize = TRUE

-----------------------------------------------------------------------------
(* The calls. k is the key argument.                                       *)

Add(k) == SetD(DictAdd(D, k, dict_can_resize)) /\ UNCHANGED dict_can_resize

Delete(k) == SetD(DictDelete(D, k)) /\ UNCHANGED dict_can_resize

Find(k) == SetD(DictFind(D, k)) /\ UNCHANGED dict_can_resize

Resize == SetD(DictResize(D, dict_can_resize)) /\ UNCHANGED dict_can_resize

RehashMilliseconds == SetD(DictRehashMilliseconds(D)) /\ UNCHANGED dict_can_resize

Empty == SetD(DictEmpty(D)) /\ UNCHANGED dict_can_resize

\* dictEnableResize / dictDisableResize
EnableResize == dict_can_resize' = TRUE /\ UNCHANGED <<ht, rehashidx, iterators>>
DisableResize == dict_can_resize' = FALSE /\ UNCHANGED <<ht, rehashidx, iterators>>

\* Any call of the server on the dict.
DictCall ==
  \/ \E k \in Keys : Add(k) \/ Delete(k) \/ Find(k)
  \/ Resize \/ RehashMilliseconds \/ Empty

\* The server turns resizing off while a child process saves, and back on.
ResizeSwitch == EnableResize \/ DisableResize

DictSpec == DictMachineInit /\ [][DictCall \/ ResizeSwitch]_dictVars

-----------------------------------------------------------------------------
(* Properties                                                              *)

\* The tables are well formed after every call: each key sits in the bucket
\* its hash selects in its table, each table's used counter equals the
\* number of entries chained in it (dictRehash and dictAddRaw maintain both
\* by hand), ht[1] is allocated exactly while rehashing, and every bucket of
\* ht[0] below rehashidx has been emptied by dictRehash.
TablesWellFormed ==
  /\ \A t \in 0..1 :
       /\ \A i \in DOMAIN ht[t].table :
            \A j \in DOMAIN ht[t].table[i] : Hash[ht[t].table[i][j]] % ht[t].size = i
       /\ ht[t].used = FoldFunction(LAMBDA c, acc : Len(c) + acc, 0, ht[t].table)
  /\ IsRehashing(D) <=> ht[1].size > 0
  /\ IsRehashing(D) => \A i \in 0..(rehashidx - 1) : ht[0].table[i] = <<>>

\* No key is chained twice, in one table or across both: dictAddRaw looks
\* in both tables while rehashing and inserts only into ht[1].
NoDuplicateEntries ==
  \A k \in Keys :
    LET inTable(t) == FoldFunction(LAMBDA c, acc : Len(SelectSeq(c, LAMBDA x : x = k)) + acc,
                                   0, ht[t].table)
    IN inTable(0) + inTable(1) <= 1

\* Refinement: through every expand, incremental rehash step, resize and
\* table swap, the keys chained in ht[0] and ht[1] change only as the key
\* set of KeyMap does: by adding an absent key, removing one, or emptying.
Abstract == INSTANCE KeyMap WITH keys <- KeysOf(D)

DictImplementsKeyMap == Abstract!Spec
=============================================================================

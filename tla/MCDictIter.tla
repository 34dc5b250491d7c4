----------------------------- MODULE MCDictIter -----------------------------
(***************************************************************************)
(* Model-checking instance of the safe iterator: four keys, colliding in   *)
(* pairs in a table of 4 buckets (k1, k2 in bucket 0; k3, k4 in bucket 1)  *)
(* and split in a table of 8. With four entries in four buckets any        *)
(* dictAdd, even of a present key, makes _dictExpandIfNeeded grow ht[0].   *)
(***************************************************************************)
EXTENDS DictIter, TLC

CONSTANTS k1, k2, k3, k4

MCKeys == {k1, k2, k3, k4}

MCHash == (k1 :> 0 @@ k2 :> 4 @@ k3 :> 1 @@ k4 :> 5)
=============================================================================

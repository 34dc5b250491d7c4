------------------------------- MODULE KeyMap -------------------------------
(***************************************************************************)
(* What dict.c promises its callers about the keys it holds: a set of     *)
(* distinct keys that changes only by adding a key that is absent          *)
(* (dictAdd), removing one (dictDelete) or removing all (dictEmpty). How   *)
(* the keys are spread over tables and buckets is invisible here.          *)
(***************************************************************************)
CONSTANT Keys

VARIABLE keys

Init == keys = {}

Insert(k) == k \notin keys /\ keys' = keys \cup {k}

Remove(k) == k \in keys /\ keys' = keys \ {k}

Clear == keys' = {}

Next == \/ \E k \in Keys : Insert(k) \/ Remove(k)
        \/ Clear

Spec == Init /\ [][Next]_keys
=============================================================================

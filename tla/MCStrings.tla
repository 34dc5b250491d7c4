------------------------------ MODULE MCStrings ------------------------------
(* The list model's two keys, two clients and three pushed elements, with *)
(* the string commands sent for k1. long long is 3 bits wide (-4..3),     *)
(* shared.integers holds 0 and 1, and the proto limit is 2 bytes: INCRBY 2 *)
(* and DECR reach both ends of the range, SET "1" stores a shared integer  *)
(* INCR must not write to, and APPEND and SETRANGE meet the limit.         *)
EXTENDS Strings

CONSTANTS k1, k2, c1, c2

MCKeys == {k1, k2}
MCClients == {c1, c2}
MCStringKeys == {k1}
MCSetArgs == {<<"1">>, <<"a">>}
MCRanges == {-3, -1, 0, 2}
\* LSET, LTRIM and LREM indexes: before the head, from the tail, at the
\* second element, past a shorter list.
MCListIndexes == {-3, -1, 1}
\* RENAME moves a list of k2 onto k1, where the strings live: over a string,
\* a list or no key, with clients blocked on k1 or not.
MCRenamePairs == {<<k2, k1>>}
\* INCRBY and DECRBY sent LLONG_MIN, the one argument whose negation wraps.
MCIncrArgsMin == {LLONG_MIN}
=============================================================================

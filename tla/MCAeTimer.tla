----------------------------- MODULE MCAeTimer -----------------------------
(* AeTimer with two milliseconds to the second: a period of 1 exercises   *)
(* the carry of aeAddMillisecondsToNow, a period of 2 a whole second.      *)
EXTENDS AeTimer, TLC
=============================================================================

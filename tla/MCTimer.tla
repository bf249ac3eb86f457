------------------------------- MODULE MCTimer -------------------------------
(* Instance of Timer for TLC: words of 17 bits, counters, intervals and     *)
(* frequencies of 8 bits, and the divider of 8 bits as in the code, so that  *)
(* some intervals need no divider, some one, and some are too long for any.  *)
EXTENDS Timer

CONSTANTS c1, c2

MCBit == [i \in 0 .. Width |-> 2 ^ i]
=============================================================================

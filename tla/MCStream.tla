------------------------------- MODULE MCStream -------------------------------
(* Instance of Stream for TLC: a window of 5 x 2 cells in the middle of a      *)
(* screen of 7 x 4, a tab of two cells, a buffer of three characters.          *)
EXTENDS Stream, TLC

MCStart == {<<3, 1>>}

MCPower == [b \in Base |-> [k \in 0 .. Bits |-> b ^ k]]

MCNumber == {-3, 0, 11}

\* The old text has another character in every cell.
MCOld == [n \in 0 .. Columns * Rows - 1 |-> ToString(n)]
=============================================================================

------------------------------- MODULE MCLocks -------------------------------
(* Instance of Locks for TLC: the tickets wrap while three CPUs compete for *)
(* s_lock and, in their handlers and in leave(), for the lock of one gate.  *)
EXTENDS Locks

CONSTANTS c1, c2, c3
=============================================================================

------------------------------ MODULE MCGuard -------------------------------
(* Instances of Guard for TLC: two CPUs, and one context besides their boot *)
(* code, so that contexts move from one CPU to the other.                   *)
EXTENDS Guard

CONSTANTS c1, c2, t1, timer, panic

\* The vectors of machine/plugbox.h 37-42; panic stands for any other one.
MCPriority == [g \in Gate |-> IF g = timer THEN 32 ELSE 255]
=============================================================================

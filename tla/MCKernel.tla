------------------------------ MODULE MCKernel ------------------------------
(* Instances of Kernel for TLC. *)
EXTENDS Kernel

CONSTANTS c1, c2, t1, t2, t3

\* The vectors of machine/plugbox.h 37-42; panic stands for any other one.
MCPriority == [g \in Gate |-> CASE g = watch    -> 32
                                [] g = keyboard -> 33
                                [] g = assassin -> 100
                                [] g = panic    -> 255]

MCOrder  == <<t1, t2, t3>>
MCOrder2 == <<t1, t2>>

Calling(names) == names \X {NoThread}
Killing(S) == {"kill"} \X S

CallsKill  == Calling({"output", "resume", "exit"}) \cup Killing({t3})
CallsTimer == Killing({t2})
CallsDie   == Calling({"output"}) \cup Killing({t2})
=============================================================================

----------------------------- MODULE TicketLock -----------------------------
(***************************************************************************)
(* machine/ticketlock.h: the ticket lock that protects the epilogue level  *)
(* (Guard::s_lock) and the start barrier of main.cc.                       *)
(*                                                                         *)
(* lock() takes a ticket with an atomic fetch-and-add and spins until the  *)
(* turn reaches it.  unlock() is a plain increment of a volatile variable, *)
(* hence a load and a store which other CPUs can see between.  Both        *)
(* counters are unsigned: they wrap at Width (2^32 in the code).           *)
(***************************************************************************)
EXTENDS Integers, FiniteSets

CONSTANTS CPU,    \* the processors that use the lock
          Width   \* number of values of an unsigned counter

ASSUME CPUAssumption == IsFiniteSet(CPU)
ASSUME WidthAssumption == Width \in Nat /\ Cardinality(CPU) < Width

VARIABLES ticketnumber,  \* _ticketnumber: the next ticket to hand out
          turn,          \* _turn: the ticket that is being served
          current,       \* current[c]: the local variable of lock()
          loaded,        \* loaded[c]: the value that unlock() read from _turn
          pc             \* pc[c]: where c is in its use of the lock

vars == <<ticketnumber, turn, current, loaded, pc>>

Counter == 0 .. (Width - 1)

\* The unsigned increment.
Successor(n) == (n + 1) % Width

Init == /\ ticketnumber = 0
        /\ turn = 0
        /\ current = [c \in CPU |-> 0]
        /\ loaded = [c \in CPU |-> 0]
        /\ pc = [c \in CPU |-> "idle"]

\* Mutant: a plain ++, whose update is lost when another CPU is in lock() too.
MutantTakeTicket(c) ==
  /\ pc[c] = "idle"
  /\ current' = [current EXCEPT ![c] = ticketnumber]
  /\ ticketnumber' = IF \E d \in CPU : pc[d] = "spin" THEN ticketnumber
                                                      ELSE Successor(ticketnumber)
  /\ pc' = [pc EXCEPT ![c] = "spin"]
  /\ UNCHANGED <<turn, loaded>>

\* lock(): current = __sync_fetch_and_add(&_ticketnumber, 1)
TakeTicket(c) ==
  /\ pc[c] = "idle"
  /\ current' = [current EXCEPT ![c] = ticketnumber]
  /\ ticketnumber' = Successor(ticketnumber)
  /\ pc' = [pc EXCEPT ![c] = "spin"]
  /\ UNCHANGED <<turn, loaded>>

\* Mutant: a lock without tickets, which the first to see it free takes.
MutantAcquireFree(c) ==
  /\ pc[c] = "spin"
  /\ \A d \in CPU : pc[d] \notin {"critical", "unlock"}
  /\ pc' = [pc EXCEPT ![c] = "critical"]
  /\ UNCHANGED <<ticketnumber, turn, current, loaded>>

\* lock(): the exit of while (_turn != current)
Acquire(c) ==
  /\ pc[c] = "spin"
  /\ turn = current[c]
  /\ pc' = [pc EXCEPT ![c] = "critical"]
  /\ UNCHANGED <<ticketnumber, turn, current, loaded>>

\* unlock(): the load of _turn++
ReadTurn(c) ==
  /\ pc[c] = "critical"
  /\ loaded' = [loaded EXCEPT ![c] = turn]
  /\ pc' = [pc EXCEPT ![c] = "unlock"]
  /\ UNCHANGED <<ticketnumber, turn, current>>

\* Mutant: an increment that does not wrap where the tickets do.
MutantWriteTurn(c) ==
  /\ pc[c] = "unlock"
  /\ turn' = loaded[c] + 1
  /\ current' = [current EXCEPT ![c] = 0]
  /\ loaded' = [loaded EXCEPT ![c] = 0]
  /\ pc' = [pc EXCEPT ![c] = "idle"]
  /\ UNCHANGED ticketnumber

\* unlock(): the store of _turn++.  The locals of both calls are gone (0).
WriteTurn(c) ==
  /\ pc[c] = "unlock"
  /\ turn' = Successor(loaded[c])
  /\ current' = [current EXCEPT ![c] = 0]
  /\ loaded' = [loaded EXCEPT ![c] = 0]
  /\ pc' = [pc EXCEPT ![c] = "idle"]
  /\ UNCHANGED ticketnumber

Step(c) == TakeTicket(c) \/ Acquire(c) \/ ReadTurn(c) \/ WriteTurn(c)

Next == \E c \in CPU : Step(c)

Spec == Init /\ [][Next]_vars

-----------------------------------------------------------------------------
\* The CPUs that drew a ticket whose turn is not over.
Holders == {c \in CPU : pc[c] # "idle"}

\* How many increments lead from counter value a to counter value b.
Distance(a, b) == IF a <= b THEN b - a ELSE b - a + Width

\* Types of the variables (ticketlock.h 26-27, 46).
TypeOK == /\ ticketnumber \in Counter
          /\ turn \in Counter
          /\ current \in [CPU -> Counter]
          /\ loaded \in [CPU -> Counter]
          /\ pc \in [CPU -> {"idle", "spin", "critical", "unlock"}]

\* At most one CPU is between lock() and the end of unlock(), although the
\* tickets wrap around and unlock() is not atomic.
Mutex == \A c, d \in CPU :
            /\ pc[c] \in {"critical", "unlock"}
            /\ pc[d] \in {"critical", "unlock"}
            => c = d

\* The strengthening that makes Mutex inductive: the outstanding tickets are
\* the ones from turn up to ticketnumber, each drawn by one CPU, and whoever is
\* in the critical section holds the ticket whose turn it is.
TicketsInUse ==
  /\ Distance(turn, ticketnumber) = Cardinality(Holders)
  /\ \A c \in Holders : Distance(turn, current[c]) < Cardinality(Holders)
  /\ \A c, d \in Holders : current[c] = current[d] => c = d
  /\ \A c \in CPU : pc[c] \in {"critical", "unlock"} => current[c] = turn
  /\ \A c \in CPU : pc[c] = "unlock" => loaded[c] = turn

(***************************************************************************)
(* The ticket lock implements the contract of FifoLock: the holders in the *)
(* order of their tickets are the queue of the abstract lock.              *)
(***************************************************************************)
ByTicket == [i \in 1 .. Cardinality(Holders) |->
               CHOOSE c \in Holders : Distance(turn, current[c]) = i - 1]

Mode == [c \in CPU |-> CASE pc[c] = "idle" -> "idle"
                         [] pc[c] = "spin" -> "waiting"
                         [] OTHER          -> "holding"]

Fifo == INSTANCE FifoLock WITH Client <- CPU, queue <- ByTicket, mode <- Mode

\* lock() and unlock() serve the CPUs first come, first served, one at a time
\* (ticketlock.h 9-17).  That they are served at all is TicketServed in Locks.
ImplementsFifoLock == Fifo!Spec
=============================================================================

-------------------------------- MODULE Locks --------------------------------
(***************************************************************************)
(* The two locks of the guard together, as guard.cc nests them: a CPU that *)
(* waits for s_lock, or holds it, is interrupted by handlers that queue a  *)
(* gate (Guard::relay), and takes gates out of its queue while it holds    *)
(* s_lock (Guard::leave).  Both calls spin on the lock of the gate with    *)
(* interrupts disabled, so that a CPU that holds or awaits s_lock does     *)
(* nothing about it until its call returns.                                *)
(***************************************************************************)
EXTENDS TicketLock

VARIABLES lock, queue_flag, op, status,  \* as in Gate
          gate_pc                        \* where c is in its call of the gate

Flag == INSTANCE Gate WITH pc <- gate_pc

gateVars == <<lock, queue_flag, op, status, gate_pc>>
allVars  == <<vars, gateVars>>

LInit == Init /\ Flag!Init

\* relay() queues a gate whatever the CPU does but unlock(), which runs with
\* interrupts disabled; only the CPU that holds s_lock, in leave(), takes one out.
BeginCall(c) == /\ pc[c] # "unlock"
                /\ Flag!Call(c)
                /\ op'[c] = "set_dequeued" => pc[c] = "critical"

\* The rest of the call.
FinishCall(c) == \/ Flag!TestAndSet(c) \/ Flag!Test(c) \/ Flag!Write(c)
                 \/ Flag!Unlock(c) \/ Flag!Return(c)

UseGate(c) == (BeginCall(c) \/ FinishCall(c)) /\ UNCHANGED vars

\* A statement of s_lock.lock() or s_lock.unlock().
UseLock(c) == gate_pc[c] = "none" /\ Step(c) /\ UNCHANGED gateVars

LNext == \E c \in CPU : UseLock(c) \/ UseGate(c)

LSpec == LInit /\ [][LNext]_allVars

(***************************************************************************)
(* A call of the gate goes on, as interrupts are disabled; a CPU that is   *)
(* interrupted again and again still executes instructions between two     *)
(* handlers, so that it sees its turn and ends its critical section.  No   *)
(* CPU has to ask for the lock.                                            *)
(***************************************************************************)
LFairSpec ==
  /\ LSpec
  /\ \A c \in CPU : /\ WF_allVars(FinishCall(c) /\ UNCHANGED vars)
                    /\ SF_allVars(pc[c] # "idle" /\ UseLock(c))

-----------------------------------------------------------------------------
\* The lock of a gate is taken exactly while one CPU is between lock() and
\* unlock(), and what that CPU read from the flag still holds when it writes it.
LockInvariant == Flag!LockInvariant

\* set_queued() and set_dequeued() are atomic, so that of several CPUs that want
\* to queue the gate one is told that it may (gate.h 59-72).
ImplementsGateFlag == Flag!ImplementsGateFlag

\* A test-and-set lock is not fair, but some call always returns: the lock is
\* never left taken (gate.h 59-72), whoever awaits or holds s_lock.
SomeCallReturns ==
  (\E c \in CPU : gate_pc[c] = "lock") ~> (\E c \in CPU : gate_pc[c] = "return")

\* At some time no handler queues the gate any more.
HandlersEnd == <>[](\A c \in CPU : gate_pc[c] = "none" \/ op[c] = "set_dequeued")

\* Every CPU that takes a ticket is served: the while loop of lock() ends, though
\* the holder of s_lock needs the other lock before it gives it back.  It may
\* lose the race for that lock as long as the others come back to it.
TicketServed ==
  HandlersEnd => \A c \in CPU : pc[c] = "spin" ~> pc[c] = "critical"
=============================================================================

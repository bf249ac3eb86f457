-------------------------------- MODULE Gate --------------------------------
(***************************************************************************)
(* guard/gate.h: the queue flag of one Gate object and the spinlock that   *)
(* makes set_queued() and set_dequeued() atomic.  A gate is global: every  *)
(* CPU calls them, with its interrupts disabled (Guard::relay and          *)
(* Guard::leave), so a call is never interrupted on its own CPU.           *)
(***************************************************************************)
CONSTANT CPU

VARIABLES lock,        \* gate_lock (machine/spinlock.h): is it taken?
          queue_flag,  \* the flag of the gate
          op,          \* op[c]: the operation that c called last
          status,      \* status[c]: the local variable of set_queued()
          pc           \* pc[c]: the statement of the call that c is at

vars == <<lock, queue_flag, op, status, pc>>

Operation == {"set_queued", "set_dequeued"}

Init == /\ lock = FALSE
        /\ queue_flag = FALSE
        /\ op = [c \in CPU |-> "set_dequeued"]
        /\ status = [c \in CPU |-> FALSE]
        /\ pc = [c \in CPU |-> "none"]

\* A CPU calls one of the operations.
Call(c) == /\ pc[c] = "none"
           /\ \E o \in Operation : op' = [op EXCEPT ![c] = o]
           /\ pc' = [pc EXCEPT ![c] = "lock"]
           /\ UNCHANGED <<lock, queue_flag, status>>

\* Mutant: a lock that reads the variable and writes it later.
MutantTestAndSet(c) ==
  /\ pc[c] = "lock"
  /\ ~lock \/ \A d \in CPU : pc[d] \notin {"write", "unlock"}
  /\ lock' = TRUE
  /\ pc' = [pc EXCEPT ![c] = IF op[c] = "set_queued" THEN "test" ELSE "write"]
  /\ UNCHANGED <<queue_flag, op, status>>

\* gate_lock.lock(): the test-and-set that finds the lock free.  One that finds
\* it taken writes the value that is there and tries again.
TestAndSet(c) ==
  /\ pc[c] = "lock"
  /\ ~lock
  /\ lock' = TRUE
  /\ pc' = [pc EXCEPT ![c] = IF op[c] = "set_queued" THEN "test" ELSE "write"]
  /\ UNCHANGED <<queue_flag, op, status>>

\* Mutant: set_queued() that waits until the gate is no longer queued.
MutantTest(c) == /\ pc[c] = "test"
                 /\ status' = [status EXCEPT ![c] = ~queue_flag]
                 /\ lock' = ~queue_flag
                 /\ pc' = [pc EXCEPT ![c] = IF queue_flag THEN "lock" ELSE "write"]
                 /\ UNCHANGED <<queue_flag, op>>

\* status = !queue_flag
Test(c) == /\ pc[c] = "test"
           /\ status' = [status EXCEPT ![c] = ~queue_flag]
           /\ pc' = [pc EXCEPT ![c] = "write"]
           /\ UNCHANGED <<lock, queue_flag, op>>

\* queue_flag = true, or queue_flag = false
Write(c) == /\ pc[c] = "write"
            /\ queue_flag' = (op[c] = "set_queued")
            /\ pc' = [pc EXCEPT ![c] = "unlock"]
            /\ UNCHANGED <<lock, op, status>>

\* gate_lock.unlock()
Unlock(c) == /\ pc[c] = "unlock"
             /\ lock' = FALSE
             /\ pc' = [pc EXCEPT ![c] = "return"]
             /\ UNCHANGED <<queue_flag, op, status>>

\* The answer is used by the caller; the call and its local variable are gone.
Return(c) == /\ pc[c] = "return"
             /\ pc' = [pc EXCEPT ![c] = "none"]
             /\ op' = [op EXCEPT ![c] = "set_dequeued"]
             /\ status' = [status EXCEPT ![c] = FALSE]
             /\ UNCHANGED <<lock, queue_flag>>

Next == \E c \in CPU : \/ Call(c) \/ TestAndSet(c) \/ Test(c)
                       \/ Write(c) \/ Unlock(c) \/ Return(c)

Spec == Init /\ [][Next]_vars

-----------------------------------------------------------------------------
Inside(c) == pc[c] \in {"test", "write", "unlock"}

\* Types of the variables (gate.h 26-27, 66; spinlock.h 32).
TypeOK == /\ lock \in BOOLEAN
          /\ queue_flag \in BOOLEAN
          /\ op \in [CPU -> Operation]
          /\ status \in [CPU -> BOOLEAN]
          /\ pc \in [CPU -> {"none", "lock", "test", "write", "unlock", "return"}]

\* The lock is taken exactly while one CPU is between lock() and unlock(), and
\* what that CPU read from the flag is still true when it writes it.
LockInvariant ==
  /\ \A c, d \in CPU : Inside(c) /\ Inside(d) => c = d
  /\ lock <=> \E c \in CPU : Inside(c)
  /\ \A c \in CPU : pc[c] = "write" /\ op[c] = "set_queued"
                      => status[c] = ~queue_flag

(***************************************************************************)
(* Seen from outside, a call takes effect at once, when it writes the flag.*)
(***************************************************************************)
Answer(c) == IF op[c] = "set_dequeued" THEN "done"
             ELSE IF status[c] THEN "yes" ELSE "no"

AbstractCall == [c \in CPU |-> IF pc[c] = "none" THEN "none"
                               ELSE IF pc[c] \in {"unlock", "return"} THEN Answer(c)
                               ELSE op[c]]

Atomic == INSTANCE GateFlag WITH queued <- queue_flag, call <- AbstractCall

\* set_queued() and set_dequeued() are atomic, so that of several CPUs that want
\* to queue the gate one is told that it may (gate.h 59-72).
ImplementsGateFlag == Atomic!Spec
=============================================================================

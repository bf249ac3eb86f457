------------------------------- MODULE Guard --------------------------------
(***************************************************************************)
(* guard/guard.cc: the prologue/epilogue model on several CPUs.            *)
(*                                                                         *)
(* Level 0 is normal execution, level 1/2 (E1/2) the kernel: system calls  *)
(* and epilogues.  A CPU announces with its flag that it is on E1/2 and    *)
(* the CPUs exclude one another with s_lock.  An interrupt handler runs    *)
(* the prologue of its gate with interrupts disabled and then either       *)
(* enters E1/2 itself, or leaves the gate in the epilogue queue of its CPU *)
(* for Guard::leave() to process.                                          *)
(*                                                                         *)
(* A context is a flow of control with a stack of its own: a thread, or    *)
(* the boot code of a CPU (named as the CPU).  What a system call or an    *)
(* epilogue does on E1/2 is left open here (Body, Switch, Die); module     *)
(* Kernel fills it in.  s_lock is the FIFO contract that TicketLock        *)
(* implements, the queue flag of a gate the atomic one that Gate           *)
(* implements.                                                             *)
(***************************************************************************)
EXTENDS Integers, Sequences, FiniteSets

CONSTANTS CPU,            \* the processors
          Context,        \* the contexts, the boot code of the CPUs included
          Gate,           \* the interrupt handlers (global objects)
          NeedsEpilogue,  \* the gates whose prologue() returns true
          Priority,       \* Priority[g]: by the interrupt vector of the gate
          NoGate,         \* the null pointer
          MaxNest         \* bound: nested handlers on one stack that wait for E1/2

ASSUME ContextAssumption == CPU \subseteq Context
ASSUME GateAssumption == /\ NeedsEpilogue \subseteq Gate
                         /\ NoGate \notin Gate
                         /\ Priority \in [Gate -> Nat]
                         /\ \A g, h \in Gate : Priority[g] = Priority[h] => g = h
ASSUME MaxNestAssumption == MaxNest \in Nat \ {0}

VARIABLES
  ints,        \* ints[c]: does c accept interrupts (the IF bit)?
  flag,        \* flag[c]: is c on E1/2, or on its way there?
  queues,      \* queues[c]: the epilogue queue of c
  queue_flag,  \* queue_flag[g]: is gate g marked as queued?
  s_lock,      \* the CPUs that called s_lock.lock(), in order
  isr,         \* isr[c]: interrupts in service in the local APIC of c
  handler,     \* handler[c]: gate of the handler that c runs with IF = 0
  irq,         \* irq[c]: where that handler is
  running,     \* running[c]: the context that c executes
  pc,          \* pc[x]: where context x is
  stack,       \* stack[x]: the gates that relay() runs directly on x's stack
  item         \* item[x]: the local variable of leave()

irqVars == <<isr, handler, irq>>
ctxVars == <<running, pc, stack, item>>
vars == <<ints, flag, queues, queue_flag, s_lock, irqVars, ctxVars>>

SetPC(x, label) == pc' = [pc EXCEPT ![x] = label]
SetInts(c, b) == ints' = [ints EXCEPT ![c] = b]

\* c executes the context that it runs, not an interrupt handler.
AtLabel(c, label) == irq[c] = "none" /\ pc[running[c]] = label

(***************************************************************************)
(* The local APIC: an EOI retires the interrupt of highest priority.       *)
(***************************************************************************)
AfterEOI(S) == {g \in S : \E h \in S : Priority[h] > Priority[g]}

EOI(c) == isr' = [isr EXCEPT ![c] = AfterEOI(isr[c])]

\* Mutant: a context that starts without the leave() of kickoff.
MutantStartLabel(x) == "E0"

\* Where a context starts: in Dispatcher::kickoff, unless a CPU boots in it.
StartLabel(x) == IF x \in CPU THEN "E0" ELSE "leave"

(***************************************************************************)
(* The system starts with every CPU in its boot code; other contexts are   *)
(* prepared to start in Dispatcher::kickoff, which calls leave().          *)
(***************************************************************************)
Init == /\ ints \in [CPU -> BOOLEAN]
        /\ flag = [c \in CPU |-> FALSE]
        /\ queues = [c \in CPU |-> << >>]
        /\ queue_flag = [g \in Gate |-> FALSE]
        /\ s_lock = << >>
        /\ isr = [c \in CPU |-> {}]
        /\ handler = [c \in CPU |-> NoGate]
        /\ irq = [c \in CPU |-> "none"]
        /\ running = [c \in CPU |-> c]
        /\ pc = [x \in Context |-> StartLabel(x)]
        /\ stack = [x \in Context |-> << >>]
        /\ item = [x \in Context |-> NoGate]

-----------------------------------------------------------------------------
(* Interrupt handlers: guardian() and Guard::relay() up to enter().        *)

\* The CPU accepts an interrupt and disables interrupts.  MaxNest bounds how
\* many handlers that enter E1/2 are nested on one stack; the code does not.
Interrupt(c, g) ==
  /\ ints[c]
  /\ irq[c] = "none"
  /\ g \notin isr[c]
  /\ \A h \in isr[c] : Priority[g] > Priority[h]
  /\ flag[c] \/ g \notin NeedsEpilogue \/ Len(stack[running[c]]) < MaxNest
  /\ isr' = [isr EXCEPT ![c] = @ \cup {g}]
  /\ handler' = [handler EXCEPT ![c] = g]
  /\ irq' = [irq EXCEPT ![c] = "relay"]
  /\ SetInts(c, FALSE)
  /\ UNCHANGED <<flag, queues, queue_flag, s_lock, ctxVars>>

HandlerGoesOn(c, label) ==
  /\ irq' = [irq EXCEPT ![c] = label]
  /\ UNCHANGED <<ints, handler>>

HandlerReturns(c) ==
  /\ irq' = [irq EXCEPT ![c] = "none"]
  /\ handler' = [handler EXCEPT ![c] = NoGate]
  /\ SetInts(c, TRUE)

\* prologue() returns false: acknowledge, enable interrupts, return.
RelayNoEpilogue(c) ==
  /\ irq[c] = "relay"
  /\ handler[c] \notin NeedsEpilogue
  /\ EOI(c)
  /\ HandlerReturns(c)
  /\ UNCHANGED <<flag, queues, queue_flag, s_lock, ctxVars>>

\* Mutant: relay() without the first ackIRQ().
MutantRelayDefer(c) ==
  /\ irq[c] = "relay"
  /\ handler[c] \in NeedsEpilogue
  /\ flag[c]
  /\ HandlerGoesOn(c, "set_queued")
  /\ UNCHANGED <<isr, flag, queues, queue_flag, s_lock, ctxVars>>

\* The CPU is on E1/2: the epilogue has to wait.
RelayDefer(c) ==
  /\ irq[c] = "relay"
  /\ handler[c] \in NeedsEpilogue
  /\ flag[c]
  /\ EOI(c)
  /\ HandlerGoesOn(c, "set_queued")
  /\ UNCHANGED <<flag, queues, queue_flag, s_lock, ctxVars>>

\* set_queued() answers false: the epilogue is not queued.
DropQueued(c) ==
  /\ irq[c] = "set_queued"
  /\ queue_flag[handler[c]]
  /\ EOI(c)
  /\ HandlerReturns(c)
  /\ UNCHANGED <<flag, queues, queue_flag, s_lock, ctxVars>>

\* Mutant: set_queued() that does not ask whether the gate is queued.
MutantSetQueued(c) ==
  /\ irq[c] = "set_queued"
  /\ queue_flag' = [queue_flag EXCEPT ![handler[c]] = TRUE]
  /\ HandlerGoesOn(c, "enqueue")
  /\ UNCHANGED <<isr, flag, queues, s_lock, ctxVars>>

\* set_queued() answers true.
SetQueued(c) ==
  /\ irq[c] = "set_queued"
  /\ ~queue_flag[handler[c]]
  /\ queue_flag' = [queue_flag EXCEPT ![handler[c]] = TRUE]
  /\ HandlerGoesOn(c, "enqueue")
  /\ UNCHANGED <<isr, flag, queues, s_lock, ctxVars>>

\* queues[c].enqueue(item), the second ackIRQ(), and the return.
Enqueue(c) ==
  /\ irq[c] = "enqueue"
  /\ queues' = [queues EXCEPT ![c] = Append(@, handler[c])]
  /\ EOI(c)
  /\ HandlerReturns(c)
  /\ UNCHANGED <<flag, queue_flag, s_lock, ctxVars>>

\* The CPU is on E0: relay() enables interrupts, to enter E1/2 itself.
RelayDirect(c) ==
  /\ irq[c] = "relay"
  /\ handler[c] \in NeedsEpilogue
  /\ ~flag[c]
  /\ EOI(c)
  /\ HandlerReturns(c)
  /\ stack' = [stack EXCEPT ![running[c]] = <<handler[c]>> \o @]
  /\ SetPC(running[c], "requested")
  /\ UNCHANGED <<flag, queues, queue_flag, s_lock, running, item>>

Handler(c) == \/ RelayNoEpilogue(c) \/ RelayDefer(c) \/ RelayDirect(c)
              \/ DropQueued(c) \/ SetQueued(c) \/ Enqueue(c)

-----------------------------------------------------------------------------
(* Guard::enter()                                                          *)

\* enter(), called from E0 by a system call or from relay(): the flag is set
\* with interrupts disabled, and interrupts are enabled again.
Enter(c) ==
  /\ AtLabel(c, "E0") \/ AtLabel(c, "requested")
  /\ flag' = [flag EXCEPT ![c] = TRUE]
  /\ SetInts(c, TRUE)
  /\ SetPC(running[c], "entered")
  /\ UNCHANGED <<queues, queue_flag, s_lock, irqVars, running, stack, item>>

\* s_lock.lock(): the ticket is drawn.
LockRequest(c) ==
  /\ AtLabel(c, "entered")
  /\ s_lock' = Append(s_lock, c)
  /\ SetPC(running[c], "spin")
  /\ UNCHANGED <<ints, flag, queues, queue_flag, irqVars, running, stack, item>>

\* Mutant: enter() that does not wait for the other CPUs.
MutantLockGrant(c) ==
  /\ AtLabel(c, "spin")
  /\ SetPC(running[c], "body")
  /\ UNCHANGED <<ints, flag, queues, queue_flag, s_lock, irqVars, running, stack, item>>

\* s_lock.lock(): it is the turn of c.
LockGrant(c) ==
  /\ AtLabel(c, "spin")
  /\ Head(s_lock) = c
  /\ SetPC(running[c], "body")
  /\ UNCHANGED <<ints, flag, queues, queue_flag, s_lock, irqVars, running, stack, item>>

-----------------------------------------------------------------------------
(* On E1/2: a system call, or an epilogue.  Dispatcher::active() leaves    *)
(* interrupts disabled, Dispatcher::setActive() enables them.              *)

\* The body goes on, or returns to its caller, which is about to leave().
Body(c) ==
  /\ AtLabel(c, "body")
  /\ \E b \in BOOLEAN : SetInts(c, b)
  /\ \/ UNCHANGED <<pc, item>>
     \/ /\ SetPC(running[c], "leave")
        /\ item' = [item EXCEPT ![running[c]] = NoGate]
  /\ UNCHANGED <<flag, queues, queue_flag, s_lock, irqVars, running, stack>>

\* toc_switch(): c goes on in leave(), on the stack of context y; the context that it
\* leaves will go on in leave() when it is switched to.
SwitchTo(c, y) ==
  /\ AtLabel(c, "body")
  /\ running' = [running EXCEPT ![c] = y]
  /\ SetPC(running[c], "leave")
  /\ item' = [item EXCEPT ![running[c]] = NoGate]
  /\ UNCHANGED <<ints, flag, queues, queue_flag, s_lock, irqVars, stack>>

\* The body may switch to a context that no CPU runs: it is up to the kernel not
\* to switch to another one (Kernel, ImplementsGuard).
Switch(c, y) == y \notin {running[d] : d \in CPU} /\ SwitchTo(c, y)

\* CPU::die(): the CPU halts with interrupts disabled, still on E1/2.
Die(c) ==
  /\ AtLabel(c, "body")
  /\ SetInts(c, FALSE)
  /\ SetPC(running[c], "dead")
  /\ UNCHANGED <<flag, queues, queue_flag, s_lock, irqVars, running, stack, item>>

-----------------------------------------------------------------------------
(* Guard::leave()                                                          *)

\* Interrupts are disabled and the next gate is taken from the queue.
Dequeue(c) ==
  /\ AtLabel(c, "leave")
  /\ queues[c] # << >>
  /\ SetInts(c, FALSE)
  /\ item' = [item EXCEPT ![running[c]] = Head(queues[c])]
  /\ queues' = [queues EXCEPT ![c] = Tail(@)]
  /\ SetPC(running[c], "dequeued")
  /\ UNCHANGED <<flag, queue_flag, s_lock, irqVars, running, stack>>

\* item->set_dequeued(); interrupts are enabled and the epilogue starts.
SetDequeued(c) ==
  /\ AtLabel(c, "dequeued")
  /\ queue_flag' = [queue_flag EXCEPT ![item[running[c]]] = FALSE]
  /\ SetInts(c, TRUE)
  /\ SetPC(running[c], "body")
  /\ UNCHANGED <<flag, queues, s_lock, irqVars, running, stack, item>>

\* The context returns from the handler whose relay() called leave(), if any,
\* to what it interrupted: another relay() before enter(), or E0.
AfterLeave(x) == IF Len(stack[x]) > 1 THEN "requested" ELSE "E0"

\* Mutant: leave() that clears the flag without a last look at the queue.
MutantLeave(c) ==
  /\ AtLabel(c, "leave")
  /\ flag' = [flag EXCEPT ![c] = FALSE]
  /\ s_lock' = Tail(s_lock)
  /\ SetInts(c, TRUE)
  /\ SetPC(running[c], AfterLeave(running[c]))
  /\ stack' = [stack EXCEPT ![running[c]] = IF @ = << >> THEN @ ELSE Tail(@)]
  /\ UNCHANGED <<queues, queue_flag, irqVars, running, item>>

\* Mutant: leave() that does not release s_lock.
MutantLeaveLocked(c) ==
  /\ AtLabel(c, "leave")
  /\ queues[c] = << >>
  /\ flag' = [flag EXCEPT ![c] = FALSE]
  /\ SetInts(c, TRUE)
  /\ SetPC(running[c], AfterLeave(running[c]))
  /\ stack' = [stack EXCEPT ![running[c]] = IF @ = << >> THEN @ ELSE Tail(@)]
  /\ UNCHANGED <<queues, queue_flag, s_lock, irqVars, running, item>>

\* The queue is empty: still with interrupts disabled the flag is cleared and
\* s_lock released, then interrupts are enabled.
Leave(c) ==
  /\ AtLabel(c, "leave")
  /\ queues[c] = << >>
  /\ flag' = [flag EXCEPT ![c] = FALSE]
  /\ s_lock' = Tail(s_lock)
  /\ SetInts(c, TRUE)
  /\ SetPC(running[c], AfterLeave(running[c]))
  /\ stack' = [stack EXCEPT ![running[c]] = IF @ = << >> THEN @ ELSE Tail(@)]
  /\ UNCHANGED <<queues, queue_flag, irqVars, running, item>>

-----------------------------------------------------------------------------
Step(c) == \/ \E g \in Gate : Interrupt(c, g)
           \/ Handler(c)
           \/ Enter(c) \/ LockRequest(c) \/ LockGrant(c)
           \/ Body(c) \/ (\E y \in Context : Switch(c, y)) \/ Die(c)
           \/ Dequeue(c) \/ SetDequeued(c) \/ Leave(c)

Next == \E c \in CPU : Step(c)

Spec == Init /\ [][Next]_vars

\* What the context on c does between interrupts, once it wants to enter E1/2.
Progress(c) == \/ pc[running[c]] # "E0" /\ Enter(c)
               \/ LockRequest(c) \/ LockGrant(c)
               \/ Body(c) /\ pc'[running[c]] = "leave"
               \/ Dequeue(c) \/ SetDequeued(c) \/ Leave(c)

(***************************************************************************)
(* A handler runs with interrupts disabled: it ends.  Interrupts take the  *)
(* CPU from its context again and again, but at least one instruction is   *)
(* executed between two of them (sti is followed by a nop), hence strong   *)
(* fairness of what the context does.  Bodies are finite; nothing is       *)
(* assumed of the applications on E0.                                      *)
(***************************************************************************)
FairSpec == /\ Spec
            /\ \A c \in CPU : WF_vars(Handler(c)) /\ SF_vars(Progress(c))

-----------------------------------------------------------------------------
KernelLabels == {"entered", "spin", "body", "leave", "dequeued", "dead"}
LockLabels   == KernelLabels \ {"entered"}
InsideLabels == LockLabels \ {"spin"}

OnKernelLevel(c) == pc[running[c]] \in KernelLabels
Inside(c)        == pc[running[c]] \in InsideLabels

InQueue(c, g)   == \E i \in DOMAIN queues[c] : queues[c][i] = g
Enqueuing(c, g) == irq[c] = "enqueue" /\ handler[c] = g
Clearing(c, g)  == pc[running[c]] = "dequeued" /\ item[running[c]] = g

\* Types of the variables (guard.h 69-73, gate.h 26-27, guard.cc).
TypeOK ==
  /\ ints \in [CPU -> BOOLEAN]
  /\ flag \in [CPU -> BOOLEAN]
  /\ queues \in [CPU -> Seq(NeedsEpilogue)]
  /\ queue_flag \in [Gate -> BOOLEAN]
  /\ s_lock \in Seq(CPU)
  /\ isr \in [CPU -> SUBSET Gate]
  /\ handler \in [CPU -> Gate \cup {NoGate}]
  /\ irq \in [CPU -> {"none", "relay", "set_queued", "enqueue"}]
  /\ running \in [CPU -> Context]
  /\ pc \in [Context -> KernelLabels \cup {"E0", "requested"}]
  /\ stack \in [Context -> Seq(NeedsEpilogue)]
  /\ item \in [Context -> NeedsEpilogue \cup {NoGate}]

\* The kernel is never executed by two CPUs at a time: epilogues and system
\* calls are serialised over all CPUs (guard.h 40-46).
EpilogueLevelExclusive == \A c, d \in CPU : Inside(c) /\ Inside(d) => c = d

\* No epilogue is left in the queue of a CPU that is back on E0, where nothing
\* would ever process it: the problem that guard.cc 90-93 wonders about.
NoStrandedEpilogue == \A c \in CPU : ~flag[c] => queues[c] = << >>

\* The flag that relay() consults says of each CPU whether the context that it
\* runs is on E1/2, although contexts move between CPUs while they are there.
FlagMatchesLevel == \A c \in CPU : flag[c] <=> OnKernelLevel(c)

\* A gate, which has one link and one flag for all CPUs, is in one place of one
\* queue at most (guard.h 48-54), and it is marked exactly while it is queued,
\* about to be queued, or dequeued and not yet unmarked.
GateQueuedOnce ==
  /\ \A c, d \in CPU : \A i \in DOMAIN queues[c], j \in DOMAIN queues[d] :
        queues[c][i] = queues[d][j] => c = d /\ i = j
  /\ \A g \in Gate : \A c, d \in CPU :
        /\ Enqueuing(c, g) => ~InQueue(d, g) /\ ~Clearing(d, g)
        /\ Clearing(c, g) => ~InQueue(d, g)
        /\ Enqueuing(c, g) /\ Enqueuing(d, g) => c = d
        /\ Clearing(c, g) /\ Clearing(d, g) => c = d
  /\ \A g \in Gate : queue_flag[g]
        <=> \E c \in CPU : InQueue(c, g) \/ Enqueuing(c, g) \/ Clearing(c, g)

\* An interrupt is acknowledged before interrupts are enabled again, and the
\* second EOI that relay() sends on its common path never retires another
\* interrupt (guard.cc 60, 85).
EOIMatches == \A c \in CPU : isr[c] = IF irq[c] = "relay" THEN {handler[c]} ELSE {}

\* No CPU has called CPU::die().
NobodyDies == [](\A x \in Context : pc[x] # "dead")

\* From some time on no device interrupts.
LoadEnds == <>[][\A c \in CPU, g \in Gate : ~Interrupt(c, g)]_vars

\* A gate in the queue of a CPU that is inside is processed, however many more
\* interrupts arrive (guard.cc 33-47).
EpilogueServed ==
  NobodyDies => \A c \in CPU, g \in NeedsEpilogue :
                   Inside(c) /\ InQueue(c, g) ~> ~InQueue(c, g)

\* A CPU that waits for E1/2 enters it, if the load of interrupts ends: else the
\* loop of leave() on another CPU may never end.
KernelEntered ==
  NobodyDies /\ LoadEnds => \A c \in CPU :
     pc[running[c]] \in {"requested", "entered", "spin"} ~> Inside(c)

\* What guard.h 38-46 and 104-110 say of the queues: a CPU has its own epilogue
\* queue, which takes the epilogues that it cannot run at once.  So a gate that
\* set_queued() finds marked should be in the queue of the same CPU.
DeferredOnThisCPU ==
  \A c \in CPU : irq[c] = "set_queued" /\ queue_flag[handler[c]]
                    => InQueue(c, handler[c])
=============================================================================

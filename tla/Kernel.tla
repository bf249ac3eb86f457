------------------------------- MODULE Kernel -------------------------------
(***************************************************************************)
(* The kernel of MPStuBS on several CPUs: scheduler, dispatcher, timer     *)
(* (Watch) and Assassin (thread/, device/watch.cc), running on the         *)
(* epilogue level of Guard, from the moment that main() registers the      *)
(* threads (main.cc 87-97) to the endless multiplexing of the CPUs.        *)
(*                                                                         *)
(* Everything here happens while its CPU is inside E1/2, so that a step    *)
(* can be large: it ends where interrupts of the same CPU may come between *)
(* (they are disabled from Dispatcher::active() to setActive()).           *)
(***************************************************************************)
EXTENDS Guard

CONSTANTS Thread,    \* the threads
          Order,     \* the threads as main() registers them
          BSP,       \* the CPU that boots the others
          NoThread,  \* the null pointer
          Calls,     \* the system calls that the threads make: <<name, argument>>
          watch, assassin, keyboard, panic   \* the gates

ASSUME KernelAssumption ==
  /\ Context = Thread \cup CPU
  /\ Thread \cap CPU = {}
  /\ BSP \in CPU
  /\ NoThread \notin Thread
  /\ Order \in Seq(Thread)
  /\ \A i, j \in DOMAIN Order : Order[i] = Order[j] => i = j
  /\ \A t \in Thread : \E i \in DOMAIN Order : Order[i] = t
  /\ Gate \subseteq {watch, assassin, keyboard, panic}
  /\ {watch, assassin, keyboard, panic} \cap
       {NoGate, "none", "ready", "schedule", "output", "exit", "resume", "kill"} = {}
  /\ NeedsEpilogue = Gate \ {panic}
  /\ Calls \subseteq ({"output", "exit", "resume"} \X {NoThread}) \cup ({"kill"} \X Thread)

VARIABLES
  unborn,     \* the threads that main() has still to register, in order
  jobs,       \* Scheduler::jobs: the ready list
  life,       \* Dispatcher::life[c]: the thread that c is said to execute
  kill_flag,  \* kill_flag[t]: thread t is to die
  call,       \* call[x]: the system call that x makes
  next,       \* next[c]: the thread that dispatch() or go() is switching to
  timer,      \* timer[c]: has c started its timer?
  ipi         \* ipi[c]: is an assassin IPI pending at c?

kernelVars == <<unborn, jobs, life, kill_flag, call, next, timer, ipi>>
allVars == <<vars, kernelVars>>

NoCall == <<"none", NoThread>>

\* Mutant: watch.activate() before the barrier (commented out in main.cc 125).
MutantKInit == /\ Init
               /\ ints = [c \in CPU |-> FALSE]
               /\ unborn = Order
               /\ jobs = << >>
               /\ life = [c \in CPU |-> NoThread]
               /\ kill_flag = [t \in Thread |-> FALSE]
               /\ call = [x \in Context |-> NoCall]
               /\ next = [c \in CPU |-> NoThread]
               /\ timer = [c \in CPU |-> TRUE]
               /\ ipi = [c \in CPU |-> FALSE]

KInit == /\ Init
         /\ ints = [c \in CPU |-> FALSE]
         /\ unborn = Order
         /\ jobs = << >>
         /\ life = [c \in CPU |-> NoThread]
         /\ kill_flag = [t \in Thread |-> FALSE]
         /\ call = [x \in Context |-> NoCall]
         /\ next = [c \in CPU |-> NoThread]
         /\ timer = [c \in CPU |-> FALSE]
         /\ ipi = [c \in CPU |-> FALSE]

\* What c executes on E1/2: an epilogue from the queue, the epilogue that
\* relay() runs directly, or the system call of its context.
Task(c) == LET x == running[c]
           IN  IF item[x] # NoGate THEN item[x]
               ELSE IF stack[x] # << >> THEN Head(stack[x])
               ELSE call[x][1]

\* The task of c is one of S and at its beginning.
Begins(c, S) == AtLabel(c, "body") /\ next[c] = NoThread /\ Task(c) \in S

\* The call, if x executes one, is over.  exit() never returns.
EndCall(x) == call' = IF item[x] = NoGate /\ stack[x] = << >> /\ call[x][1] # "exit"
                      THEN [call EXCEPT ![x] = NoCall] ELSE call

\* Mutant: a system call or an epilogue that does not call leave().
MutantTaskReturns(c, b) ==
  /\ SetInts(c, b)
  /\ SetPC(running[c], "E0")
  /\ item' = [item EXCEPT ![running[c]] = NoGate]
  /\ EndCall(running[c])
  /\ UNCHANGED <<flag, queues, queue_flag, s_lock, irqVars, running, stack>>

\* The task returns to leave(); b is then the state of the IF bit.
TaskReturns(c, b) == /\ SetInts(c, b)
                     /\ SetPC(running[c], "leave")
                     /\ item' = [item EXCEPT ![running[c]] = NoGate]
                     /\ EndCall(running[c])
                     /\ UNCHANGED <<flag, queues, queue_flag, s_lock, irqVars, running, stack>>

-----------------------------------------------------------------------------
(* Interrupts: the timer once it is started, the assassin when an IPI is   *)
(* pending, other devices at any time.                                     *)

KInterrupt(c, g) ==
  /\ Interrupt(c, g)
  /\ g = watch => timer[c]
  /\ g = assassin => ipi[c]
  /\ ipi' = IF g = assassin THEN [ipi EXCEPT ![c] = FALSE] ELSE ipi
  /\ UNCHANGED <<unborn, jobs, life, kill_flag, call, next, timer>>

-----------------------------------------------------------------------------
(* System calls: Secure and Guarded_Scheduler enter, call and leave.       *)

\* The call that a CPU makes in its boot code: main() registers the threads one
\* by one and boots the other CPUs; at the barrier all have arrived, and each
\* calls schedule().
BootCall(c) ==
  IF unborn # << >> THEN IF c = BSP THEN {<<"ready", Head(unborn)>>} ELSE {}
  ELSE {<<"schedule", NoThread>>}

NextCalls(x) == IF x \in CPU THEN BootCall(x) ELSE Calls

\* enter(), from E0 with a system call or from relay().
KEnter(c) ==
  /\ Enter(c)
  /\ LET x == running[c]
     IN  IF pc[x] = "E0" THEN \E op \in NextCalls(x) : call' = [call EXCEPT ![x] = op]
                         ELSE UNCHANGED call
  /\ UNCHANGED <<unborn, jobs, life, kill_flag, next, timer, ipi>>

\* Output of an application or of the keyboard: touches no state of the kernel.
Output(c) == /\ Begins(c, {"output", keyboard})
             /\ TaskReturns(c, ints[c])
             /\ UNCHANGED <<unborn, jobs, life, kill_flag, next, timer, ipi>>

\* Scheduler::ready()
Ready(c) == /\ Begins(c, {"ready"})
            /\ jobs' = Append(jobs, call[running[c]][2])
            /\ unborn' = Tail(unborn)
            /\ TaskReturns(c, ints[c])
            /\ UNCHANGED <<life, kill_flag, next, timer, ipi>>

\* The list without the first occurrence of t (Queue::remove()).
First(I) == CHOOSE i \in I : \A j \in I : i <= j

\* Mutant: remove() that does not link the predecessor to the successor.
MutantRemove(s, t) == LET at == {i \in DOMAIN s : s[i] = t}
                      IN  IF at = {} THEN s ELSE SubSeq(s, 1, First(at) - 1)

Remove(s, t) == LET at == {i \in DOMAIN s : s[i] = t}
                IN  IF at = {} THEN s
                    ELSE SubSeq(s, 1, First(at) - 1) \o SubSeq(s, First(at) + 1, Len(s))

\* Scheduler::kill(): the thread is marked; it is removed from the ready list,
\* or the CPU that executes it gets an IPI, if there is one.
Kill(c) ==
  LET that == call[running[c]][2]
  IN  /\ Begins(c, {"kill"})
      /\ kill_flag' = [kill_flag EXCEPT ![that] = TRUE]
      /\ jobs' = Remove(jobs, that)
      /\ ipi' = IF jobs' # jobs THEN ipi
                ELSE [d \in CPU |-> ipi[d] \/ life[d] = that]
      /\ TaskReturns(c, ints[c])
      /\ UNCHANGED <<unborn, life, next, timer>>

-----------------------------------------------------------------------------
(* Changing threads.                                                       *)

\* Mutant: setActive() that does not note the thread.
MutantSetActive(c, t) ==
  /\ next' = [next EXCEPT ![c] = t]
  /\ SetInts(c, TRUE)
  /\ UNCHANGED <<flag, queues, queue_flag, s_lock, irqVars, ctxVars, call, life>>

\* Dispatcher::setActive(t), which enables interrupts; then comes the switch.
SetActive(c, t) ==
  /\ life' = [life EXCEPT ![c] = t]
  /\ next' = [next EXCEPT ![c] = t]
  /\ SetInts(c, TRUE)
  /\ UNCHANGED <<flag, queues, queue_flag, s_lock, irqVars, ctxVars, call>>

\* CPU::die() on E1/2: there is no thread to run.
TaskDies(c) == Die(c) /\ UNCHANGED <<life, call, next>>

\* The ready list from its first thread that is not dying.
SkipDying(s) == LET alive == {i \in DOMAIN s : ~kill_flag[s[i]]}
                IN  IF alive = {} THEN << >> ELSE SubSeq(s, First(alive), Len(s))

\* Mutant: resume() that asks the wrong way round whether curr is dying.
MutantRequeue(curr) == IF kill_flag[curr] THEN Append(jobs, curr) ELSE jobs

\* Mutant: resume() that puts curr at the head of the ready list.
MutantRequeueFirst(curr) == IF kill_flag[curr] THEN jobs ELSE <<curr>> \o jobs

\* resume(): the active thread goes to the end of the ready list, unless it dies.
Requeue(curr) == IF kill_flag[curr] THEN jobs ELSE Append(jobs, curr)

\* Mutant: resume() that does not ask whether threads are dying.
MutantResume(c) ==
  /\ \/ Begins(c, {"resume", watch})
     \/ Begins(c, {assassin}) /\ kill_flag[life[c]]
  /\ jobs' = Tail(Append(jobs, life[c]))
  /\ SetActive(c, Head(Append(jobs, life[c])))
  /\ UNCHANGED <<unborn, kill_flag, timer, ipi>>

\* Scheduler::resume(), called by a thread, by the epilogue of the timer and, if
\* the active thread is dying, by that of the assassin: the active thread goes
\* to the end of the ready list unless it is dying, and the first thread that
\* is not dying is dispatched.  (ActiveKnown: the active thread is not null.)
Resume(c) ==
  LET curr  == life[c]
      ready == SkipDying(Requeue(curr))
  IN  /\ \/ Begins(c, {"resume", watch})
         \/ Begins(c, {assassin}) /\ kill_flag[curr]
      /\ \/ ready # << >> /\ jobs' = Tail(ready) /\ SetActive(c, Head(ready))
         \/ ready = << >> /\ jobs' = << >> /\ TaskDies(c)
      /\ UNCHANGED <<unborn, kill_flag, timer, ipi>>

\* Assassin::epilogue() finds that the active thread is not to die.  It leaves
\* interrupts disabled: Dispatcher::active() returns before it enables them.
Spare(c) == /\ Begins(c, {assassin})
            /\ ~kill_flag[life[c]]
            /\ TaskReturns(c, FALSE)
            /\ UNCHANGED <<unborn, jobs, life, kill_flag, next, timer, ipi>>

\* Mutant: exit() that leaves the dispatched thread in the ready list.
MutantExit(c) == /\ Begins(c, {"exit"})
                 /\ \/ jobs # << >> /\ SetActive(c, Head(jobs))
                    \/ jobs = << >> /\ TaskDies(c)
                 /\ UNCHANGED <<jobs, unborn, kill_flag, timer, ipi>>

\* Scheduler::exit() dispatches the first thread of the ready list.  It does not
\* ask whether there is one: it then switches to a null pointer, and what the
\* CPU does is undefined.  The model lets it halt.
Exit(c) == /\ Begins(c, {"exit"})
           /\ \/ jobs # << >> /\ jobs' = Tail(jobs) /\ SetActive(c, Head(jobs))
              \/ jobs = << >> /\ jobs' = << >> /\ TaskDies(c)
           /\ UNCHANGED <<unborn, kill_flag, timer, ipi>>

\* Mutant: schedule() that does not start the timer.
MutantSchedule(c) ==
  /\ Begins(c, {"schedule"})
  /\ \/ jobs # << >> /\ jobs' = Tail(jobs) /\ SetActive(c, Head(jobs))
     \/ jobs = << >> /\ TaskDies(c) /\ UNCHANGED jobs
  /\ UNCHANGED <<timer, unborn, kill_flag, ipi>>

\* Scheduler::schedule(): the first thread of a CPU, and its timer.
Schedule(c) ==
  /\ Begins(c, {"schedule"})
  /\ \/ /\ jobs # << >>
        /\ jobs' = Tail(jobs)
        /\ timer' = [timer EXCEPT ![c] = TRUE]
        /\ SetActive(c, Head(jobs))
     \/ /\ jobs = << >>
        /\ TaskDies(c)
        /\ UNCHANGED <<jobs, timer>>
  /\ UNCHANGED <<unborn, kill_flag, ipi>>

\* toc_switch(), or toc_go() from the boot code, which is not returned to.  A
\* thread that is switched to itself goes on.
SwitchToNext(c) ==
  /\ AtLabel(c, "body")
  /\ next[c] # NoThread
  /\ \/ /\ next[c] # running[c]
        /\ SwitchTo(c, next[c])
        /\ EndCall(running[c])
     \/ /\ next[c] = running[c]
        /\ TaskReturns(c, ints[c])
  /\ next' = [next EXCEPT ![c] = NoThread]
  /\ UNCHANGED <<unborn, jobs, life, kill_flag, timer, ipi>>

-----------------------------------------------------------------------------
\* The steps of Guard that do not concern the threads.
GuardStep(c) == /\ \/ Handler(c) \/ LockRequest(c) \/ LockGrant(c)
                   \/ Dequeue(c) \/ SetDequeued(c) \/ Leave(c)
                /\ UNCHANGED kernelVars

Work(c) == \/ KEnter(c) \/ GuardStep(c)
           \/ Output(c) \/ Ready(c) \/ Kill(c) \/ Resume(c) \/ Spare(c)
           \/ Exit(c) \/ Schedule(c) \/ SwitchToNext(c)

KNext == \E c \in CPU : (\E g \in Gate : KInterrupt(c, g)) \/ Work(c)

KSpec == KInit /\ [][KNext]_allVars

\* What c does between interrupts, once its context wants to enter E1/2; the boot
\* code comes to its next call by itself.
KProgress(c) == /\ irq[c] = "none"
                /\ pc[running[c]] # "E0" \/ running[c] \in CPU
                /\ Work(c)

\* The timer interrupts c when it is not on E1/2.
Tick(c) == ~flag[c] /\ KInterrupt(c, watch)

(***************************************************************************)
(* As in Guard, and in addition: the timer is periodic, and at some time   *)
(* finds its CPU on E0.  Nothing is assumed of the threads on E0.          *)
(***************************************************************************)
KFairSpec ==
  /\ KSpec
  /\ \A c \in CPU : /\ WF_allVars(irq[c] # "none" /\ GuardStep(c))
                    /\ SF_allVars(KProgress(c))
                    /\ SF_allVars(Tick(c))

-----------------------------------------------------------------------------
Running == {running[c] : c \in CPU}
ReadySet == {jobs[i] : i \in DOMAIN jobs}

\* Dispatcher::life says which thread a CPU executes; between setActive() and
\* the switch, which one it is going to.
LifeIsRunning ==
  \A c \in CPU : life[c] = IF next[c] # NoThread THEN next[c]
                           ELSE IF running[c] \in Thread THEN running[c]
                           ELSE NoThread

\* The epilogues of the timer and the assassin, and the system calls that change
\* threads, find an active thread: scheduler.cc 61-65 and assassin.cc 11-12 do
\* not meet the null pointer.
ActiveKnown ==
  \A c \in CPU : Begins(c, {watch, assassin, "resume", "exit"}) => life[c] # NoThread

\* A thread is in the ready list once at most, and not while a CPU executes it:
\* else two CPUs would run on one stack.  A CPU that requeues the thread whose
\* stack it is on holds s_lock until it has left that stack.
ReadyNotRunning ==
  /\ \A i, j \in DOMAIN jobs : jobs[i] = jobs[j] => i = j
  /\ \A c \in CPU : running[c] \in ReadySet => Inside(c) /\ next[c] # NoThread
  /\ \A c \in CPU : next[c] \notin ReadySet

\* Every thread that was registered, was not killed and did not exit is ready,
\* executed by a CPU, or about to be.
NoThreadLost ==
  \A t \in Thread : \/ kill_flag[t] \/ call[t][1] = "exit"
                    \/ \E i \in DOMAIN unborn : unborn[i] = t
                    \/ t \in ReadySet \cup Running
                    \/ \E c \in CPU : next[c] = t

\* A killed thread that no CPU executes is never executed again (scheduler.h
\* 80-87), and no CPU starts to execute a thread that another one executes.
NoSecondLife ==
  [][\A c \in CPU : running'[c] # running[c]
        => running'[c] \notin Running /\ ~kill_flag[running'[c]]]_allVars

\* The threads use the guard as it is specified: the kernel is an instance of
\* what Guard leaves open.
ImplementsGuard == Spec

\* Every CPU comes back to E0 again and again (no flood of interrupts).
NoFlood == \A c \in CPU : []<>(~flag[c])

\* The threads that somebody may kill.
Victim == {t \in Thread : <<"kill", t>> \in Calls}

\* A thread that is killed while a CPU executes it is switched out for good, even
\* if the IPI for it is dropped (see DeferredOnThisCPU): then the timer does it.
KilledStops ==
  NobodyDies /\ NoFlood => \A t \in Victim : kill_flag[t] ~> [](t \notin Running)

\* Every thread in the ready list is executed, if nobody kills it.
EveryThreadRuns ==
  NobodyDies /\ NoFlood => \A t \in Thread \ Victim : t \in ReadySet ~> t \in Running

\* CPU::die() concerns the CPU that executes it; the others go on (cpu.h 96-99):
\* if the load of interrupts ends, a CPU that waits for E1/2 enters it.
OthersContinue ==
  LoadEnds => \A c \in CPU : pc[running[c]] = "spin" ~> Inside(c)
=============================================================================

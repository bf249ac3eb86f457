-------------------------------- MODULE Boot --------------------------------
(***************************************************************************)
(* The start of the application processors (AP) by the boot processor 0:   *)
(* the loop of main(), APICSystem::bootCPU() and setupThisProcessor(), and *)
(* the barrier that main() and main_ap() end in.                           *)
(*                                                                         *)
(* The APs have one mailbox, callout_cpu_number, and one variable that     *)
(* names their stack, ap_stack.  bootCPU() gives up after a while, and an  *)
(* AP may still come later: waiting takes any time here, so that every     *)
(* time-out races with every answer.  The local APICs are not external     *)
(* ones, which need no STARTUP IPI.                                        *)
(***************************************************************************)
EXTENDS Integers, FiniteSets

CONSTANTS Count,       \* sys_conf->cpu_count: CPUs 0 .. Count - 1
          BarrierSize  \* the number that main.cc compares i with

ASSUME SizeAssumption == Count \in Nat \ {0} /\ BarrierSize \in Nat

CPU == 0..Count - 1
AP == CPU \ {0}

Nobody == -1    \* callout_cpu_number when nobody is called
NoId == 255     \* (unsigned char) Nobody
Free == -1      \* the lock of the barrier, when nobody holds it

VARIABLES callout,   \* callout_cpu_number
          ap_stack,  \* the CPU that the stack is for that an AP would take now
          online,    \* onlineCPUs
          sipi,      \* the APs with a STARTUP IPI that they have not accepted
          called,    \* the CPU that main() boots (its variable i), or the next one
          try,       \* bootCPU(): the variable j of the STARTUP loop
          answer,    \* answer[a]: what bootCPU(a) returned
          stack,     \* stack[c]: the CPU whose stack CPU c works on
          id,        \* id[c]: cpu_id of setupThisProcessor() on CPU c
          cpuID,     \* cpuID[c]: the entry for the local APIC of CPU c
          i,         \* main.cc: the CPUs that have arrived
          holder,    \* the CPU that holds ticketlock
          copy,      \* copy[c]: i, as CPU c has read it for i++
          pc         \* pc[c]: what CPU c is about to do

mailbox == <<callout, ap_stack>>
bsp == <<online, called, try, answer>>
names == <<stack, id, cpuID>>
barrier == <<i, holder, copy>>
vars == <<mailbox, sipi, bsp, names, barrier, pc>>

Goto(c, label) == pc' = [pc EXCEPT ![c] = label]

Init == /\ callout = Nobody   \* CPU 0 has answered its own call
        /\ ap_stack = 0
        /\ online = 1
        /\ sipi = {}
        /\ called = 1
        /\ try = 0
        /\ answer = [a \in AP |-> "none"]
        /\ stack = [c \in CPU |-> IF c = 0 THEN 0 ELSE NoId]
        /\ id = [c \in CPU |-> IF c = 0 THEN 0 ELSE NoId]
        /\ cpuID = [c \in CPU |-> 0]
        /\ i = 0
        /\ holder = Free
        /\ copy = [c \in CPU |-> 0]
        /\ pc = [c \in CPU |-> IF c = 0 THEN "boot" ELSE "off"]

-----------------------------------------------------------------------------
(* CPU 0 *)

\* The loop of main() goes on with the next CPU, or ends.
Answer(result) == /\ answer' = [answer EXCEPT ![called] = result]
                  /\ called' = called + 1
                  /\ Goto(0, "boot")

EndOfLoop == /\ pc[0] = "boot" /\ called = Count
             /\ Goto(0, "lock")
             /\ UNCHANGED <<mailbox, sipi, bsp, names, barrier>>

\* Mutant: the stack is not named.
MutantNameStack == /\ pc[0] = "boot" /\ called < Count
                   /\ Goto(0, "reset")
                   /\ UNCHANGED <<mailbox, sipi, bsp, names, barrier>>

\* bootCPU(called) names the stack.
NameStack == /\ pc[0] = "boot" /\ called < Count
             /\ ap_stack' = called
             /\ Goto(0, "reset")
             /\ UNCHANGED <<callout, sipi, bsp, names, barrier>>

\* The AP shall wait, and INIT makes it ready for a STARTUP IPI.
Reset == /\ pc[0] = "reset"
         /\ callout' = Nobody
         /\ try' = 0
         /\ Goto(0, "startup")
         /\ UNCHANGED <<ap_stack, online, called, answer, sipi, names, barrier>>

\* A STARTUP IPI; it has no effect on an AP that has started.
SendStartup == /\ pc[0] = "startup"
               /\ sipi' = IF pc[called] = "off" THEN sipi \union {called} ELSE sipi
               /\ Goto(0, "poll")
               /\ UNCHANGED <<mailbox, bsp, names, barrier>>

\* The IPI has been accepted: call the AP.
Delivered == /\ pc[0] = "poll" /\ called \notin sipi
             /\ callout' = called
             /\ Goto(0, "wait")
             /\ UNCHANGED <<ap_stack, sipi, bsp, names, barrier>>

\* Not within ten polls: a second IPI, or no success.
NotDelivered ==
  /\ pc[0] = "poll" /\ called \in sipi
  /\ \/ /\ try = 0
        /\ try' = 1
        /\ Goto(0, "startup")
        /\ UNCHANGED <<called, answer>>
     \/ /\ try = 1
        /\ Answer("false")
        /\ UNCHANGED try
  /\ UNCHANGED <<mailbox, sipi, online, names, barrier>>

\* Mutant: an AP is counted when it has been called.
MutantGotCallin == /\ pc[0] = "wait"
                   /\ online' = online + 1
                   /\ Answer("true")
                   /\ UNCHANGED <<mailbox, sipi, try, names, barrier>>

\* The mailbox is empty again.
GotCallin == /\ pc[0] = "wait" /\ callout = Nobody
             /\ online' = online + 1
             /\ Answer("true")
             /\ UNCHANGED <<mailbox, sipi, try, names, barrier>>

\* Not within 500 polls.  The call stays in the mailbox.
NoCallin == /\ pc[0] = "wait" /\ callout # Nobody
            /\ Answer("false")
            /\ UNCHANGED <<mailbox, sipi, online, try, names, barrier>>

Boot == \/ EndOfLoop \/ NameStack \/ Reset \/ SendStartup
        \/ Delivered \/ NotDelivered \/ GotCallin \/ NoCallin

-----------------------------------------------------------------------------
(* An application processor *)

\* The STARTUP IPI is accepted.
Accept(a) == /\ a \in sipi
             /\ sipi' = sipi \ {a}
             /\ Goto(a, "startup_ap")
             /\ UNCHANGED <<mailbox, bsp, names, barrier>>

\* mov esp, [ap_stack]; kernel_init() goes to setupThisProcessor().
TakeStack(a) == /\ pc[a] = "startup_ap"
                /\ stack' = [stack EXCEPT ![a] = ap_stack]
                /\ Goto(a, "callin")
                /\ UNCHANGED <<mailbox, sipi, bsp, id, cpuID, barrier>>

\* The loop that waits for a call ends.
SeeCall(a) == /\ pc[a] = "callin" /\ callout # Nobody
              /\ Goto(a, "number")
              /\ UNCHANGED <<mailbox, sipi, bsp, names, barrier>>

\* The number is read a second time.
ReadNumber(a) == /\ pc[a] = "number"
                 /\ id' = [id EXCEPT ![a] = IF callout = Nobody THEN NoId ELSE callout]
                 /\ Goto(a, "register")
                 /\ UNCHANGED <<mailbox, sipi, bsp, stack, cpuID, barrier>>

\* The local APIC is set up, and the number entered for it.  (Line 773 enters the
\* logical ID as well, 2 to the power of the number, which is left out.)
Register(a) == /\ pc[a] = "register"
               /\ cpuID' = [cpuID EXCEPT ![a] = id[a]]
               /\ Goto(a, "answer")
               /\ UNCHANGED <<mailbox, sipi, bsp, stack, id, barrier>>

\* The mailbox is emptied, and the CPU goes to main_ap().
EmptyMailbox(a) == /\ pc[a] = "answer"
                   /\ callout' = Nobody
                   /\ Goto(a, "lock")
                   /\ UNCHANGED <<ap_stack, sipi, bsp, names, barrier>>

CallIn(a) == \/ Accept(a) \/ TakeStack(a) \/ SeeCall(a)
             \/ ReadNumber(a) \/ Register(a) \/ EmptyMailbox(a)

-----------------------------------------------------------------------------
(* The barrier of main() and main_ap() *)

others == <<mailbox, sipi, bsp, names>>

\* Mutant: i++ without the lock.
MutantLock(c) == /\ pc[c] = "lock"
                 /\ Goto(c, "read")
                 /\ UNCHANGED <<others, barrier>>

Lock(c) == /\ pc[c] = "lock" /\ holder = Free
           /\ holder' = c
           /\ Goto(c, "read")
           /\ UNCHANGED <<others, i, copy>>

ReadCounter(c) == /\ pc[c] = "read"
                  /\ copy' = [copy EXCEPT ![c] = i]
                  /\ Goto(c, "write")
                  /\ UNCHANGED <<others, i, holder>>

WriteCounter(c) == /\ pc[c] = "write"
                   /\ i' = copy[c] + 1
                   /\ copy' = [copy EXCEPT ![c] = 0]
                   /\ Goto(c, "unlock")
                   /\ UNCHANGED <<others, holder>>

Unlock(c) == /\ pc[c] = "unlock"
             /\ holder' = Free
             /\ Goto(c, "wait_all")
             /\ UNCHANGED <<others, i, copy>>

\* Mutant: one too few.
MutantPass(c) == /\ pc[c] = "wait_all" /\ i >= BarrierSize - 1
                 /\ Goto(c, "schedule")
                 /\ UNCHANGED <<others, barrier>>

\* while (i != 4): everybody is here, and the CPU asks for its first thread.
Pass(c) == /\ pc[c] = "wait_all" /\ i = BarrierSize
           /\ Goto(c, "schedule")
           /\ UNCHANGED <<others, barrier>>

Meet(c) == \/ Lock(c) \/ ReadCounter(c) \/ WriteCounter(c) \/ Unlock(c) \/ Pass(c)

-----------------------------------------------------------------------------
Next == \/ Boot
        \/ \E a \in AP : CallIn(a)
        \/ \E c \in CPU : Meet(c)

Spec == Init /\ [][Next]_vars

\* Every CPU executes its code, and each takes the lock only once, so that it is
\* free for the others in the end.
FairSpec == /\ Spec
            /\ WF_vars(Boot)
            /\ \A a \in AP : WF_vars(CallIn(a))
            /\ \A c \in CPU : WF_vars(Meet(c))

-----------------------------------------------------------------------------
InMainAP == {"lock", "read", "write", "unlock", "wait_all", "schedule"}
InSetup == {"callin", "number", "register", "answer"}
InBoot == {"boot", "reset", "startup", "poll", "wait"}

\* Types of the variables (apicsystem.h 67-79, main.cc 54, startup.asm 67).
TypeOK == /\ callout \in CPU \union {Nobody}
          /\ ap_stack \in CPU
          /\ online \in 1..Count
          /\ sipi \subseteq AP
          /\ called \in 1..Count
          /\ try \in {0, 1}
          /\ answer \in [AP -> {"none", "true", "false"}]
          /\ stack \in [CPU -> CPU \union {NoId}]
          /\ id \in [CPU -> CPU \union {NoId}]
          /\ cpuID \in [CPU -> CPU \union {NoId}]
          /\ i \in 0..Count
          /\ holder \in CPU \union {Free}
          /\ copy \in [CPU -> 0..Count]
          /\ pc \in [CPU -> {"off", "startup_ap"} \union InBoot \union InSetup \union InMainAP]

NoFailure == \A a \in AP : answer[a] # "false"

\* As long as no call has failed, the APs start one after the other, and each has
\* the stack that was made for it and the number that it was called by, when it
\* runs: bootCPU() has not gone on before it has taken both (apicsystem.cc
\* 744-776, startup.asm 82).
OwnStackAndNumber ==
  NoFailure => \A a \in AP :
    /\ pc[a] \in InSetup \union InMainAP => stack[a] = a
    /\ pc[a] \in {"register", "answer"} \union InMainAP => id[a] = a
    /\ pc[a] \in {"answer"} \union InMainAP => cpuID[a] = a

\* As long as no call has failed, bootCPU() returns true for the CPUs that are in
\* main_ap(), and onlineCPUs is their number (apicsystem.h 110, 148-153).
OnlineAreUp ==
  NoFailure => /\ \A a \in AP : answer[a] = "true" => pc[a] \in InMainAP
               /\ online = Cardinality({a \in AP : answer[a] = "true"}) + 1

\* Nobody asks for a thread before all CPUs that the barrier is for are here,
\* late ones included, and so the threads are registered (main.cc 92-126,
\* 152-155).
BarrierHolds ==
  \A c \in CPU : pc[c] = "schedule" =>
    /\ pc[0] \notin InBoot
    /\ Cardinality({d \in CPU : pc[d] \in {"unlock", "wait_all", "schedule"}}) >= BarrierSize

\* If no call fails, and the barrier is made for the CPUs that there are, all of
\* them come to the scheduler (main.cc 105-126, 152-155).
AllSchedule == []NoFailure /\ BarrierSize = Count
                 => <>(\A c \in CPU : pc[c] = "schedule")
=============================================================================

---------------------------- MODULE KernelProofs ----------------------------
(***************************************************************************)
(* Safety of the guard for every set of CPUs, contexts and gates; and the  *)
(* kernel uses the guard as it is specified and executes no thread twice,  *)
(* for every set of CPUs and threads and every order of interrupts and     *)
(* system calls.                                                           *)
(***************************************************************************)
EXTENDS Kernel, SequenceTheorems, TLAPS

-----------------------------------------------------------------------------
(* What Append and Tail do to the elements of a sequence.                  *)

\* A sequence is a function on 1 .. Len.
LEMMA SeqDomain ==
  ASSUME NEW S, NEW s \in Seq(S)
  PROVE  /\ Len(s) \in Nat
         /\ DOMAIN s = 1 .. Len(s)
         /\ \A i \in DOMAIN s : s[i] \in S
OBVIOUS

\* Append keeps the elements and adds one at the end.
LEMMA AppendElements ==
  ASSUME NEW S, NEW s \in Seq(S), NEW e \in S
  PROVE  /\ Append(s, e) \in Seq(S)
         /\ DOMAIN Append(s, e) = DOMAIN s \cup {Len(s) + 1}
         /\ Len(s) + 1 \notin DOMAIN s
         /\ \A i \in DOMAIN s : Append(s, e)[i] = s[i]
         /\ Append(s, e)[Len(s) + 1] = e
         /\ DOMAIN s # {} => 1 \in DOMAIN s
OBVIOUS

\* Tail drops the first element and moves the others by one place.
LEMMA TailElements ==
  ASSUME NEW S, NEW s \in Seq(S), s # << >>
  PROVE  /\ Head(s) = s[1] /\ Head(s) \in S /\ 1 \in DOMAIN s
         /\ Tail(s) \in Seq(S)
         /\ \A i \in DOMAIN Tail(s) : i + 1 \in DOMAIN s /\ i + 1 # 1 /\ i \in Nat
                                      /\ Tail(s)[i] = s[i + 1]
         /\ \A i \in DOMAIN s \ {1} : i - 1 \in DOMAIN Tail(s) /\ i \in Nat
                                      /\ Tail(s)[i - 1] = s[i]
OBVIOUS

-----------------------------------------------------------------------------
(* The inductive invariant                                                 *)

\* A context runs on one CPU at most; the others are parked before leave().
Placement ==
  /\ \A c, d \in CPU : running[c] = running[d] => c = d
  /\ \A x \in Context : (\A c \in CPU : running[c] # x) => pc[x] = "leave"

\* s_lock holds the CPUs that requested it, once each, the one inside first.
LockQueue ==
  /\ \A i, j \in DOMAIN s_lock : s_lock[i] = s_lock[j] => i = j
  /\ \A c \in CPU : pc[running[c]] \in LockLabels
                       <=> \E i \in DOMAIN s_lock : s_lock[i] = c
  /\ \A c \in CPU : Inside(c) => 1 \in DOMAIN s_lock /\ s_lock[1] = c

\* Where interrupts are disabled, and what a handler knows.
HandlerState ==
  \A c \in CPU :
    /\ irq[c] # "none" => ~ints[c] /\ handler[c] \in Gate
    /\ irq[c] \in {"set_queued", "enqueue"} => flag[c] /\ handler[c] \in NeedsEpilogue
    /\ pc[running[c]] = "dequeued" => /\ irq[c] = "none"
                                      /\ ~ints[c]
                                      /\ item[running[c]] \in NeedsEpilogue

IInv == /\ TypeOK /\ Placement /\ FlagMatchesLevel /\ LockQueue /\ HandlerState
        /\ NoStrandedEpilogue /\ GateQueuedOnce /\ EOIMatches

LEMMA InitInvariant == Init => IInv
<1> SUFFICES ASSUME Init PROVE IInv
  OBVIOUS
<1> USE DEF Init
<1>1. TypeOK
  BY ContextAssumption, GateAssumption DEF TypeOK, StartLabel, KernelLabels
<1>2. Placement /\ FlagMatchesLevel
  BY ContextAssumption
  DEF Placement, FlagMatchesLevel, OnKernelLevel, StartLabel, KernelLabels
<1>3. LockQueue /\ HandlerState
  BY ContextAssumption
  DEF LockQueue, HandlerState, Inside, InsideLabels, StartLabel, LockLabels, KernelLabels
<1>4. NoStrandedEpilogue /\ GateQueuedOnce /\ EOIMatches
  BY ContextAssumption DEF NoStrandedEpilogue, GateQueuedOnce, EOIMatches, InQueue,
     Enqueuing, Clearing, StartLabel
<1> QED BY <1>1, <1>2, <1>3, <1>4 DEF IInv

-----------------------------------------------------------------------------
(* Frames: steps that leave alone what a part of the invariant is about    *)

\* A step that queues, dequeues and unmarks no gate.
LEMMA QueuedOnceFrame ==
  ASSUME GateQueuedOnce, queues' = queues, queue_flag' = queue_flag,
         \A c \in CPU : \/ irq'[c] = irq[c] /\ handler'[c] = handler[c]
                        \/ irq[c] # "enqueue" /\ irq'[c] # "enqueue",
         \A c \in CPU : \/ /\ pc'[running'[c]] = pc[running[c]]
                           /\ item'[running'[c]] = item[running[c]]
                        \/ /\ pc[running[c]] # "dequeued"
                           /\ pc'[running'[c]] # "dequeued"
  PROVE  GateQueuedOnce'
<1>1. \A c \in CPU, g \in Gate : InQueue(c, g)' <=> InQueue(c, g)
  BY DEF InQueue
<1>2. \A c \in CPU, g \in Gate : Enqueuing(c, g)' <=> Enqueuing(c, g)
  BY DEF Enqueuing
<1>3. \A c \in CPU, g \in Gate : Clearing(c, g)' <=> Clearing(c, g)
  BY DEF Clearing
<1> QED BY <1>1, <1>2, <1>3 DEF GateQueuedOnce

\* A step of the context that runs on c moves no other context.
LEMMA ContextStep ==
  ASSUME TypeOK, Placement, NEW c \in CPU, NEW l,
         pc' = [pc EXCEPT ![running[c]] = l], running' = running
  PROVE  /\ running[c] \in Context
         /\ pc'[running[c]] = l
         /\ \A d \in CPU \ {c} : pc'[running[d]] = pc[running[d]]
         /\ \A d \in CPU \ {c} : running[d] # running[c]
         /\ Placement'
BY DEF TypeOK, Placement

-----------------------------------------------------------------------------
(* Interrupt handlers                                                      *)

LEMMA InterruptInvariant ==
  ASSUME IInv, NEW c \in CPU, NEW g \in Gate, Interrupt(c, g)
  PROVE  IInv'
<1> USE DEF IInv, Interrupt, SetInts, ctxVars
<1>1. TypeOK'
  BY DEF TypeOK
<1>2. Placement' /\ FlagMatchesLevel' /\ LockQueue' /\ NoStrandedEpilogue'
  BY DEF Placement, FlagMatchesLevel, LockQueue, NoStrandedEpilogue, OnKernelLevel, Inside
<1>3. HandlerState'
  BY DEF TypeOK, HandlerState
<1>4. GateQueuedOnce'
  <2>1. \A d \in CPU : \/ irq'[d] = irq[d] /\ handler'[d] = handler[d]
                       \/ irq[d] # "enqueue" /\ irq'[d] # "enqueue"
    BY DEF TypeOK
  <2>2. \A d \in CPU : \/ /\ pc'[running'[d]] = pc[running[d]]
                          /\ item'[running'[d]] = item[running[d]]
                       \/ /\ pc[running[d]] # "dequeued"
                          /\ pc'[running'[d]] # "dequeued"
    OBVIOUS
  <2> QED BY <2>1, <2>2, QueuedOnceFrame
<1>5. EOIMatches'
  BY DEF TypeOK, EOIMatches
<1> QED BY <1>1, <1>2, <1>3, <1>4, <1>5

\* An EOI retires the one interrupt that is in service, or nothing.
LEMMA EOIRetires ==
  ASSUME TypeOK, EOIMatches, NEW c \in CPU, EOI(c)
  PROVE  isr' = [isr EXCEPT ![c] = {}]
<1>1. isr[c] = {} \/ \E g \in Gate : isr[c] = {g}
  BY DEF TypeOK, EOIMatches
<1>2. AfterEOI(isr[c]) = {}
  BY <1>1, GateAssumption DEF AfterEOI
<1> QED BY <1>2 DEF EOI

LEMMA RelayNoEpilogueInvariant ==
  ASSUME IInv, NEW c \in CPU, RelayNoEpilogue(c)
  PROVE  IInv'
<1> USE DEF IInv, RelayNoEpilogue, HandlerReturns, SetInts, ctxVars
<1>0. isr' = [isr EXCEPT ![c] = {}]
  BY EOIRetires
<1>1. TypeOK'
  BY <1>0 DEF TypeOK
<1>2. Placement' /\ FlagMatchesLevel' /\ LockQueue' /\ NoStrandedEpilogue'
  BY DEF Placement, FlagMatchesLevel, LockQueue, NoStrandedEpilogue, OnKernelLevel, Inside
<1>3. HandlerState'
  BY DEF TypeOK, HandlerState
<1>4. GateQueuedOnce'
  <2>1. \A d \in CPU : \/ irq'[d] = irq[d] /\ handler'[d] = handler[d]
                       \/ irq[d] # "enqueue" /\ irq'[d] # "enqueue"
    BY DEF TypeOK
  <2>2. \A d \in CPU : \/ /\ pc'[running'[d]] = pc[running[d]]
                          /\ item'[running'[d]] = item[running[d]]
                       \/ /\ pc[running[d]] # "dequeued"
                          /\ pc'[running'[d]] # "dequeued"
    OBVIOUS
  <2> QED BY <2>1, <2>2, QueuedOnceFrame
<1>5. EOIMatches'
  BY <1>0 DEF TypeOK, EOIMatches
<1> QED BY <1>1, <1>2, <1>3, <1>4, <1>5

LEMMA RelayDeferInvariant ==
  ASSUME IInv, NEW c \in CPU, RelayDefer(c)
  PROVE  IInv'
<1> USE DEF IInv, RelayDefer, HandlerGoesOn, ctxVars
<1>0. isr' = [isr EXCEPT ![c] = {}]
  BY EOIRetires
<1>1. TypeOK'
  BY <1>0 DEF TypeOK
<1>2. Placement' /\ FlagMatchesLevel' /\ LockQueue' /\ NoStrandedEpilogue'
  BY DEF Placement, FlagMatchesLevel, LockQueue, NoStrandedEpilogue, OnKernelLevel, Inside
<1>3. HandlerState'
  BY DEF TypeOK, HandlerState
<1>4. GateQueuedOnce'
  <2>1. \A d \in CPU : \/ irq'[d] = irq[d] /\ handler'[d] = handler[d]
                       \/ irq[d] # "enqueue" /\ irq'[d] # "enqueue"
    BY DEF TypeOK
  <2>2. \A d \in CPU : \/ /\ pc'[running'[d]] = pc[running[d]]
                          /\ item'[running'[d]] = item[running[d]]
                       \/ /\ pc[running[d]] # "dequeued"
                          /\ pc'[running'[d]] # "dequeued"
    OBVIOUS
  <2> QED BY <2>1, <2>2, QueuedOnceFrame
<1>5. EOIMatches'
  BY <1>0 DEF TypeOK, EOIMatches
<1> QED BY <1>1, <1>2, <1>3, <1>4, <1>5

LEMMA RelayDirectInvariant ==
  ASSUME IInv, NEW c \in CPU, RelayDirect(c)
  PROVE  IInv'
<1> USE DEF IInv, RelayDirect, HandlerReturns, SetInts, SetPC
<1>0. isr' = [isr EXCEPT ![c] = {}]
  BY EOIRetires
<1>1. TypeOK'
  BY <1>0 DEF TypeOK
<1>2. running[c] \in Context /\ pc[running[c]] \notin KernelLabels
  BY DEF TypeOK, FlagMatchesLevel, OnKernelLevel
<1>3. Placement' /\ FlagMatchesLevel' /\ NoStrandedEpilogue'
  BY <1>2 DEF TypeOK, Placement, FlagMatchesLevel, NoStrandedEpilogue, OnKernelLevel,
     KernelLabels
<1>4. LockQueue'
  BY <1>2 DEF TypeOK, Placement, LockQueue, Inside, InsideLabels, LockLabels, KernelLabels
<1>5. HandlerState'
  BY <1>2 DEF TypeOK, Placement, HandlerState
<1>6. GateQueuedOnce'
  <2>1. \A d \in CPU : \/ irq'[d] = irq[d] /\ handler'[d] = handler[d]
                       \/ irq[d] # "enqueue" /\ irq'[d] # "enqueue"
    BY DEF TypeOK
  <2>2. \A d \in CPU : \/ /\ pc'[running'[d]] = pc[running[d]]
                          /\ item'[running'[d]] = item[running[d]]
                       \/ /\ pc[running[d]] # "dequeued"
                          /\ pc'[running'[d]] # "dequeued"
    BY <1>2 DEF TypeOK, Placement, KernelLabels
  <2> QED BY <2>1, <2>2, QueuedOnceFrame
<1>7. EOIMatches'
  BY <1>0 DEF TypeOK, EOIMatches
<1> QED BY <1>1, <1>3, <1>4, <1>5, <1>6, <1>7

LEMMA DropQueuedInvariant ==
  ASSUME IInv, NEW c \in CPU, DropQueued(c)
  PROVE  IInv'
<1> USE DEF IInv, DropQueued, HandlerReturns, SetInts, ctxVars
<1>0. isr' = [isr EXCEPT ![c] = {}]
  BY EOIRetires
<1>1. TypeOK'
  BY <1>0 DEF TypeOK
<1>2. Placement' /\ FlagMatchesLevel' /\ LockQueue' /\ NoStrandedEpilogue'
  BY DEF Placement, FlagMatchesLevel, LockQueue, NoStrandedEpilogue, OnKernelLevel, Inside
<1>3. HandlerState'
  BY DEF TypeOK, HandlerState
<1>4. GateQueuedOnce'
  <2>1. \A d \in CPU : \/ irq'[d] = irq[d] /\ handler'[d] = handler[d]
                       \/ irq[d] # "enqueue" /\ irq'[d] # "enqueue"
    BY DEF TypeOK
  <2>2. \A d \in CPU : \/ /\ pc'[running'[d]] = pc[running[d]]
                          /\ item'[running'[d]] = item[running[d]]
                       \/ /\ pc[running[d]] # "dequeued"
                          /\ pc'[running'[d]] # "dequeued"
    OBVIOUS
  <2> QED BY <2>1, <2>2, QueuedOnceFrame
<1>5. EOIMatches'
  BY <1>0 DEF TypeOK, EOIMatches
<1> QED BY <1>1, <1>2, <1>3, <1>4, <1>5

\* The gate was in no queue, and nobody else is about to queue it.
LEMMA SetQueuedInvariant ==
  ASSUME IInv, NEW c \in CPU, SetQueued(c)
  PROVE  IInv'
<1> USE DEF IInv, SetQueued, HandlerGoesOn, ctxVars
<1>1. TypeOK'
  BY DEF TypeOK
<1>2. Placement' /\ FlagMatchesLevel' /\ LockQueue' /\ NoStrandedEpilogue'
  BY DEF Placement, FlagMatchesLevel, LockQueue, NoStrandedEpilogue, OnKernelLevel, Inside
<1>3. HandlerState'
  BY DEF TypeOK, HandlerState
<1>4. GateQueuedOnce'
  <2>1. handler[c] \in Gate
    BY DEF HandlerState
  <2>2. \A d \in CPU, g \in Gate : InQueue(d, g)' <=> InQueue(d, g)
    BY DEF InQueue
  <2>3. \A d \in CPU, g \in Gate : Clearing(d, g)' <=> Clearing(d, g)
    BY DEF Clearing
  <2>4. \A d \in CPU, g \in Gate :
           Enqueuing(d, g)' <=> Enqueuing(d, g) \/ (d = c /\ g = handler[c])
    BY DEF TypeOK, Enqueuing
  <2>5. \A d \in CPU : /\ ~InQueue(d, handler[c])
                       /\ ~Enqueuing(d, handler[c])
                       /\ ~Clearing(d, handler[c])
    BY <2>1 DEF GateQueuedOnce
  <2>6. \A g \in Gate : queue_flag'[g] <=> queue_flag[g] \/ g = handler[c]
    BY <2>1 DEF TypeOK
  <2>7. queues' = queues
    OBVIOUS
  <2> HIDE DEF SetQueued
  <2> QED BY <2>1, <2>2, <2>3, <2>4, <2>5, <2>6, <2>7 DEF GateQueuedOnce
<1>5. EOIMatches'
  BY DEF TypeOK, EOIMatches
<1> QED BY <1>1, <1>2, <1>3, <1>4, <1>5

\* The gate that was about to be queued is queued.
LEMMA EnqueueInvariant ==
  ASSUME IInv, NEW c \in CPU, Enqueue(c)
  PROVE  IInv'
<1> USE DEF IInv, Enqueue, HandlerReturns, SetInts, ctxVars
<1>0. isr' = [isr EXCEPT ![c] = {}]
  BY EOIRetires
<1>1. handler[c] \in NeedsEpilogue /\ queues[c] \in Seq(NeedsEpilogue) /\ flag[c]
  BY DEF TypeOK, HandlerState
<1>2. TypeOK'
  BY <1>0, <1>1, AppendElements DEF TypeOK
<1>3. Placement' /\ FlagMatchesLevel' /\ LockQueue'
  BY DEF Placement, FlagMatchesLevel, LockQueue, OnKernelLevel, Inside
<1>4. NoStrandedEpilogue'
  BY <1>1 DEF TypeOK, NoStrandedEpilogue
<1>5. HandlerState'
  BY DEF TypeOK, HandlerState
<1>6. GateQueuedOnce'
  <2>1. \A d \in CPU : queues'[d] = IF d = c THEN Append(queues[c], handler[c])
                                            ELSE queues[d]
    BY DEF TypeOK
  <2>2. \A d \in CPU, g \in Gate :
           InQueue(d, g)' <=> InQueue(d, g) \/ (d = c /\ g = handler[c])
    <3> SUFFICES ASSUME NEW d \in CPU, NEW g \in Gate
                 PROVE  InQueue(d, g)' <=> InQueue(d, g) \/ (d = c /\ g = handler[c])
      OBVIOUS
    <3>1. CASE d = c
      <4>1. queues'[c] = Append(queues[c], handler[c])
        BY <2>1
      <4>2. /\ DOMAIN queues'[c] = DOMAIN queues[c] \cup {Len(queues[c]) + 1}
            /\ Len(queues[c]) + 1 \notin DOMAIN queues[c]
            /\ \A i \in DOMAIN queues[c] : queues'[c][i] = queues[c][i]
            /\ queues'[c][Len(queues[c]) + 1] = handler[c]
        BY <1>1, <4>1, AppendElements
      <4> QED BY ONLY <3>1, <4>2 DEF InQueue
    <3>2. CASE d # c
      BY <2>1, <3>2 DEF InQueue
    <3> QED BY <3>1, <3>2
  <2>3. \A d \in CPU, g \in Gate : Clearing(d, g)' <=> Clearing(d, g)
    BY DEF Clearing
  <2>4. \A d \in CPU, g \in Gate : Enqueuing(d, g)' <=> Enqueuing(d, g) /\ d # c
    BY DEF TypeOK, Enqueuing
  <2>5. /\ handler[c] \in Gate /\ Enqueuing(c, handler[c])
        /\ \A g \in Gate : Enqueuing(c, g) => g = handler[c]
    BY <1>1, GateAssumption DEF Enqueuing
  <2>6. \A d \in CPU : \A i \in DOMAIN queues[d] : queues[d][i] # handler[c]
    BY <2>5 DEF GateQueuedOnce, InQueue
  <2>7. \A d, e \in CPU : \A i \in DOMAIN queues'[d], j \in DOMAIN queues'[e] :
           queues'[d][i] = queues'[e][j] => d = e /\ i = j
    BY <1>1, <2>1, <2>6, AppendElements DEF GateQueuedOnce
  <2>8. queue_flag' = queue_flag
    OBVIOUS
  <2> HIDE DEF Enqueue
  <2>9. \A g \in Gate : \A d, e \in CPU :
           /\ Enqueuing(d, g)' => ~InQueue(e, g)' /\ ~Clearing(e, g)'
           /\ Clearing(d, g)' => ~InQueue(e, g)'
           /\ Enqueuing(d, g)' /\ Enqueuing(e, g)' => d = e
           /\ Clearing(d, g)' /\ Clearing(e, g)' => d = e
    BY <2>2, <2>3, <2>4, <2>5 DEF GateQueuedOnce
  <2>10. \A g \in Gate : queue_flag'[g]
           <=> \E d \in CPU : InQueue(d, g)' \/ Enqueuing(d, g)' \/ Clearing(d, g)'
    <3>1. \A g \in Gate : queue_flag[g]
             <=> \E d \in CPU : InQueue(d, g) \/ Enqueuing(d, g) \/ Clearing(d, g)
      BY DEF GateQueuedOnce
    <3> QED BY ONLY <2>2, <2>3, <2>4, <2>5, <2>8, <3>1, c \in CPU
  <2> QED BY <2>7, <2>9, <2>10 DEF GateQueuedOnce
<1>7. EOIMatches'
  BY <1>0 DEF TypeOK, EOIMatches
<1> QED BY <1>2, <1>3, <1>4, <1>5, <1>6, <1>7

-----------------------------------------------------------------------------
(* Guard::enter()                                                          *)

LEMMA EnterInvariant ==
  ASSUME IInv, NEW c \in CPU, Enter(c)
  PROVE  IInv'
<1> USE DEF IInv, Enter, AtLabel, SetInts, SetPC, irqVars
<1>1. TypeOK'
  BY DEF TypeOK, KernelLabels
<1>2. /\ pc'[running[c]] = "entered"
      /\ \A d \in CPU \ {c} : pc'[running[d]] = pc[running[d]]
      /\ Placement'
  BY ContextStep
<1>3. FlagMatchesLevel' /\ NoStrandedEpilogue'
  BY <1>2 DEF TypeOK, FlagMatchesLevel, NoStrandedEpilogue, OnKernelLevel, KernelLabels
<1>4. LockQueue'
  BY <1>2 DEF LockQueue, Inside, InsideLabels, LockLabels, KernelLabels
<1>5. HandlerState'
  BY <1>2 DEF TypeOK, HandlerState
<1>6. GateQueuedOnce'
  <2>1. \A d \in CPU : \/ irq'[d] = irq[d] /\ handler'[d] = handler[d]
                       \/ irq[d] # "enqueue" /\ irq'[d] # "enqueue"
    OBVIOUS
  <2>2. \A d \in CPU : \/ /\ pc'[running'[d]] = pc[running[d]]
                          /\ item'[running'[d]] = item[running[d]]
                       \/ /\ pc[running[d]] # "dequeued"
                          /\ pc'[running'[d]] # "dequeued"
    BY <1>2
  <2> QED BY <2>1, <2>2, QueuedOnceFrame
<1>7. EOIMatches'
  BY DEF EOIMatches
<1> QED BY <1>1, <1>2, <1>3, <1>4, <1>5, <1>6, <1>7

\* A CPU that is not yet in s_lock is appended to it.
LEMMA LockRequestInvariant ==
  ASSUME IInv, NEW c \in CPU, LockRequest(c)
  PROVE  IInv'
<1> USE DEF IInv, LockRequest, AtLabel, SetPC, irqVars
<1>1. TypeOK'
  BY AppendElements DEF TypeOK, KernelLabels
<1>2. /\ pc'[running[c]] = "spin"
      /\ \A d \in CPU \ {c} : pc'[running[d]] = pc[running[d]]
      /\ Placement'
  BY ContextStep
<1>3. FlagMatchesLevel' /\ NoStrandedEpilogue'
  BY <1>2 DEF FlagMatchesLevel, NoStrandedEpilogue, OnKernelLevel, KernelLabels
<1>4. LockQueue'
  <2>1. /\ DOMAIN s_lock' = DOMAIN s_lock \cup {Len(s_lock) + 1}
        /\ Len(s_lock) + 1 \notin DOMAIN s_lock
        /\ \A i \in DOMAIN s_lock : s_lock'[i] = s_lock[i]
        /\ s_lock'[Len(s_lock) + 1] = c
    BY AppendElements DEF TypeOK
  <2>2. \A i \in DOMAIN s_lock : s_lock[i] # c
    BY DEF LockQueue, LockLabels, KernelLabels
  <2>3. \A i, j \in DOMAIN s_lock' : s_lock'[i] = s_lock'[j] => i = j
    BY <2>1, <2>2 DEF LockQueue
  <2>4. \A d \in CPU : pc'[running'[d]] \in LockLabels
                        <=> \E i \in DOMAIN s_lock' : s_lock'[i] = d
    <3> SUFFICES ASSUME NEW d \in CPU
                 PROVE  pc'[running'[d]] \in LockLabels
                           <=> \E i \in DOMAIN s_lock' : s_lock'[i] = d
      OBVIOUS
    <3>1. CASE d = c
      BY <1>2, <2>1, <3>1 DEF LockLabels, KernelLabels
    <3>2. CASE d # c
      BY <1>2, <2>1, <3>2 DEF LockQueue
    <3> QED BY <3>1, <3>2
  <2>5. \A d \in CPU : Inside(d)' => 1 \in DOMAIN s_lock' /\ s_lock'[1] = d
    BY <1>2, <2>1 DEF LockQueue, Inside, InsideLabels, LockLabels, KernelLabels
  <2> QED BY <2>3, <2>4, <2>5 DEF LockQueue
<1>5. HandlerState'
  BY <1>2 DEF HandlerState
<1>6. GateQueuedOnce'
  <2>1. \A d \in CPU : \/ irq'[d] = irq[d] /\ handler'[d] = handler[d]
                       \/ irq[d] # "enqueue" /\ irq'[d] # "enqueue"
    OBVIOUS
  <2>2. \A d \in CPU : \/ /\ pc'[running'[d]] = pc[running[d]]
                          /\ item'[running'[d]] = item[running[d]]
                       \/ /\ pc[running[d]] # "dequeued"
                          /\ pc'[running'[d]] # "dequeued"
    BY <1>2
  <2> QED BY <2>1, <2>2, QueuedOnceFrame
<1>7. EOIMatches'
  BY DEF EOIMatches
<1> QED BY <1>1, <1>2, <1>3, <1>4, <1>5, <1>6, <1>7

LEMMA LockGrantInvariant ==
  ASSUME IInv, NEW c \in CPU, LockGrant(c)
  PROVE  IInv'
<1> USE DEF IInv, LockGrant, AtLabel, SetPC, irqVars
<1>1. TypeOK'
  BY DEF TypeOK, KernelLabels
<1>2. /\ pc'[running[c]] = "body"
      /\ \A d \in CPU \ {c} : pc'[running[d]] = pc[running[d]]
      /\ Placement'
  BY ContextStep
<1>3. FlagMatchesLevel' /\ NoStrandedEpilogue'
  BY <1>2 DEF FlagMatchesLevel, NoStrandedEpilogue, OnKernelLevel, KernelLabels
<1>4. LockQueue'
  <2>1. 1 \in DOMAIN s_lock /\ s_lock[1] = c
    <3>1. \E i \in DOMAIN s_lock : s_lock[i] = c
      BY DEF LockQueue, LockLabels, KernelLabels
    <3>2. s_lock # << >> /\ s_lock \in Seq(CPU)
      BY <3>1 DEF TypeOK
    <3> QED BY <3>2, TailElements
  <2> QED BY <1>2, <2>1 DEF LockQueue, Inside, InsideLabels, LockLabels, KernelLabels
<1>5. HandlerState'
  BY <1>2 DEF HandlerState
<1>6. GateQueuedOnce'
  <2>1. \A d \in CPU : \/ irq'[d] = irq[d] /\ handler'[d] = handler[d]
                       \/ irq[d] # "enqueue" /\ irq'[d] # "enqueue"
    OBVIOUS
  <2>2. \A d \in CPU : \/ /\ pc'[running'[d]] = pc[running[d]]
                          /\ item'[running'[d]] = item[running[d]]
                       \/ /\ pc[running[d]] # "dequeued"
                          /\ pc'[running'[d]] # "dequeued"
    BY <1>2
  <2> QED BY <2>1, <2>2, QueuedOnceFrame
<1>7. EOIMatches'
  BY DEF EOIMatches
<1> QED BY <1>1, <1>2, <1>3, <1>4, <1>5, <1>6, <1>7

-----------------------------------------------------------------------------
(* On E1/2                                                                 *)

LEMMA BodyInvariant ==
  ASSUME IInv, NEW c \in CPU, Body(c)
  PROVE  IInv'
<1> USE DEF IInv, Body, AtLabel, SetPC, SetInts, irqVars
<1>1. TypeOK'
  <2>1. ints' \in [CPU -> BOOLEAN]
    BY DEF TypeOK
  <2>2. /\ pc' \in [Context -> KernelLabels \cup {"E0", "requested"}]
        /\ item' \in [Context -> NeedsEpilogue \cup {NoGate}]
    BY DEF TypeOK, KernelLabels
  <2> QED BY <2>1, <2>2 DEF TypeOK
<1>2. /\ pc'[running[c]] \in {"body", "leave"}
      /\ \A d \in CPU \ {c} : /\ pc'[running[d]] = pc[running[d]]
                             /\ item'[running[d]] = item[running[d]]
      /\ Placement'
  BY DEF TypeOK, Placement
<1>3. FlagMatchesLevel' /\ NoStrandedEpilogue'
  BY <1>2 DEF FlagMatchesLevel, NoStrandedEpilogue, OnKernelLevel, KernelLabels
<1>4. LockQueue'
  BY <1>2 DEF LockQueue, Inside, InsideLabels, LockLabels, KernelLabels
<1>5. HandlerState'
  BY <1>2 DEF TypeOK, HandlerState
<1>6. GateQueuedOnce'
  <2>1. \A d \in CPU : \/ irq'[d] = irq[d] /\ handler'[d] = handler[d]
                       \/ irq[d] # "enqueue" /\ irq'[d] # "enqueue"
    OBVIOUS
  <2>2. \A d \in CPU : \/ /\ pc'[running'[d]] = pc[running[d]]
                          /\ item'[running'[d]] = item[running[d]]
                       \/ /\ pc[running[d]] # "dequeued"
                          /\ pc'[running'[d]] # "dequeued"
    BY <1>2
  <2> QED BY <2>1, <2>2, QueuedOnceFrame
<1>7. EOIMatches'
  BY DEF EOIMatches
<1> QED BY <1>1, <1>2, <1>3, <1>4, <1>5, <1>6, <1>7

\* The context that c switches to is parked before leave(), as is then the one
\* that c switches from.
LEMMA SwitchInvariant ==
  ASSUME IInv, NEW c \in CPU, NEW y \in Context, Switch(c, y)
  PROVE  IInv'
<1> USE DEF IInv, Switch, SwitchTo, AtLabel, SetPC, irqVars
<1>1. TypeOK'
  BY DEF TypeOK, KernelLabels
<1>2. /\ pc'[running'[c]] = "leave"
      /\ \A d \in CPU \ {c} : /\ running'[d] = running[d]
                             /\ pc'[running[d]] = pc[running[d]]
                             /\ item'[running[d]] = item[running[d]]
  BY DEF TypeOK, Placement
<1>3. Placement'
  BY DEF TypeOK, Placement
<1>4. FlagMatchesLevel' /\ NoStrandedEpilogue'
  BY <1>2 DEF FlagMatchesLevel, NoStrandedEpilogue, OnKernelLevel, KernelLabels
<1>5. LockQueue'
  BY <1>2 DEF LockQueue, Inside, InsideLabels, LockLabels, KernelLabels
<1>6. HandlerState'
  BY <1>2 DEF TypeOK, HandlerState
<1>7. GateQueuedOnce'
  <2>1. \A d \in CPU : \/ irq'[d] = irq[d] /\ handler'[d] = handler[d]
                       \/ irq[d] # "enqueue" /\ irq'[d] # "enqueue"
    OBVIOUS
  <2>2. \A d \in CPU : \/ /\ pc'[running'[d]] = pc[running[d]]
                          /\ item'[running'[d]] = item[running[d]]
                       \/ /\ pc[running[d]] # "dequeued"
                          /\ pc'[running'[d]] # "dequeued"
    BY <1>2
  <2> QED BY <2>1, <2>2, QueuedOnceFrame
<1>8. EOIMatches'
  BY DEF EOIMatches
<1> QED BY <1>1, <1>3, <1>4, <1>5, <1>6, <1>7, <1>8

LEMMA DieInvariant ==
  ASSUME IInv, NEW c \in CPU, Die(c)
  PROVE  IInv'
<1> USE DEF IInv, Die, AtLabel, SetPC, SetInts, irqVars
<1>1. TypeOK'
  BY DEF TypeOK, KernelLabels
<1>2. /\ pc'[running[c]] = "dead"
      /\ \A d \in CPU \ {c} : pc'[running[d]] = pc[running[d]]
      /\ Placement'
  BY ContextStep
<1>3. FlagMatchesLevel' /\ NoStrandedEpilogue'
  BY <1>2 DEF FlagMatchesLevel, NoStrandedEpilogue, OnKernelLevel, KernelLabels
<1>4. LockQueue'
  BY <1>2 DEF LockQueue, Inside, InsideLabels, LockLabels, KernelLabels
<1>5. HandlerState'
  BY <1>2 DEF TypeOK, HandlerState
<1>6. GateQueuedOnce'
  <2>1. \A d \in CPU : \/ irq'[d] = irq[d] /\ handler'[d] = handler[d]
                       \/ irq[d] # "enqueue" /\ irq'[d] # "enqueue"
    OBVIOUS
  <2>2. \A d \in CPU : \/ /\ pc'[running'[d]] = pc[running[d]]
                          /\ item'[running'[d]] = item[running[d]]
                       \/ /\ pc[running[d]] # "dequeued"
                          /\ pc'[running'[d]] # "dequeued"
    BY <1>2
  <2> QED BY <2>1, <2>2, QueuedOnceFrame
<1>7. EOIMatches'
  BY DEF EOIMatches
<1> QED BY <1>1, <1>2, <1>3, <1>4, <1>5, <1>6, <1>7

-----------------------------------------------------------------------------
(* Guard::leave()                                                          *)

\* The gate moves from the queue to the local variable.
LEMMA DequeueInvariant ==
  ASSUME IInv, NEW c \in CPU, Dequeue(c)
  PROVE  IInv'
<1> USE DEF IInv, Dequeue, AtLabel, SetPC, SetInts, irqVars
<1> DEFINE q == queues[c]
<1>1. /\ q \in Seq(NeedsEpilogue) /\ q # << >>
      /\ Head(q) = q[1] /\ Head(q) \in NeedsEpilogue /\ 1 \in DOMAIN q
      /\ Tail(q) \in Seq(NeedsEpilogue)
  BY TailElements DEF TypeOK
<1>2. TypeOK'
  BY <1>1 DEF TypeOK, KernelLabels
<1>3. /\ running[c] \in Context
      /\ pc'[running[c]] = "dequeued"
      /\ \A d \in CPU \ {c} : /\ pc'[running[d]] = pc[running[d]]
                             /\ running[d] # running[c]
      /\ Placement'
  BY ContextStep
<1>4. /\ item'[running[c]] = Head(q)
      /\ \A d \in CPU \ {c} : item'[running[d]] = item[running[d]]
  BY <1>3 DEF TypeOK
<1>5. FlagMatchesLevel'
  BY <1>3 DEF FlagMatchesLevel, OnKernelLevel, KernelLabels
<1>6. NoStrandedEpilogue'
  BY DEF TypeOK, NoStrandedEpilogue, FlagMatchesLevel, OnKernelLevel, KernelLabels
<1>7. LockQueue'
  BY <1>3 DEF LockQueue, Inside, InsideLabels, LockLabels, KernelLabels
<1>8. HandlerState'
  BY <1>1, <1>3, <1>4 DEF TypeOK, HandlerState
<1>9. GateQueuedOnce'
  <2>1. /\ queues'[c] = Tail(q)
        /\ \A d \in CPU \ {c} : queues'[d] = queues[d]
    BY DEF TypeOK
  <2>2. /\ \A i \in DOMAIN queues'[c] :
              i + 1 \in DOMAIN q /\ i + 1 # 1 /\ i \in Nat /\ queues'[c][i] = q[i + 1]
        /\ \A i \in DOMAIN q \ {1} :
              i - 1 \in DOMAIN queues'[c] /\ i \in Nat /\ queues'[c][i - 1] = q[i]
    <3>1. /\ \A i \in DOMAIN Tail(q) :
                i + 1 \in DOMAIN q /\ i + 1 # 1 /\ i \in Nat /\ Tail(q)[i] = q[i + 1]
          /\ \A i \in DOMAIN q \ {1} :
                i - 1 \in DOMAIN Tail(q) /\ i \in Nat /\ Tail(q)[i - 1] = q[i]
      BY ONLY <1>1, TailElements
    <3> QED BY ONLY <2>1, <3>1
  <2>3. Head(q) \in Gate /\ InQueue(c, Head(q)) /\ q[1] = Head(q)
    BY <1>1, GateAssumption DEF InQueue
  <2>4. \A d \in CPU, g \in Gate :
           InQueue(d, g)' <=> InQueue(d, g) /\ g # Head(q)
    <3> SUFFICES ASSUME NEW d \in CPU, NEW g \in Gate
                 PROVE  InQueue(d, g)' <=> InQueue(d, g) /\ g # Head(q)
      OBVIOUS
    <3>1. CASE d = c
      <4>1. \A i \in DOMAIN q : q[i] = Head(q) => i = 1
        BY <1>1 DEF GateQueuedOnce
      <4>2. ASSUME InQueue(c, g)' PROVE InQueue(c, g) /\ g # Head(q)
        <5>1. PICK i \in DOMAIN queues'[c] : queues'[c][i] = g
          BY <4>2 DEF InQueue
        <5>2. i + 1 \in DOMAIN q /\ i + 1 # 1 /\ q[i + 1] = g
          BY ONLY <2>2, <5>1
        <5>3. g # Head(q)
          BY ONLY <4>1, <5>2
        <5> QED BY <5>2, <5>3 DEF InQueue
      <4>3. ASSUME InQueue(c, g), g # Head(q) PROVE InQueue(c, g)'
        <5>1. PICK i \in DOMAIN q : q[i] = g
          BY <4>3 DEF InQueue
        <5>2. i - 1 \in DOMAIN queues'[c] /\ queues'[c][i - 1] = g
          BY <1>1, <2>2, <4>3, <5>1
        <5> QED BY <5>2 DEF InQueue
      <4> QED BY <3>1, <4>2, <4>3
    <3>2. CASE d # c
      <4>1. \A i \in DOMAIN queues[d] : queues[d][i] # Head(q)
        BY <1>1, <3>2 DEF GateQueuedOnce
      <4> QED BY <2>1, <3>2, <4>1 DEF InQueue
    <3> QED BY <3>1, <3>2
  <2>5. \A d \in CPU, g \in Gate : Enqueuing(d, g)' <=> Enqueuing(d, g)
    BY DEF Enqueuing
  <2>6. \A d \in CPU, g \in Gate :
           Clearing(d, g)' <=> Clearing(d, g) \/ (d = c /\ g = Head(q))
    BY <1>3, <1>4 DEF Clearing
  <2>7. \A d \in CPU : ~Enqueuing(d, Head(q)) /\ ~Clearing(d, Head(q))
    BY <2>3 DEF GateQueuedOnce
  <2>8. queue_flag' = queue_flag /\ queues[c] = q
    OBVIOUS
  <2>9. \A d, e \in CPU : \A i \in DOMAIN queues'[d], j \in DOMAIN queues'[e] :
           queues'[d][i] = queues'[e][j] => d = e /\ i = j
    <3> SUFFICES ASSUME NEW d \in CPU, NEW e \in CPU, NEW i \in DOMAIN queues'[d],
                        NEW j \in DOMAIN queues'[e], queues'[d][i] = queues'[e][j]
                 PROVE  d = e /\ i = j
      OBVIOUS
    <3>1. CASE d = c /\ e = c
      BY <2>2, <3>1 DEF GateQueuedOnce
    <3>2. CASE d = c /\ e # c
      BY <2>1, <2>2, <3>2 DEF GateQueuedOnce
    <3>3. CASE d # c /\ e = c
      BY <2>1, <2>2, <3>3 DEF GateQueuedOnce
    <3>4. CASE d # c /\ e # c
      BY <2>1, <3>4 DEF GateQueuedOnce
    <3> QED BY <3>1, <3>2, <3>3, <3>4
  <2> HIDE DEF Dequeue, q
  <2>10. \A g \in Gate : \A d, e \in CPU :
           /\ Enqueuing(d, g)' => ~InQueue(e, g)' /\ ~Clearing(e, g)'
           /\ Clearing(d, g)' => ~InQueue(e, g)'
           /\ Enqueuing(d, g)' /\ Enqueuing(e, g)' => d = e
           /\ Clearing(d, g)' /\ Clearing(e, g)' => d = e
    BY <2>3, <2>4, <2>5, <2>6, <2>7 DEF GateQueuedOnce
  <2>11. \A g \in Gate : queue_flag'[g]
           <=> \E d \in CPU : InQueue(d, g)' \/ Enqueuing(d, g)' \/ Clearing(d, g)'
    <3>1. \A g \in Gate : queue_flag[g]
             <=> \E d \in CPU : InQueue(d, g) \/ Enqueuing(d, g) \/ Clearing(d, g)
      BY DEF GateQueuedOnce
    <3> QED BY ONLY <2>3, <2>4, <2>5, <2>6, <2>8, <3>1, c \in CPU
  <2> QED BY <2>9, <2>10, <2>11 DEF GateQueuedOnce
<1>10. EOIMatches'
  BY DEF EOIMatches
<1> QED BY <1>2, <1>3, <1>5, <1>6, <1>7, <1>8, <1>9, <1>10

\* The gate that is in no queue any more is unmarked.
LEMMA SetDequeuedInvariant ==
  ASSUME IInv, NEW c \in CPU, SetDequeued(c)
  PROVE  IInv'
<1> USE DEF IInv, SetDequeued, AtLabel, SetPC, SetInts, irqVars
<1>1. TypeOK'
  BY DEF TypeOK, KernelLabels
<1>2. /\ running[c] \in Context
      /\ pc'[running[c]] = "body"
      /\ \A d \in CPU \ {c} : pc'[running[d]] = pc[running[d]]
      /\ Placement'
  BY ContextStep
<1>3. FlagMatchesLevel' /\ NoStrandedEpilogue'
  BY <1>2 DEF FlagMatchesLevel, NoStrandedEpilogue, OnKernelLevel, KernelLabels
<1>4. LockQueue'
  BY <1>2 DEF LockQueue, Inside, InsideLabels, LockLabels, KernelLabels
<1>5. HandlerState'
  BY <1>2 DEF TypeOK, HandlerState
<1>6. GateQueuedOnce'
  <2> DEFINE h == item[running[c]]
  <2>1. /\ h \in Gate /\ Clearing(c, h)
        /\ \A g \in Gate : Clearing(c, g) => g = h
    BY GateAssumption DEF HandlerState, Clearing
  <2>2. \A d \in CPU, g \in Gate : InQueue(d, g)' <=> InQueue(d, g)
    BY DEF InQueue
  <2>3. \A d \in CPU, g \in Gate : Enqueuing(d, g)' <=> Enqueuing(d, g)
    BY DEF Enqueuing
  <2>4. \A d \in CPU, g \in Gate : Clearing(d, g)' <=> Clearing(d, g) /\ d # c
    BY <1>2 DEF Clearing
  <2>5. \A g \in Gate : queue_flag'[g] <=> queue_flag[g] /\ g # h
    BY <2>1 DEF TypeOK
  <2>6. queues' = queues
    OBVIOUS
  <2> HIDE DEF SetDequeued, h
  <2>7. \A g \in Gate : \A d, e \in CPU :
           /\ Enqueuing(d, g)' => ~InQueue(e, g)' /\ ~Clearing(e, g)'
           /\ Clearing(d, g)' => ~InQueue(e, g)'
           /\ Enqueuing(d, g)' /\ Enqueuing(e, g)' => d = e
           /\ Clearing(d, g)' /\ Clearing(e, g)' => d = e
    BY <2>2, <2>3, <2>4 DEF GateQueuedOnce
  <2>8. \A d \in CPU : ~InQueue(d, h) /\ ~Enqueuing(d, h) /\ (Clearing(d, h) => d = c)
    BY <2>1 DEF GateQueuedOnce
  <2>9. \A g \in Gate : queue_flag'[g]
           <=> \E d \in CPU : InQueue(d, g)' \/ Enqueuing(d, g)' \/ Clearing(d, g)'
    <3>1. \A g \in Gate : queue_flag[g]
             <=> \E d \in CPU : InQueue(d, g) \/ Enqueuing(d, g) \/ Clearing(d, g)
      BY DEF GateQueuedOnce
    <3> QED BY ONLY <2>1, <2>2, <2>3, <2>4, <2>5, <2>8, <3>1, c \in CPU
  <2>10. \A d, e \in CPU : \A i \in DOMAIN queues'[d], j \in DOMAIN queues'[e] :
            queues'[d][i] = queues'[e][j] => d = e /\ i = j
    BY <2>6 DEF GateQueuedOnce
  <2> QED BY <2>7, <2>9, <2>10 DEF GateQueuedOnce
<1>7. EOIMatches'
  BY DEF EOIMatches
<1> QED BY <1>1, <1>2, <1>3, <1>4, <1>5, <1>6, <1>7

\* The CPU inside is the first in s_lock, and goes; its queue is empty.
LEMMA LeaveInvariant ==
  ASSUME IInv, NEW c \in CPU, Leave(c)
  PROVE  IInv'
<1> USE DEF IInv, Leave, AtLabel, SetPC, SetInts, irqVars
<1>1. /\ s_lock \in Seq(CPU) /\ s_lock # << >>
      /\ s_lock[1] = c
  <2>1. Inside(c)
    BY DEF Inside, InsideLabels, LockLabels, KernelLabels
  <2>2. s_lock \in Seq(CPU) /\ 1 \in DOMAIN s_lock /\ s_lock[1] = c
    BY <2>1 DEF TypeOK, LockQueue
  <2> QED BY <2>2
<1>2. AfterLeave(running[c]) \in {"E0", "requested"}
  BY DEF AfterLeave
<1>3. TypeOK'
  <2>1. stack' \in [Context -> Seq(NeedsEpilogue)]
    BY TailElements DEF TypeOK
  <2>2. s_lock' \in Seq(CPU)
    BY <1>1, TailElements
  <2> QED BY <1>2, <2>1, <2>2 DEF TypeOK, KernelLabels
<1>4. /\ running[c] \in Context
      /\ pc'[running[c]] \notin KernelLabels
      /\ \A d \in CPU \ {c} : pc'[running[d]] = pc[running[d]]
      /\ Placement'
  BY <1>2, ContextStep DEF KernelLabels
<1>5. FlagMatchesLevel' /\ NoStrandedEpilogue'
  BY <1>4 DEF TypeOK, FlagMatchesLevel, NoStrandedEpilogue, OnKernelLevel
<1>6. LockQueue'
  <2>1. /\ \A i \in DOMAIN s_lock' :
              i + 1 \in DOMAIN s_lock /\ i + 1 # 1 /\ i \in Nat /\ s_lock'[i] = s_lock[i + 1]
        /\ \A i \in DOMAIN s_lock \ {1} :
              i - 1 \in DOMAIN s_lock' /\ i \in Nat /\ s_lock'[i - 1] = s_lock[i]
        /\ 1 \in DOMAIN s_lock
    BY <1>1, TailElements
  <2>2. \A i, j \in DOMAIN s_lock' : s_lock'[i] = s_lock'[j] => i = j
    BY <2>1 DEF LockQueue
  <2>3. \A d \in CPU : pc'[running'[d]] \in LockLabels
                        <=> \E i \in DOMAIN s_lock' : s_lock'[i] = d
    <3> SUFFICES ASSUME NEW d \in CPU
                 PROVE  pc'[running'[d]] \in LockLabels
                           <=> \E i \in DOMAIN s_lock' : s_lock'[i] = d
      OBVIOUS
    <3>1. CASE d = c
      <4>1. \A i \in DOMAIN s_lock' : s_lock'[i] # c
        BY <1>1, <2>1 DEF LockQueue
      <4> QED BY <1>4, <3>1, <4>1 DEF LockLabels
    <3>2. CASE d # c
      <4>1. (\E i \in DOMAIN s_lock : s_lock[i] = d)
               <=> \E i \in DOMAIN s_lock' : s_lock'[i] = d
        BY ONLY <1>1, <2>1, <3>2
      <4> QED BY <1>4, <3>2, <4>1 DEF LockQueue
    <3> QED BY <3>1, <3>2
  <2>4. \A d \in CPU : ~Inside(d)'
    BY <1>1, <1>4 DEF LockQueue, Inside, InsideLabels, LockLabels
  <2> QED BY <2>2, <2>3, <2>4 DEF LockQueue
<1>7. HandlerState'
  BY <1>4 DEF TypeOK, HandlerState, KernelLabels
<1>8. GateQueuedOnce'
  <2>1. \A d \in CPU : \/ irq'[d] = irq[d] /\ handler'[d] = handler[d]
                       \/ irq[d] # "enqueue" /\ irq'[d] # "enqueue"
    OBVIOUS
  <2>2. \A d \in CPU : \/ /\ pc'[running'[d]] = pc[running[d]]
                          /\ item'[running'[d]] = item[running[d]]
                       \/ /\ pc[running[d]] # "dequeued"
                          /\ pc'[running'[d]] # "dequeued"
    BY <1>4 DEF KernelLabels
  <2> QED BY <2>1, <2>2, QueuedOnceFrame
<1>9. EOIMatches'
  BY DEF EOIMatches
<1> QED BY <1>3, <1>4, <1>5, <1>6, <1>7, <1>8, <1>9

-----------------------------------------------------------------------------
LEMMA NextInvariant == IInv /\ [Next]_vars => IInv'
<1> SUFFICES ASSUME IInv, [Next]_vars PROVE IInv'
  OBVIOUS
<1>1. ASSUME NEW c \in CPU, \E g \in Gate : Interrupt(c, g) PROVE IInv'
  BY <1>1, InterruptInvariant
<1>2. ASSUME NEW c \in CPU, Handler(c) PROVE IInv'
  BY <1>2, RelayNoEpilogueInvariant, RelayDeferInvariant, RelayDirectInvariant,
     DropQueuedInvariant, SetQueuedInvariant, EnqueueInvariant DEF Handler
<1>3. ASSUME NEW c \in CPU, Enter(c) \/ LockRequest(c) \/ LockGrant(c) PROVE IInv'
  BY <1>3, EnterInvariant, LockRequestInvariant, LockGrantInvariant
<1>4. ASSUME NEW c \in CPU, Body(c) \/ (\E y \in Context : Switch(c, y)) \/ Die(c)
      PROVE  IInv'
  BY <1>4, BodyInvariant, SwitchInvariant, DieInvariant
<1>5. ASSUME NEW c \in CPU, Dequeue(c) \/ SetDequeued(c) \/ Leave(c) PROVE IInv'
  BY <1>5, DequeueInvariant, SetDequeuedInvariant, LeaveInvariant
<1>6. CASE UNCHANGED vars
  BY <1>6 DEF vars, irqVars, ctxVars, IInv, TypeOK, Placement, FlagMatchesLevel,
     LockQueue, HandlerState, NoStrandedEpilogue, GateQueuedOnce, EOIMatches,
     OnKernelLevel, Inside, InQueue, Enqueuing, Clearing
<1> QED BY <1>1, <1>2, <1>3, <1>4, <1>5, <1>6 DEF Next, Step

\* The inductive invariant holds throughout.
THEOREM GuardInvariant == Spec => []IInv
<1> QED BY InitInvariant, NextInvariant, PTL DEF Spec

\* The variables keep their types.
THEOREM GuardTypes == Spec => []TypeOK
<1>1. IInv => TypeOK
  BY DEF IInv
<1> QED BY <1>1, GuardInvariant, PTL

\* Two CPUs are never on the inner side of s_lock together, however interrupts,
\* epilogues and context switches interleave (guard.h 40-46).
THEOREM KernelExclusive == Spec => []EpilogueLevelExclusive
<1>1. IInv => EpilogueLevelExclusive
  BY DEF IInv, LockQueue, EpilogueLevelExclusive
<1> QED BY <1>1, GuardInvariant, PTL

\* No epilogue stays behind in the queue of a CPU that is back on E0: what
\* guard.cc 90-93 suspects cannot happen.
THEOREM EpiloguesNotStranded == Spec => []NoStrandedEpilogue
<1>1. IInv => NoStrandedEpilogue
  BY DEF IInv
<1> QED BY <1>1, GuardInvariant, PTL

\* The flag of a CPU tells relay() the level of the context that the CPU runs.
THEOREM FlagCorrect == Spec => []FlagMatchesLevel
<1>1. IInv => FlagMatchesLevel
  BY DEF IInv
<1> QED BY <1>1, GuardInvariant, PTL

\* A gate is queued at most once over all CPUs, so that the one link it has is
\* never used twice, and its flag tells whether it is (guard.h 48-54).
THEOREM GatesQueuedOnce == Spec => []GateQueuedOnce
<1>1. IInv => GateQueuedOnce
  BY DEF IInv
<1> QED BY <1>1, GuardInvariant, PTL

\* The EOIs of relay() retire the interrupt that is being handled, no other.
THEOREM EOIsMatch == Spec => []EOIMatches
<1>1. IInv => EOIMatches
  BY DEF IInv
<1> QED BY <1>1, GuardInvariant, PTL

-----------------------------------------------------------------------------
(* The ready list                                                          *)

Elements(s) == {s[i] : i \in DOMAIN s}
Distinct(s) == \A i, j \in DOMAIN s : s[i] = s[j] => i = j

\* What is appended is a new element.
LEMMA AppendDistinct ==
  ASSUME NEW S, NEW s \in Seq(S), Distinct(s), NEW e \in S, e \notin Elements(s)
  PROVE  /\ Append(s, e) \in Seq(S) /\ Append(s, e) # << >>
         /\ Elements(Append(s, e)) = Elements(s) \cup {e}
         /\ Distinct(Append(s, e))
BY AppendElements DEF Elements, Distinct

\* Tail takes out the first element and no other.
LEMMA TailDistinct ==
  ASSUME NEW S, NEW s \in Seq(S), Distinct(s), s # << >>
  PROVE  /\ Head(s) \in S /\ Head(s) \in Elements(s)
         /\ Tail(s) \in Seq(S)
         /\ Elements(Tail(s)) = Elements(s) \ {Head(s)}
         /\ Distinct(Tail(s))
<1>1. /\ Head(s) = s[1] /\ Head(s) \in S /\ 1 \in DOMAIN s
      /\ Tail(s) \in Seq(S)
      /\ \A i \in DOMAIN Tail(s) : i + 1 \in DOMAIN s /\ i + 1 # 1 /\ i \in Nat
                                   /\ Tail(s)[i] = s[i + 1]
      /\ \A i \in DOMAIN s \ {1} : i - 1 \in DOMAIN Tail(s) /\ i \in Nat
                                   /\ Tail(s)[i - 1] = s[i]
  BY TailElements
<1>2. Distinct(Tail(s))
  BY <1>1 DEF Distinct
<1>3. ASSUME NEW e \in Elements(Tail(s)) PROVE e \in Elements(s) \ {Head(s)}
  BY <1>1 DEF Elements, Distinct
<1>4. ASSUME NEW e \in Elements(s) \ {Head(s)} PROVE e \in Elements(Tail(s))
  <2>1. PICK i \in DOMAIN s \ {1} : s[i] = e
    BY <1>1 DEF Elements
  <2>2. i - 1 \in DOMAIN Tail(s) /\ Tail(s)[i - 1] = e
    BY <1>1, <2>1
  <2> QED BY <2>2 DEF Elements
<1>5. Elements(Tail(s)) = Elements(s) \ {Head(s)}
  BY <1>3, <1>4
<1>6. Head(s) \in Elements(s)
  BY <1>1 DEF Elements
<1> QED BY <1>1, <1>2, <1>5, <1>6

\* remove() takes out one element and no other, if it is there.
LEMMA RemoveDistinct ==
  ASSUME NEW S, NEW s \in Seq(S), Distinct(s), NEW e
  PROVE  /\ Remove(s, e) \in Seq(S)
         /\ Elements(Remove(s, e)) = Elements(s) \ {e}
         /\ Distinct(Remove(s, e))
<1> DEFINE at == {i \in DOMAIN s : s[i] = e}
<1>1. CASE at = {}
  <2>1. Remove(s, e) = s
    BY <1>1 DEF Remove
  <2> QED BY <1>1, <2>1 DEF Elements
<1>2. CASE at # {}
  <2>1. PICK k \in DOMAIN s : s[k] = e
    BY <1>2
  <2>2. at = {k}
    BY <2>1 DEF Distinct
  <2>3. First({k}) = k
    BY DEF First
  <2> DEFINE n == Len(s)
             a == SubSeq(s, 1, k - 1)
             b == SubSeq(s, k + 1, n)
             r == a \o b
  <2>4. Remove(s, e) = r
    BY <1>2, <2>2, <2>3 DEF Remove
  <2>5. n \in Nat /\ k \in 1 .. n /\ DOMAIN s = 1 .. n
    BY SeqDomain
  <2>6. /\ r \in Seq(S) /\ DOMAIN r = 1 .. (n - 1)
        /\ \A i \in 1 .. (n - 1) : r[i] = IF i < k THEN s[i] ELSE s[i + 1]
    <3>1. /\ a \in Seq(S) /\ Len(a) = k - 1
          /\ \A i \in 1 .. (k - 1) : a[i] = s[i]
      BY <2>5
    <3>2. /\ b \in Seq(S) /\ Len(b) = n - k
          /\ \A i \in 1 .. (n - k) : b[i] = s[k + i]
      BY <2>5
    <3> HIDE DEF a, b
    <3>3. /\ r \in Seq(S) /\ Len(r) = n - 1
          /\ \A i \in 1 .. (n - 1) : r[i] = IF i <= k - 1 THEN a[i] ELSE b[i - (k - 1)]
      <4>1. /\ r \in Seq(S) /\ Len(r) = Len(a) + Len(b)
            /\ \A i \in 1 .. Len(a) + Len(b) :
                  r[i] = IF i <= Len(a) THEN a[i] ELSE b[i - Len(a)]
        BY <3>1, <3>2, ConcatProperties
      <4>2. Len(a) = k - 1 /\ Len(a) + Len(b) = n - 1
        BY <2>5, <3>1, <3>2
      <4> QED BY ONLY <4>1, <4>2
    <3> HIDE DEF r
    <3>4. ASSUME NEW i \in 1 .. (n - 1)
          PROVE  r[i] = IF i < k THEN s[i] ELSE s[i + 1]
      <4>1. CASE i < k
        BY <2>5, <3>1, <3>3, <4>1
      <4>2. CASE ~(i < k)
        <5>1. i - (k - 1) \in 1 .. (n - k) /\ k + (i - (k - 1)) = i + 1
          BY <2>5, <4>2
        <5>2. r[i] = b[i - (k - 1)]
          BY <2>5, <3>3, <4>2
        <5> QED BY <3>2, <4>2, <5>1, <5>2
      <4> QED BY <4>1, <4>2
    <3> QED BY <2>5, <3>3, <3>4
  <2> HIDE DEF r
  <2>7. Distinct(r)
    <3> DEFINE place(i) == IF i < k THEN i ELSE i + 1
    <3>1. \A i \in 1 .. (n - 1) : place(i) \in 1 .. n /\ r[i] = s[place(i)]
      BY <2>5, <2>6
    <3>2. \A i, j \in 1 .. (n - 1) : place(i) = place(j) => i = j
      BY <2>5
    <3> HIDE DEF place
    <3>3. \A i, j \in 1 .. (n - 1) : r[i] = r[j] => place(i) = place(j)
      BY <2>5, <3>1 DEF Distinct
    <3> QED BY <2>6, <3>2, <3>3 DEF Distinct
  <2>8. ASSUME NEW x \in Elements(r) PROVE x \in Elements(s) \ {e}
    <3>1. PICK i \in 1 .. (n - 1) : r[i] = x
      BY <2>6 DEF Elements
    <3>2. PICK j \in 1 .. n : j # k /\ s[j] = x
      <4>1. CASE i < k
        BY <2>5, <2>6, <3>1, <4>1
      <4>2. CASE ~(i < k)
        <5>1. i + 1 \in 1 .. n /\ i + 1 # k /\ s[i + 1] = x
          BY <2>5, <2>6, <3>1, <4>2
        <5> QED BY <5>1
      <4> QED BY <4>1, <4>2
    <3> QED BY <2>1, <2>5, <3>2 DEF Elements, Distinct
  <2>9. ASSUME NEW x \in Elements(s) \ {e} PROVE x \in Elements(r)
    <3>1. PICK i \in 1 .. n : s[i] = x /\ i # k
      BY <2>1, <2>5 DEF Elements
    <3>2. CASE i < k
      BY <2>5, <2>6, <3>1, <3>2 DEF Elements
    <3>3. CASE i > k
      <4>1. i - 1 \in 1 .. (n - 1) /\ r[i - 1] = x
        BY <2>5, <2>6, <3>1, <3>3
      <4> QED BY <2>6, <4>1 DEF Elements
    <3> QED BY <2>5, <3>1, <3>2, <3>3
  <2>10. Elements(r) = Elements(s) \ {e}
    BY <2>8, <2>9
  <2> QED BY <2>4, <2>6, <2>7, <2>10
<1> QED BY <1>1, <1>2

\* The loop of resume() stops at the first thread, if none is dying.
LEMMA NobodySkipped ==
  ASSUME NEW s \in Seq(Thread), \A t \in Elements(s) : ~kill_flag[t]
  PROVE  SkipDying(s) = s
<1> DEFINE alive == {i \in DOMAIN s : ~kill_flag[s[i]]}
<1>1. alive = 1 .. Len(s) /\ Len(s) \in Nat
  BY SeqDomain DEF Elements
<1>2. CASE s = << >>
  BY <1>1, <1>2 DEF SkipDying
<1>3. CASE s # << >>
  <2>1. alive # {} /\ First(alive) = 1
    BY <1>1, <1>3 DEF First
  <2>2. SkipDying(s) = SubSeq(s, 1, Len(s))
    BY <2>1 DEF SkipDying
  <2> QED BY <2>2, SubSeqFull
<1> QED BY <1>2, <1>3

-----------------------------------------------------------------------------
(* The inductive invariant                                                 *)

CallName == {"none", "ready", "schedule", "output", "exit", "resume", "kill"}

KTypes ==
  /\ unborn \in Seq(Thread) /\ jobs \in Seq(Thread)
  /\ life \in [CPU -> Thread \cup {NoThread}]
  /\ next \in [CPU -> Thread \cup {NoThread}]
  /\ kill_flag \in [Thread -> BOOLEAN]
  /\ call \in [Context -> CallName \X (Thread \cup {NoThread})]
  /\ timer \in [CPU -> BOOLEAN] /\ ipi \in [CPU -> BOOLEAN]

\* Who makes which calls, and when.
CallsFit ==
  \A x \in Context :
    /\ call[x][1] \in {"resume", "exit", "kill"} => x \in Thread
    /\ call[x][1] = "kill" => call[x][2] \in Thread
    /\ call[x][1] = "ready" => /\ x = BSP
                               /\ unborn # << >> /\ call[x][2] = Head(unborn)
    /\ call[x][1] = "schedule" => x \in CPU /\ unborn = << >>

\* As long as a thread is not registered, no thread is executed.
Registration ==
  /\ Distinct(unborn)
  /\ \A t \in Elements(unborn) : t \notin ReadySet
  /\ unborn # << >> => /\ \A c \in CPU : running[c] = c /\ next[c] = NoThread
                       /\ \A t \in Thread : ~kill_flag[t]

\* Where the threads are: ready, executed, or about to be, by one CPU, and
\* between setActive() and the switch that CPU is inside E1/2.
Dispatch ==
  /\ \A c \in CPU : running[c] \in Thread \cup {c}
  /\ LifeIsRunning
  /\ Distinct(jobs)
  /\ \A t \in ReadySet : ~kill_flag[t]
  /\ \A c \in CPU : next[c] = NoThread => running[c] \notin ReadySet
  /\ \A c \in CPU : next[c] # NoThread =>
       /\ pc[running[c]] = "body"
       /\ next[c] \notin ReadySet /\ ~kill_flag[next[c]]
       /\ \A d \in CPU : running[d] = next[c] => d = c

\* The thread that is going to be left is not lost.
LeavesNobody ==
  \A c \in CPU : next[c] # NoThread /\ running[c] \in Thread =>
    \/ running[c] \in ReadySet \cup {next[c]}
    \/ kill_flag[running[c]] \/ call[running[c]][1] = "exit"

\* The gates whose epilogues ask for the active thread.
Asking == {watch, assassin}

\* They do not interrupt a CPU that has no thread yet, and boot code is not what
\* their epilogues find.
BootQuiet ==
  \A c \in CPU :
    /\ life[c] = NoThread =>
         /\ ~timer[c] /\ ~ipi[c] /\ handler[c] \notin Asking
         /\ \A g \in Elements(queues[c]) : g \notin Asking
    /\ item[c] \notin Asking
    /\ \A g \in Elements(stack[c]) : g \notin Asking

Threads == Registration /\ Dispatch /\ LeavesNobody /\ NoThreadLost

KInv == IInv /\ KTypes /\ CallsFit /\ Threads /\ BootQuiet

LEMMA KInitInvariant == KInit => KInv
<1> SUFFICES ASSUME KInit PROVE KInv
  OBVIOUS
<1> USE KernelAssumption DEF KInit
<1>1. IInv
  BY InitInvariant
<1>2. KTypes
  BY DEF KTypes, NoCall, CallName
<1>3. CallsFit
  BY DEF CallsFit, NoCall
<1>4. Registration
  BY DEF Registration, Distinct, ReadySet, Init
<1>5. Dispatch
  BY DEF Dispatch, LifeIsRunning, Distinct, ReadySet, Init
<1>6. LeavesNobody
  BY DEF LeavesNobody
<1>7. BootQuiet
  <2>1. \A c \in CPU :
              /\ ~timer[c] /\ ~ipi[c] /\ handler[c] = NoGate /\ item[c] = NoGate
              /\ queues[c] = << >> /\ stack[c] = << >>
    BY ContextAssumption DEF Init
  <2>2. NoGate \notin Asking
    BY DEF Asking
  <2>3. Elements(<< >>) = {}
    BY ONLY SeqDomain DEF Elements
  <2> QED BY ONLY <2>1, <2>2, <2>3 DEF BootQuiet
<1>8. NoThreadLost
  BY DEF NoThreadLost
<1> QED BY <1>1, <1>2, <1>3, <1>4, <1>5, <1>6, <1>7, <1>8 DEF KInv, Threads

-----------------------------------------------------------------------------
(* Frames                                                                  *)

\* The CPU that works inside E1/2 is the only one: no other is about to switch.
LEMMA OthersWait ==
  ASSUME KInv, NEW c \in CPU, AtLabel(c, "body")
  PROVE  \A d \in CPU \ {c} : /\ next[d] = NoThread
                              /\ running[d] \notin ReadySet
                              /\ running[d] # running[c]
<1>1. \A d \in CPU \ {c} : pc[running[d]] # "body"
  BY DEF KInv, IInv, LockQueue, Inside, AtLabel, InsideLabels, LockLabels, KernelLabels
<1>2. \A d \in CPU \ {c} : next[d] = NoThread
  BY <1>1 DEF KInv, Threads, Dispatch
<1>3. \A d \in CPU \ {c} : running[d] # running[c]
  BY DEF KInv, IInv, Placement
<1> QED BY <1>2, <1>3 DEF KInv, Threads, Dispatch

\* A step that moves no thread.
LEMMA ThreadsFrame ==
  ASSUME KInv, UNCHANGED <<unborn, jobs, life, kill_flag, next, running>>,
         \A c \in CPU : next[c] # NoThread => pc'[running[c]] = "body",
         \A c \in CPU : /\ next[c] # NoThread /\ call[running[c]][1] = "exit"
                        => call'[running[c]][1] = "exit",
         \A t \in Thread \ Running : call'[t] = call[t]
  PROVE  Threads'
<1> USE DEF KInv, Threads
<1>1. ReadySet' = ReadySet /\ Running' = Running
  BY DEF ReadySet, Running
<1>2. Registration'
  BY <1>1 DEF Registration, Elements, Distinct
<1>3. Dispatch'
  BY <1>1 DEF Dispatch, LifeIsRunning, Distinct
<1>4. LeavesNobody'
  BY <1>1 DEF LeavesNobody
<1>5. NoThreadLost'
  BY <1>1 DEF NoThreadLost
<1> QED BY <1>2, <1>3, <1>4, <1>5

\* A step that brings no gate to where it might ask for a thread.
LEMMA QuietFrame ==
  ASSUME BootQuiet, queues' = queues, stack' = stack,
         \A c \in CPU :
           /\ life'[c] = NoThread =>
                /\ life[c] = NoThread
                /\ timer'[c] = timer[c] /\ (ipi'[c] => ipi[c])
                /\ handler'[c] = handler[c] \/ handler'[c] \notin Asking
           /\ item'[c] = item[c] \/ item'[c] \notin Asking
  PROVE  BootQuiet'
BY DEF BootQuiet, Elements

\* A call that is not over, or not one at all.
LEMMA EndCallKeeps ==
  ASSUME KTypes, NEW x \in Context, EndCall(x)
  PROVE  /\ call' \in [Context -> CallName \X (Thread \cup {NoThread})]
         /\ \A y \in Context \ {x} : call'[y] = call[y]
         /\ call'[x] \in {call[x], NoCall}
         /\ call[x][1] = "exit" => call'[x] = call[x]
         /\ item[x] = NoGate /\ stack[x] = << >> /\ call[x][1] # "exit" => call'[x] = NoCall
<1> QED BY DEF KTypes, EndCall, NoCall, CallName

\* The calls fit when calls end, as long as no thread is registered.
LEMMA CallsFrame ==
  ASSUME CallsFit, unborn' = unborn,
         \A x \in Context : call'[x] \in {call[x], NoCall}
  PROVE  CallsFit'
<1>1. NoCall[1] = "none"
  BY DEF NoCall
<1> QED BY <1>1 DEF CallsFit

-----------------------------------------------------------------------------
(* Steps of the guard                                                      *)

LEMMA KInterruptInvariant ==
  ASSUME KInv, NEW c \in CPU, NEW g \in Gate, KInterrupt(c, g)
  PROVE  KInv'
<1> USE DEF KInv, KInterrupt
<1>1. IInv'
  BY InterruptInvariant
<1>2. KTypes'
  BY DEF KTypes
<1>3. CallsFit'
  BY CallsFrame
<1>4. Threads'
  BY ThreadsFrame DEF Interrupt, ctxVars, Threads, Dispatch
<1>5. BootQuiet'
  <2>1. g \in Asking => life[c] # NoThread
    BY DEF BootQuiet, Asking
  <2>2. \A d \in CPU : /\ life'[d] = life[d] /\ timer'[d] = timer[d] /\ item'[d] = item[d]
                       /\ ipi'[d] => ipi[d]
                       /\ d # c => handler'[d] = handler[d]
                       /\ handler'[c] = g
    BY DEF KTypes, IInv, TypeOK, Interrupt, ctxVars
  <2>3. queues' = queues /\ stack' = stack /\ BootQuiet
    BY DEF Interrupt, ctxVars
  <2>4. \A d \in CPU : life'[d] = NoThread =>
           handler'[d] = handler[d] \/ handler'[d] \notin Asking
    BY <2>1, <2>2
  <2> QED BY <2>2, <2>3, <2>4, QuietFrame
<1> QED BY <1>1, <1>2, <1>3, <1>4, <1>5

\* The boot code of BSP registers the next thread, and the CPUs schedule when it
\* is done; threads make their calls.
LEMMA KEnterInvariant ==
  ASSUME KInv, NEW c \in CPU, KEnter(c)
  PROVE  KInv'
<1> USE DEF KInv, KEnter
<1> DEFINE x == running[c]
<1>1. IInv'
  BY EnterInvariant
<1>2. x \in Thread \cup {c} /\ x \in Context
  BY DEF Threads, Dispatch, IInv, TypeOK
<1>3. ASSUME NEW op \in NextCalls(x)
      PROVE  /\ op \in CallName \X (Thread \cup {NoThread})
             /\ op[1] \in {"resume", "exit", "kill"} => x \in Thread
             /\ op[1] = "kill" => op[2] \in Thread
             /\ op[1] = "ready" => x = BSP /\ unborn # << >> /\ op[2] = Head(unborn)
             /\ op[1] = "schedule" => x \in CPU /\ unborn = << >>
  <2>1. CASE x \in CPU
    <3>1. CASE unborn = << >>
      <4>1. op = <<"schedule", NoThread>>
        BY <2>1, <3>1 DEF NextCalls, BootCall
      <4> QED BY <2>1, <3>1, <4>1 DEF CallName
    <3>2. CASE unborn # << >>
      <4>1. x = BSP /\ op = <<"ready", Head(unborn)>>
        BY <2>1, <3>2 DEF NextCalls, BootCall
      <4>2. Head(unborn) \in Thread
        BY <3>2 DEF KTypes
      <4> QED BY <3>2, <4>1, <4>2 DEF CallName
    <3> QED BY <3>1, <3>2
  <2>2. CASE x \notin CPU
    <3>1. x \in Thread /\ op \in Calls
      BY <1>2, <2>2 DEF NextCalls
    <3>2. \/ op \in {"output", "exit", "resume"} \X {NoThread}
          \/ op \in {"kill"} \X Thread
      BY <3>1, KernelAssumption
    <3> QED BY <3>1, <3>2 DEF CallName
  <2> QED BY <2>1, <2>2
<1>4. \/ UNCHANGED call
      \/ \E op \in NextCalls(x) : call' = [call EXCEPT ![x] = op]
  OBVIOUS
<1>5. KTypes'
  <2>1. call' \in [Context -> CallName \X (Thread \cup {NoThread})]
    BY <1>2, <1>3, <1>4 DEF KTypes
  <2> QED BY <2>1 DEF KTypes
<1>6. CallsFit'
  <2>1. CASE UNCHANGED call
    BY <2>1 DEF CallsFit
  <2>2. ASSUME NEW op \in NextCalls(x), call' = [call EXCEPT ![x] = op] PROVE CallsFit'
    <3>1. \A y \in Context : call'[y] = IF y = x THEN op ELSE call[y]
      BY <2>2 DEF KTypes
    <3> QED BY <1>3, <3>1 DEF CallsFit
  <2> QED BY <1>4, <2>1, <2>2
<1>7. Threads'
  <2>1. next[c] = NoThread
    BY DEF Enter, AtLabel, Threads, Dispatch
  <2>2. \A d \in CPU : next[d] # NoThread => d # c /\ running[d] # x
    BY <2>1 DEF IInv, Placement
  <2>3. \A d \in CPU : next[d] # NoThread => pc'[running[d]] = "body"
    BY <2>2 DEF Enter, SetPC, Threads, Dispatch, IInv, TypeOK
  <2>4. \A y \in Context \ {x} : call'[y] = call[y]
    BY <1>4 DEF KTypes
  <2>5. /\ \A d \in CPU : next[d] # NoThread => call'[running[d]] = call[running[d]]
        /\ \A t \in Thread \ Running : call'[t] = call[t]
    BY <2>2, <2>4, KernelAssumption DEF Running, IInv, TypeOK
  <2> QED BY <2>3, <2>5, ThreadsFrame DEF Enter
<1>8. BootQuiet'
  BY QuietFrame DEF Enter, irqVars
<1> QED BY <1>1, <1>5, <1>6, <1>7, <1>8

\* What is left when the first element is gone.
LEMMA TailSubset ==
  ASSUME NEW S, NEW s \in Seq(S), s # << >>
  PROVE  Elements(Tail(s)) \subseteq Elements(s)
<1>1. \A i \in DOMAIN Tail(s) : i + 1 \in DOMAIN s /\ Tail(s)[i] = s[i + 1]
  BY TailElements
<1> QED BY <1>1 DEF Elements

\* What is put on a stack.
LEMMA PushElements ==
  ASSUME NEW S, NEW s \in Seq(S), NEW e \in S
  PROVE  Elements(<<e>> \o s) = Elements(s) \cup {e}
<1> DEFINE r == <<e>> \o s
<1>1. /\ Len(s) \in Nat /\ DOMAIN s = 1 .. Len(s)
      /\ DOMAIN r = 1 .. (Len(s) + 1) /\ r[1] = e
      /\ \A i \in 2 .. (Len(s) + 1) : r[i] = s[i - 1]
  OBVIOUS
<1> HIDE DEF r
<1>2. ASSUME NEW x \in Elements(r) PROVE x \in Elements(s) \cup {e}
  <2>1. PICK i \in 1 .. (Len(s) + 1) : r[i] = x
    BY <1>1, <1>2 DEF Elements
  <2>2. CASE i # 1
    <3>1. i - 1 \in DOMAIN s /\ s[i - 1] = x
      BY <1>1, <2>1, <2>2
    <3> QED BY <3>1 DEF Elements
  <2> QED BY <1>1, <2>1, <2>2
<1>3. ASSUME NEW x \in Elements(s) PROVE x \in Elements(r)
  <2>1. PICK i \in DOMAIN s : s[i] = x
    BY <1>3 DEF Elements
  <2>2. i + 1 \in DOMAIN r /\ r[i + 1] = x
    BY <1>1, <2>1
  <2> QED BY <2>2 DEF Elements
<1>4. e \in Elements(r)
  BY <1>1 DEF Elements
<1>5. Elements(r) = Elements(s) \cup {e}
  BY <1>2, <1>3, <1>4
<1> QED BY <1>5 DEF r

\* The boot code is left when its CPU has a thread.
LEMMA BootHasNoThread ==
  ASSUME KInv, NEW c \in CPU, pc[running[c]] # "body", NEW d \in CPU, d = running[c]
  PROVE  d = c /\ life[c] = NoThread
BY KernelAssumption DEF KInv, Threads, Dispatch, LifeIsRunning

\* The steps of the guard that concern no thread.
LEMMA GuardStepInvariant ==
  ASSUME KInv, NEW c \in CPU, GuardStep(c)
  PROVE  KInv'
<1> USE DEF KInv, GuardStep, kernelVars
<1>1. IInv'
  BY RelayNoEpilogueInvariant, RelayDeferInvariant, RelayDirectInvariant,
     DropQueuedInvariant, SetQueuedInvariant, EnqueueInvariant, LockRequestInvariant,
     LockGrantInvariant, DequeueInvariant, SetDequeuedInvariant, LeaveInvariant
  DEF Handler
<1>2. KTypes' /\ CallsFit'
  BY DEF KTypes, CallsFit
<1>3. Threads'
  <2>1. running' = running
    BY DEF Handler, RelayNoEpilogue, RelayDefer, RelayDirect, DropQueued, SetQueued,
       Enqueue, LockRequest, LockGrant, Dequeue, SetDequeued, Leave, ctxVars
  <2>2. \A x \in Context : pc[x] = "body" => pc'[x] = "body"
    <3> USE DEF IInv, TypeOK, SetPC
    <3>1. CASE RelayDirect(c)
      BY <3>1 DEF RelayDirect, FlagMatchesLevel, OnKernelLevel, KernelLabels
    <3>2. CASE LockRequest(c) \/ LockGrant(c)
      BY <3>2 DEF LockRequest, LockGrant, AtLabel
    <3>3. CASE Dequeue(c) \/ SetDequeued(c) \/ Leave(c)
      BY <3>3 DEF Dequeue, SetDequeued, Leave, AtLabel
    <3>4. CASE \/ RelayNoEpilogue(c) \/ RelayDefer(c)
               \/ DropQueued(c) \/ SetQueued(c) \/ Enqueue(c)
      BY <3>4 DEF RelayNoEpilogue, RelayDefer, DropQueued, SetQueued, Enqueue, ctxVars
    <3> QED BY <3>1, <3>2, <3>3, <3>4 DEF Handler
  <2>3. \A d \in CPU : next[d] # NoThread => pc'[running[d]] = "body"
    BY <2>2 DEF Threads, Dispatch, IInv, TypeOK
  <2> QED BY <2>1, <2>3, ThreadsFrame
<1>4. BootQuiet'
  <2>1. NoGate \notin Asking
    BY KernelAssumption DEF Asking
  <2>2. pc[running[c]] # "body" => \A d \in CPU : d = running[c] => d = c /\ life[c] = NoThread
    BY BootHasNoThread
  <2>3. CASE LockRequest(c) \/ LockGrant(c) \/ SetDequeued(c)
    BY <2>3, QuietFrame DEF LockRequest, LockGrant, SetDequeued, irqVars
  <2>4. CASE RelayNoEpilogue(c) \/ RelayDefer(c) \/ DropQueued(c) \/ SetQueued(c)
    <3>1. \A d \in CPU : handler'[d] \in {handler[d], NoGate}
      BY <2>4 DEF RelayNoEpilogue, RelayDefer, DropQueued, SetQueued, HandlerReturns,
         HandlerGoesOn, IInv, TypeOK
    <3>2. UNCHANGED <<queues, stack, item>>
      BY <2>4 DEF RelayNoEpilogue, RelayDefer, DropQueued, SetQueued, ctxVars
    <3> QED BY <2>1, <3>1, <3>2, QuietFrame
  <2>5. CASE Enqueue(c)
    <3>1. /\ queues'[c] = Append(queues[c], handler[c])
          /\ \A d \in CPU \ {c} : queues'[d] = queues[d]
          /\ \A d \in CPU : handler'[d] \in {handler[d], NoGate}
          /\ UNCHANGED <<stack, item>>
      BY <2>5 DEF Enqueue, HandlerReturns, ctxVars, IInv, TypeOK
    <3>2. queues[c] \in Seq(NeedsEpilogue) /\ handler[c] \in NeedsEpilogue
      BY <2>5 DEF Enqueue, IInv, TypeOK, HandlerState
    <3>3. Elements(queues'[c]) = Elements(queues[c]) \cup {handler[c]}
      BY <3>1, <3>2, AppendElements DEF Elements
    <3> QED BY <2>1, <3>1, <3>3 DEF BootQuiet
  <2>6. CASE RelayDirect(c)
    <3>1. pc[running[c]] # "body"
      BY <2>6 DEF RelayDirect, IInv, FlagMatchesLevel, OnKernelLevel, KernelLabels
    <3>2. /\ stack'[running[c]] = <<handler[c]>> \o stack[running[c]]
          /\ \A x \in Context \ {running[c]} : stack'[x] = stack[x]
          /\ \A d \in CPU : handler'[d] \in {handler[d], NoGate}
          /\ UNCHANGED <<queues, item>>
      BY <2>6 DEF RelayDirect, HandlerReturns, IInv, TypeOK
    <3>3. handler[c] \in NeedsEpilogue /\ stack[running[c]] \in Seq(NeedsEpilogue)
      BY <2>6 DEF RelayDirect, IInv, TypeOK
    <3>4. Elements(stack'[running[c]]) = Elements(stack[running[c]]) \cup {handler[c]}
      BY <3>2, <3>3, PushElements
    <3>5. \A d \in CPU : \A g \in Elements(stack'[d]) : g \notin Asking
      BY <2>2, <3>1, <3>2, <3>4, ContextAssumption DEF BootQuiet
    <3> QED BY <2>1, <3>2, <3>5 DEF BootQuiet
  <2>7. CASE Dequeue(c)
    <3>1. pc[running[c]] # "body"
      BY <2>7 DEF Dequeue, AtLabel
    <3>2. /\ queues'[c] = Tail(queues[c])
          /\ \A d \in CPU \ {c} : queues'[d] = queues[d]
          /\ item'[running[c]] = Head(queues[c])
          /\ \A x \in Context \ {running[c]} : item'[x] = item[x]
          /\ UNCHANGED <<stack, handler>>
      BY <2>7 DEF Dequeue, irqVars, IInv, TypeOK
    <3>3. queues[c] \in Seq(NeedsEpilogue) /\ queues[c] # << >>
      BY <2>7 DEF Dequeue, IInv, TypeOK
    <3>4. /\ Elements(queues'[c]) \subseteq Elements(queues[c])
          /\ Head(queues[c]) \in Elements(queues[c])
      <4>1. Elements(Tail(queues[c])) \subseteq Elements(queues[c])
        BY <3>3, TailSubset
      <4>2. Head(queues[c]) \in Elements(queues[c])
        BY <3>3, TailElements DEF Elements
      <4> QED BY <3>2, <4>1, <4>2
    <3>5. \A d \in CPU : item'[d] \notin Asking
      BY <2>2, <3>1, <3>2, <3>4, ContextAssumption DEF BootQuiet
    <3> QED BY <3>2, <3>4, <3>5 DEF BootQuiet
  <2>8. CASE Leave(c)
    <3>1. /\ stack'[running[c]] \in {stack[running[c]], Tail(stack[running[c]])}
          /\ stack[running[c]] = << >> => stack'[running[c]] = stack[running[c]]
          /\ \A x \in Context \ {running[c]} : stack'[x] = stack[x]
          /\ UNCHANGED <<queues, item, handler>>
      BY <2>8 DEF Leave, irqVars, IInv, TypeOK
    <3>2. stack[running[c]] \in Seq(NeedsEpilogue)
      BY DEF IInv, TypeOK
    <3>3. Elements(stack'[running[c]]) \subseteq Elements(stack[running[c]])
      <4>1. CASE stack[running[c]] = << >>
        BY <3>1, <4>1
      <4>2. CASE stack[running[c]] # << >>
        BY <3>1, <3>2, <4>2, TailSubset
      <4> QED BY <4>1, <4>2
    <3>4. \A d \in CPU : Elements(stack'[d]) \subseteq Elements(stack[d])
      BY <3>1, <3>3, ContextAssumption
    <3> QED BY <3>1, <3>4 DEF BootQuiet
  <2> QED BY <2>3, <2>4, <2>5, <2>6, <2>7, <2>8 DEF Handler
<1> QED BY <1>1, <1>2, <1>3, <1>4

-----------------------------------------------------------------------------
(* System calls and epilogues                                              *)

\* A task named as a call is the call of the context: gates have other names.
LEMMA TaskIsCall ==
  ASSUME KInv, NEW c \in CPU, NEW n \in CallName \ {"none"}, Begins(c, {n})
  PROVE  /\ AtLabel(c, "body") /\ next[c] = NoThread
         /\ running[c] \in Context
         /\ item[running[c]] = NoGate /\ stack[running[c]] = << >>
         /\ call[running[c]][1] = n
<1> DEFINE x == running[c]
<1>1. n \notin NeedsEpilogue
  BY KernelAssumption DEF CallName
<1>2. /\ x \in Context /\ item[x] \in NeedsEpilogue \cup {NoGate}
      /\ stack[x] # << >> => Head(stack[x]) \in NeedsEpilogue
  BY DEF KInv, IInv, TypeOK
<1>3. Task(c) = n
  BY DEF Begins
<1> QED BY <1>1, <1>2, <1>3 DEF Task, Begins

\* What a task that returns leaves alone.
LEMMA TaskReturnsKeeps ==
  ASSUME KInv, NEW c \in CPU, AtLabel(c, "body"), NEW b \in BOOLEAN, TaskReturns(c, b)
  PROVE  /\ Body(c) /\ IInv'
         /\ UNCHANGED <<running, queues, stack, handler>>
         /\ \A d \in CPU \ {c} : pc'[running[d]] = pc[running[d]]
         /\ \A d \in CPU : item'[d] \in {item[d], NoGate}
         /\ call' \in [Context -> CallName \X (Thread \cup {NoThread})]
         /\ \A x \in Context : /\ call'[x] \in {call[x], NoCall}
                               /\ call[x][1] = "exit" => call'[x] = call[x]
                               /\ x # running[c] => call'[x] = call[x]
<1> USE DEF KInv
<1>1. Body(c)
  BY DEF TaskReturns, Body, SetInts
<1>2. IInv'
  BY <1>1, BodyInvariant
<1>3. \A d \in CPU \ {c} : pc'[running[d]] = pc[running[d]]
  BY DEF TaskReturns, SetPC, IInv, TypeOK, Placement
<1>4. \A d \in CPU : item'[d] \in {item[d], NoGate}
  BY ContextAssumption DEF TaskReturns, IInv, TypeOK
<1>5. running[c] \in Context
  BY DEF IInv, TypeOK
<1>6. /\ call' \in [Context -> CallName \X (Thread \cup {NoThread})]
      /\ \A x \in Context : /\ call'[x] \in {call[x], NoCall}
                            /\ call[x][1] = "exit" => call'[x] = call[x]
                            /\ x # running[c] => call'[x] = call[x]
  BY <1>5, EndCallKeeps DEF TaskReturns
<1> QED BY <1>1, <1>2, <1>3, <1>4, <1>6 DEF TaskReturns, irqVars

\* A task that returns and has changed nothing.
LEMMA IdleTaskInvariant ==
  ASSUME KInv, NEW c \in CPU, AtLabel(c, "body"), next[c] = NoThread,
         NEW b \in BOOLEAN, TaskReturns(c, b),
         UNCHANGED <<unborn, jobs, life, kill_flag, next, timer, ipi>>
  PROVE  KInv'
<1> USE DEF KInv
<1>1. /\ IInv' /\ UNCHANGED <<running, queues, stack, handler>>
      /\ \A d \in CPU : item'[d] \in {item[d], NoGate}
      /\ \A x \in Context \ {running[c]} : call'[x] = call[x]
  BY TaskReturnsKeeps
<1>2. KTypes'
  BY TaskReturnsKeeps DEF KTypes
<1>3. CallsFit'
  BY TaskReturnsKeeps, CallsFrame
<1>4. Threads'
  <2>1. \A d \in CPU : next[d] # NoThread => pc'[running[d]] = "body"
    BY TaskReturnsKeeps DEF Threads, Dispatch
  <2>2. \A d \in CPU : /\ next[d] # NoThread /\ call[running[d]][1] = "exit"
                       => call'[running[d]][1] = "exit"
    BY TaskReturnsKeeps DEF IInv, TypeOK
  <2>3. \A t \in Thread \ Running : call'[t] = call[t]
    <3>1. \A t \in Thread \ Running : t \in Context /\ t # running[c]
      BY KernelAssumption DEF Running
    <3> QED BY <1>1, <3>1
  <2> QED BY <1>1, <2>1, <2>2, <2>3, ThreadsFrame
<1>5. BootQuiet'
  <2>1. NoGate \notin Asking
    BY KernelAssumption DEF Asking
  <2> QED BY <1>1, <2>1, QuietFrame
<1> QED BY <1>1, <1>2, <1>3, <1>4, <1>5

LEMMA OutputInvariant ==
  ASSUME KInv, NEW c \in CPU, Output(c) PROVE KInv'
<1>1. /\ ints[c] \in BOOLEAN /\ TaskReturns(c, ints[c])
      /\ AtLabel(c, "body") /\ next[c] = NoThread
      /\ UNCHANGED <<unborn, jobs, life, kill_flag, next, timer, ipi>>
  BY DEF Output, Begins, KInv, IInv, TypeOK
<1> QED BY ONLY <1>1, KInv, c \in CPU, IdleTaskInvariant

LEMMA SpareInvariant ==
  ASSUME KInv, NEW c \in CPU, Spare(c) PROVE KInv'
<1>1. /\ FALSE \in BOOLEAN /\ TaskReturns(c, FALSE)
      /\ AtLabel(c, "body") /\ next[c] = NoThread
      /\ UNCHANGED <<unborn, jobs, life, kill_flag, next, timer, ipi>>
  BY DEF Spare, Begins
<1> QED BY ONLY <1>1, KInv, c \in CPU, IdleTaskInvariant

\* The thread that is registered becomes ready; no CPU has a thread yet.
LEMMA ReadyInvariant ==
  ASSUME KInv, NEW c \in CPU, Ready(c) PROVE KInv'
<1> USE DEF KInv
<1> DEFINE x == running[c]
           t == Head(unborn)
<1>1. /\ AtLabel(c, "body") /\ next[c] = NoThread
      /\ x \in Context /\ item[x] = NoGate /\ stack[x] = << >> /\ call[x][1] = "ready"
  <2>1. "ready" \in CallName \ {"none"} /\ Begins(c, {"ready"})
    BY DEF CallName, Ready
  <2> QED BY ONLY <2>1, KInv, c \in CPU, TaskIsCall
<1>2. x = BSP /\ unborn # << >> /\ call[x][2] = t
  BY <1>1 DEF CallsFit
<1>3. TaskReturns(c, ints[c]) /\ ints[c] \in BOOLEAN
  BY DEF Ready, IInv, TypeOK
<1>4. /\ IInv' /\ UNCHANGED <<running, queues, stack, handler>>
      /\ \A d \in CPU : item'[d] \in {item[d], NoGate}
      /\ call' \in [Context -> CallName \X (Thread \cup {NoThread})]
      /\ \A y \in Context : /\ call[y][1] = "exit" => call'[y] = call[y]
                            /\ y # x => call'[y] = call[y]
  BY <1>1, <1>3, TaskReturnsKeeps
<1>5. call'[x] = NoCall
  BY <1>1, <1>3, EndCallKeeps DEF TaskReturns
<1>6. /\ t \in Thread /\ t \in Elements(unborn) /\ unborn' \in Seq(Thread)
      /\ Elements(unborn') = Elements(unborn) \ {t} /\ Distinct(unborn')
  BY <1>2, TailDistinct DEF KTypes, Threads, Registration, Ready
<1>7. t \notin ReadySet
  BY <1>6 DEF Threads, Registration
<1>8. jobs' \in Seq(Thread) /\ ReadySet' = ReadySet \cup {t} /\ Distinct(jobs')
  <2>1. jobs' = Append(jobs, t) /\ ReadySet = Elements(jobs) /\ ReadySet' = Elements(jobs')
    BY <1>2 DEF Ready, ReadySet, Elements
  <2>2. jobs \in Seq(Thread) /\ Distinct(jobs)
    BY DEF KTypes, Threads, Dispatch
  <2> QED BY ONLY <1>6, <1>7, <2>1, <2>2, AppendDistinct
<1>9. /\ \A d \in CPU : running[d] = d /\ next[d] = NoThread
      /\ \A u \in Thread : ~kill_flag[u]
  BY <1>2 DEF Threads, Registration
<1>10. UNCHANGED <<life, kill_flag, next, timer, ipi>>
  BY DEF Ready
<1> HIDE DEF x, t
<1>11. KTypes'
  BY <1>4, <1>6, <1>8, <1>10 DEF KTypes
<1>12. CallsFit'
  <2>1. \A y \in Context \ {x} : call[y][1] \notin {"ready", "schedule"}
    BY <1>2 DEF CallsFit
  <2>2. NoCall[1] = "none"
    BY DEF NoCall
  <2> QED BY <1>4, <1>5, <2>1, <2>2 DEF CallsFit
<1>13. Registration'
  BY <1>4, <1>6, <1>7, <1>8, <1>9, <1>10 DEF Threads, Registration
<1>14. Dispatch'
  <2>1. \A d \in CPU : running[d] \notin ReadySet'
    BY <1>6, <1>8, <1>9, KernelAssumption DEF Threads, Dispatch
  <2> QED BY <1>4, <1>6, <1>8, <1>9, <1>10, <2>1 DEF Threads, Dispatch, LifeIsRunning
<1>15. LeavesNobody'
  BY <1>9, <1>10 DEF LeavesNobody
<1>16. NoThreadLost'
  <2>1. \A u \in Thread : \/ u \in Elements(unborn) \/ u \in ReadySet \cup Running
                          \/ call[u][1] = "exit"
    BY <1>9, KernelAssumption DEF Threads, NoThreadLost, Elements
  <2>2. \A u \in Thread : \/ u \in Elements(unborn') \/ u \in ReadySet' \cup Running'
                          \/ call'[u][1] = "exit"
    <3>1. \A u \in Thread : u \in Context /\ u # x
      BY <1>2, KernelAssumption
    <3> QED BY <1>4, <1>6, <1>8, <2>1, <3>1 DEF Running
  <2> QED BY <2>2 DEF NoThreadLost, Elements
<1>17. BootQuiet'
  BY <1>4, <1>10, QuietFrame, KernelAssumption DEF Asking
<1> QED BY <1>4, <1>11, <1>12, <1>13, <1>14, <1>15, <1>16, <1>17 DEF Threads

\* No thread executes before all are registered.
LEMMA AllRegistered ==
  ASSUME KInv, NEW c \in CPU, running[c] \in Thread
  PROVE  unborn = << >>
BY KernelAssumption DEF KInv, Threads, Registration

\* The killed thread is no longer ready; a CPU that gets an IPI has a thread.
LEMMA KillInvariant ==
  ASSUME KInv, NEW c \in CPU, Kill(c) PROVE KInv'
<1> USE DEF KInv
<1> DEFINE x == running[c]
           that == call[x][2]
<1>1. /\ AtLabel(c, "body") /\ next[c] = NoThread /\ x \in Context /\ call[x][1] = "kill"
  <2>1. "kill" \in CallName \ {"none"} /\ Begins(c, {"kill"})
    BY DEF CallName, Kill
  <2> QED BY ONLY <2>1, KInv, c \in CPU, TaskIsCall
<1>2. x \in Thread /\ that \in Thread
  BY <1>1 DEF CallsFit
<1>3. TaskReturns(c, ints[c]) /\ ints[c] \in BOOLEAN
  BY DEF Kill, IInv, TypeOK
<1>4. /\ IInv' /\ UNCHANGED <<running, queues, stack, handler>>
      /\ \A d \in CPU : item'[d] \in {item[d], NoGate}
      /\ call' \in [Context -> CallName \X (Thread \cup {NoThread})]
      /\ \A y \in Context : /\ call'[y] \in {call[y], NoCall}
                            /\ call[y][1] = "exit" => call'[y] = call[y]
  BY <1>1, <1>3, TaskReturnsKeeps
<1>5. unborn = << >> /\ unborn' = << >>
  BY <1>2, AllRegistered DEF Kill
<1>6. jobs' \in Seq(Thread) /\ ReadySet' = ReadySet \ {that} /\ Distinct(jobs')
  <2>1. jobs' = Remove(jobs, that) /\ ReadySet = Elements(jobs) /\ ReadySet' = Elements(jobs')
    BY DEF Kill, ReadySet, Elements
  <2>2. jobs \in Seq(Thread) /\ Distinct(jobs)
    BY DEF KTypes, Threads, Dispatch
  <2> QED BY ONLY <2>1, <2>2, RemoveDistinct
<1>7. \A d \in CPU : next[d] = NoThread /\ running[d] \notin ReadySet
  BY <1>1, OthersWait DEF Threads, Dispatch
<1>8. UNCHANGED <<life, next, timer>>
  BY DEF Kill
<1>9. /\ kill_flag' \in [Thread -> BOOLEAN]
      /\ \A t \in Thread : kill_flag'[t] = (t = that \/ kill_flag[t])
  BY <1>2 DEF Kill, KTypes
<1>10. /\ ipi' \in [CPU -> BOOLEAN]
       /\ \A d \in CPU : life[d] = NoThread => (ipi'[d] => ipi[d])
  <2>1. ipi \in [CPU -> BOOLEAN] /\ NoThread # that
    BY <1>2, KernelAssumption DEF KTypes
  <2>2. CASE ipi' = ipi
    BY <2>1, <2>2
  <2>3. CASE ipi' = [d \in CPU |-> ipi[d] \/ life[d] = that]
    <3>1. \A d \in CPU : ipi'[d] = (ipi[d] \/ life[d] = that)
      BY <2>3
    <3> QED BY <2>1, <2>3, <3>1
  <2> QED BY <2>2, <2>3 DEF Kill
<1> HIDE DEF x, that
<1>11. KTypes'
  BY <1>4, <1>5, <1>6, <1>8, <1>9, <1>10 DEF KTypes
<1>12. CallsFit'
  BY <1>4, <1>5, CallsFrame
<1>13. Registration'
  BY <1>5, SeqDomain DEF Registration, Distinct, Elements
<1>14. Dispatch'
  <2>1. LifeIsRunning'
    BY <1>4, <1>8 DEF LifeIsRunning, Threads, Dispatch
  <2>2. \A t \in ReadySet' : ~kill_flag'[t]
    <3>1. ReadySet' \subseteq Thread
      BY <1>6, SeqDomain DEF ReadySet
    <3> QED BY <1>6, <1>9, <3>1 DEF Threads, Dispatch
  <2> QED BY <1>4, <1>6, <1>7, <1>8, <2>1, <2>2 DEF Threads, Dispatch
<1>15. LeavesNobody'
  BY <1>7, <1>8 DEF LeavesNobody
<1>16. NoThreadLost'
  <2>1. \A t \in Thread : \/ kill_flag'[t] \/ call'[t][1] = "exit"
                          \/ t \in ReadySet' \cup Running'
    <3>1. \A t \in Thread : kill_flag[t] \/ call[t][1] = "exit" \/ t \in ReadySet \cup Running
      BY <1>5, <1>7, KernelAssumption DEF Threads, NoThreadLost
    <3>2. Running' = Running /\ Thread \subseteq Context
      BY <1>4, KernelAssumption DEF Running
    <3> QED BY <1>4, <1>6, <1>9, <3>1, <3>2
  <2> QED BY <2>1 DEF NoThreadLost
<1>17. BootQuiet'
  <2>1. NoGate \notin Asking
    BY KernelAssumption DEF Asking
  <2> QED BY <1>4, <1>8, <1>10, <2>1, QuietFrame
<1> QED BY <1>4, <1>11, <1>12, <1>13, <1>14, <1>15, <1>16, <1>17 DEF Threads

-----------------------------------------------------------------------------
(* Changing threads                                                        *)

\* The first thread of a list of the ready ones, and perhaps the active one, is
\* dispatched; the others are ready.
LEMMA DispatchStep ==
  ASSUME KInv, NEW c \in CPU, AtLabel(c, "body"), next[c] = NoThread, unborn = << >>,
         NEW ready \in Seq(Thread), ready # << >>, Distinct(ready),
         ReadySet \subseteq Elements(ready),
         Elements(ready) \subseteq ReadySet \cup {running[c]},
         \A t \in Elements(ready) : ~kill_flag[t],
         running[c] \in Thread => \/ running[c] \in Elements(ready)
                                  \/ kill_flag[running[c]] \/ call[running[c]][1] = "exit",
         jobs' = Tail(ready), SetActive(c, Head(ready)),
         timer' \in [CPU -> BOOLEAN], \A d \in CPU \ {c} : timer'[d] = timer[d],
         UNCHANGED <<unborn, kill_flag, ipi>>
  PROVE  KInv'
<1> USE DEF KInv
<1> DEFINE h == Head(ready)
<1>1. Body(c)
  BY DEF SetActive, Body, SetInts, ctxVars, irqVars
<1>2. IInv'
  BY <1>1, BodyInvariant
<1>3. /\ h \in Thread /\ h # NoThread /\ h \in Elements(ready)
      /\ jobs' \in Seq(Thread) /\ Distinct(jobs') /\ ReadySet' = Elements(ready) \ {h}
  <2>1. ReadySet' = Elements(jobs')
    BY DEF ReadySet, Elements
  <2> QED BY <2>1, TailDistinct, KernelAssumption
<1>4. UNCHANGED <<running, pc, stack, item, call, queues, handler>>
  BY DEF SetActive, ctxVars, irqVars
<1>5. /\ life' \in [CPU -> Thread \cup {NoThread}] /\ life'[c] = h
      /\ \A d \in CPU \ {c} : life'[d] = life[d]
  BY <1>3 DEF SetActive, KTypes
<1>6. /\ next' \in [CPU -> Thread \cup {NoThread}] /\ next'[c] = h
      /\ \A d \in CPU \ {c} : next'[d] = next[d]
  BY <1>3 DEF SetActive, KTypes
<1>7. \A d \in CPU \ {c} : next[d] = NoThread /\ running[d] \notin Elements(ready)
  BY OthersWait
<1> HIDE DEF h
<1>8. KTypes'
  BY <1>3, <1>4, <1>5, <1>6 DEF KTypes
<1>9. CallsFit'
  BY <1>4, CallsFrame
<1>10. Registration'
  BY SeqDomain DEF Registration, Distinct, Elements
<1>11. Dispatch'
  <2>1. LifeIsRunning'
    BY <1>3, <1>4, <1>5, <1>6 DEF LifeIsRunning, Threads, Dispatch
  <2>2. \A d \in CPU : next'[d] = NoThread => d # c /\ running[d] \notin ReadySet'
    BY <1>3, <1>6, <1>7
  <2>3. \A d \in CPU : next'[d] # NoThread => d = c
    BY <1>6, <1>7
  <2>4. /\ pc'[running[c]] = "body" /\ next'[c] \notin ReadySet' /\ ~kill_flag'[next'[c]]
        /\ \A d \in CPU : running[d] = next'[c] => d = c
    BY <1>3, <1>4, <1>6, <1>7 DEF AtLabel
  <2>5. \A t \in ReadySet' : ~kill_flag'[t]
    BY <1>3
  <2> QED BY <1>3, <1>4, <2>1, <2>2, <2>3, <2>4, <2>5 DEF Threads, Dispatch
<1>12. LeavesNobody'
  BY <1>3, <1>4, <1>6, <1>7 DEF LeavesNobody
<1>13. NoThreadLost'
  <2>1. \A t \in Thread : kill_flag[t] \/ call[t][1] = "exit" \/ t \in ReadySet \cup Running
    BY <1>7, KernelAssumption DEF Threads, NoThreadLost
  <2>2. Running' = Running
    BY <1>4 DEF Running
  <2>3. ReadySet \subseteq ReadySet' \cup {next'[c]}
    BY <1>3, <1>6
  <2> QED BY <1>4, <2>1, <2>2, <2>3 DEF NoThreadLost
<1>14. BootQuiet'
  <2>1. \A d \in CPU : life'[d] = NoThread => life[d] = NoThread /\ timer'[d] = timer[d]
    BY <1>3, <1>5
  <2> QED BY <1>4, <2>1, QuietFrame
<1> QED BY <1>2, <1>8, <1>9, <1>10, <1>11, <1>12, <1>13, <1>14 DEF Threads

\* A CPU that finds no thread halts, and nothing else changes.
LEMMA DieStep ==
  ASSUME KInv, NEW c \in CPU, AtLabel(c, "body"), next[c] = NoThread, TaskDies(c),
         UNCHANGED <<unborn, jobs, kill_flag, timer, ipi>>
  PROVE  KInv'
<1> USE DEF KInv
<1>1. IInv'
  BY DieInvariant DEF TaskDies
<1>2. UNCHANGED <<life, call, next, running, queues, stack, item, handler>>
  BY DEF TaskDies, Die, irqVars
<1>3. KTypes' /\ CallsFit'
  BY <1>2 DEF KTypes, CallsFit
<1>4. Threads'
  BY <1>2, OthersWait, ThreadsFrame
<1>5. BootQuiet'
  BY <1>2, QuietFrame
<1> QED BY <1>1, <1>3, <1>4, <1>5

\* Who asks for the active thread executes it.
LEMMA ActiveThread ==
  ASSUME KInv, NEW c \in CPU, Begins(c, {watch, assassin, "resume", "exit"})
  PROVE  /\ AtLabel(c, "body") /\ next[c] = NoThread
         /\ running[c] \in Thread /\ life[c] = running[c] /\ unborn = << >>
<1> DEFINE x == running[c]
<1>1. AtLabel(c, "body") /\ next[c] = NoThread /\ Task(c) \in {watch, assassin, "resume", "exit"}
  BY DEF Begins
<1>2. /\ x \in Context /\ item[x] \in NeedsEpilogue \cup {NoGate}
      /\ stack[x] \in Seq(NeedsEpilogue)
      /\ call[x][1] \in CallName /\ x \in Thread \cup {c}
  BY DEF KInv, IInv, TypeOK, KTypes, Threads, Dispatch
<1>3. /\ \A g \in NeedsEpilogue : g \notin CallName
      /\ watch \notin CallName /\ assassin \notin CallName
  BY KernelAssumption DEF CallName
<1>4. x \in Thread
  <2>1. CASE item[x] # NoGate
    <3>1. item[x] \in Asking
      BY <1>1, <1>2, <1>3, <2>1 DEF Task, Asking, CallName
    <3> QED BY <1>2, <3>1 DEF KInv, BootQuiet
  <2>2. CASE item[x] = NoGate /\ stack[x] # << >>
    <3>1. Head(stack[x]) \in NeedsEpilogue /\ Head(stack[x]) \in Elements(stack[x])
      BY <1>2, <2>2, TailElements DEF Elements
    <3>2. Head(stack[x]) \in Asking
      BY <1>1, <1>3, <2>2, <3>1 DEF Task, Asking, CallName
    <3> QED BY <1>2, <3>1, <3>2 DEF KInv, BootQuiet
  <2>3. CASE item[x] = NoGate /\ stack[x] = << >>
    <3>1. call[x][1] \in {"resume", "exit"}
      BY <1>1, <1>2, <1>3, <2>3 DEF Task
    <3> QED BY <1>2, <3>1 DEF KInv, CallsFit
  <2> QED BY <2>1, <2>2, <2>3
<1>5. life[c] = x
  BY <1>1, <1>4 DEF KInv, Threads, Dispatch, LifeIsRunning
<1> QED BY <1>1, <1>4, <1>5, AllRegistered

\* The active thread goes to the end of the ready list, unless it is dying.
LEMMA ResumeInvariant ==
  ASSUME KInv, NEW c \in CPU, Resume(c) PROVE KInv'
<1> DEFINE curr  == life[c]
           ready == Requeue(curr)
<1>1. Begins(c, {watch, assassin, "resume", "exit"})
  BY DEF Resume, Begins
<1>2. /\ AtLabel(c, "body") /\ next[c] = NoThread
      /\ curr \in Thread /\ curr = running[c] /\ unborn = << >>
  BY <1>1, ActiveThread
<1>3. /\ jobs \in Seq(Thread) /\ Distinct(jobs) /\ ReadySet = Elements(jobs)
      /\ curr \notin ReadySet /\ \A t \in ReadySet : ~kill_flag[t]
      /\ timer \in [CPU -> BOOLEAN]
  BY <1>2 DEF KInv, KTypes, Threads, Dispatch, ReadySet, Elements
<1>4. /\ ready \in Seq(Thread) /\ Distinct(ready)
      /\ Elements(ready) = ReadySet \cup (IF kill_flag[curr] THEN {} ELSE {curr})
  <2>1. CASE kill_flag[curr]
    BY <1>3, <2>1 DEF Requeue
  <2>2. CASE ~kill_flag[curr]
    <3>1. ready = Append(jobs, curr)
      BY <2>2 DEF Requeue
    <3> HIDE DEF curr, ready
    <3>2. /\ Append(jobs, curr) \in Seq(Thread) /\ Distinct(Append(jobs, curr))
          /\ Elements(Append(jobs, curr)) = Elements(jobs) \cup {curr}
      BY ONLY <1>2, <1>3, AppendDistinct
    <3> QED BY <1>3, <2>2, <3>1, <3>2
  <2> QED BY <2>1, <2>2
<1>5. SkipDying(ready) = ready
  BY <1>3, <1>4, NobodySkipped
<1>6. CASE ready # << >> /\ jobs' = Tail(ready) /\ SetActive(c, Head(ready))
  <2>1. UNCHANGED <<unborn, kill_flag, timer, ipi>>
    BY DEF Resume
  <2> HIDE DEF ready
  <2> QED BY <1>2, <1>3, <1>4, <1>6, <2>1, DispatchStep
<1>7. CASE ready = << >> /\ jobs' = << >> /\ TaskDies(c)
  <2>1. jobs' = jobs
    BY <1>3, <1>7, AppendDistinct, <1>2 DEF Requeue
  <2> QED BY <1>2, <1>7, <2>1, DieStep DEF Resume
<1> QED BY <1>5, <1>6, <1>7 DEF Resume

\* The thread that exits is not in the ready list any more.
LEMMA ExitInvariant ==
  ASSUME KInv, NEW c \in CPU, Exit(c) PROVE KInv'
<1>1. Begins(c, {watch, assassin, "resume", "exit"})
  BY DEF Exit, Begins
<1>2. AtLabel(c, "body") /\ next[c] = NoThread /\ unborn = << >>
  BY <1>1, ActiveThread
<1>3. call[running[c]][1] = "exit"
  <2>1. "exit" \in CallName \ {"none"} /\ Begins(c, {"exit"})
    BY DEF CallName, Exit
  <2> QED BY ONLY <2>1, KInv, c \in CPU, TaskIsCall
<1>4. /\ jobs \in Seq(Thread) /\ Distinct(jobs) /\ ReadySet = Elements(jobs)
      /\ \A t \in ReadySet : ~kill_flag[t]
      /\ timer \in [CPU -> BOOLEAN]
  BY DEF KInv, KTypes, Threads, Dispatch, ReadySet, Elements
<1>5. CASE jobs # << >> /\ jobs' = Tail(jobs) /\ SetActive(c, Head(jobs))
  <2>1. UNCHANGED <<unborn, kill_flag, timer, ipi>>
    BY DEF Exit
  <2> QED BY <1>2, <1>3, <1>4, <1>5, <2>1, DispatchStep
<1>6. CASE jobs = << >> /\ jobs' = << >> /\ TaskDies(c)
  BY <1>2, <1>6, DieStep DEF Exit
<1> QED BY <1>5, <1>6 DEF Exit

\* The boot code of a CPU dispatches its first thread.
LEMMA ScheduleInvariant ==
  ASSUME KInv, NEW c \in CPU, Schedule(c) PROVE KInv'
<1>1. /\ AtLabel(c, "body") /\ next[c] = NoThread /\ running[c] \in Context
      /\ call[running[c]][1] = "schedule"
  <2>1. "schedule" \in CallName \ {"none"} /\ Begins(c, {"schedule"})
    BY DEF CallName, Schedule
  <2> QED BY ONLY <2>1, KInv, c \in CPU, TaskIsCall
<1>2. unborn = << >> /\ running[c] \notin Thread
  BY <1>1, KernelAssumption DEF KInv, CallsFit
<1>3. /\ jobs \in Seq(Thread) /\ Distinct(jobs) /\ ReadySet = Elements(jobs)
      /\ \A t \in ReadySet : ~kill_flag[t]
      /\ timer \in [CPU -> BOOLEAN]
  BY DEF KInv, KTypes, Threads, Dispatch, ReadySet, Elements
<1>4. CASE /\ jobs # << >> /\ jobs' = Tail(jobs) /\ SetActive(c, Head(jobs))
           /\ timer' = [timer EXCEPT ![c] = TRUE]
  <2>1. UNCHANGED <<unborn, kill_flag, ipi>>
    BY DEF Schedule
  <2>2. timer' \in [CPU -> BOOLEAN] /\ \A d \in CPU \ {c} : timer'[d] = timer[d]
    BY <1>3, <1>4
  <2> QED BY <1>1, <1>2, <1>3, <1>4, <2>1, <2>2, DispatchStep
<1>5. CASE TaskDies(c) /\ UNCHANGED <<jobs, timer>>
  BY <1>1, <1>5, DieStep DEF Schedule
<1> QED BY <1>4, <1>5 DEF Schedule

\* The CPU goes on where the thread that it has dispatched left the kernel.
LEMMA SwitchToNextInvariant ==
  ASSUME KInv, NEW c \in CPU, SwitchToNext(c)
  PROVE  /\ KInv'
         /\ next[c] # running[c] => Switch(c, next[c])
         /\ next[c] = running[c] => Body(c)
<1> USE DEF KInv
<1> DEFINE x == running[c]
           y == next[c]
<1>1. /\ AtLabel(c, "body") /\ y # NoThread /\ y \in Thread /\ y \in Context
      /\ x \in Context /\ x \in Thread \cup {c} /\ unborn = << >>
  BY KernelAssumption DEF SwitchToNext, KTypes, Threads, Dispatch, Registration, IInv, TypeOK
<1>2. /\ y \notin ReadySet /\ ~kill_flag[y]
      /\ \A d \in CPU \ {c} : running[d] # y
  BY <1>1 DEF Threads, Dispatch
<1>3. \A d \in CPU \ {c} : next[d] = NoThread /\ running[d] \notin ReadySet
  BY <1>1, OthersWait
<1>4. UNCHANGED <<unborn, jobs, life, kill_flag, timer, ipi>>
  BY DEF SwitchToNext
<1>5. /\ next' \in [CPU -> Thread \cup {NoThread}] /\ \A d \in CPU : next'[d] = NoThread
  BY <1>3 DEF SwitchToNext, KTypes
<1>6. y # x => Switch(c, y) /\ EndCall(x)
  BY <1>2 DEF SwitchToNext, Switch
<1>7. y = x => TaskReturns(c, ints[c]) /\ ints[c] \in BOOLEAN
  BY DEF SwitchToNext, IInv, TypeOK
<1>8. y = x => Body(c)
  BY <1>1, <1>7, TaskReturnsKeeps
<1>9. /\ IInv' /\ UNCHANGED <<queues, stack, handler>>
      /\ running'[c] = y /\ \A d \in CPU \ {c} : running'[d] = running[d]
      /\ \A d \in CPU : item'[d] \in {item[d], NoGate}
      /\ call' \in [Context -> CallName \X (Thread \cup {NoThread})]
      /\ \A z \in Context : /\ call'[z] \in {call[z], NoCall}
                            /\ call[z][1] = "exit" => call'[z] = call[z]
  <2>1. CASE y # x
    <3>1. IInv' /\ UNCHANGED <<queues, stack, handler>>
      BY <1>1, <1>6, <2>1, SwitchInvariant DEF Switch, SwitchTo, irqVars
    <3>2. running'[c] = y /\ \A d \in CPU \ {c} : running'[d] = running[d]
      BY <1>6, <2>1 DEF Switch, SwitchTo, IInv, TypeOK
    <3>3. \A d \in CPU : item'[d] \in {item[d], NoGate}
      BY <1>6, <2>1, ContextAssumption DEF Switch, SwitchTo, IInv, TypeOK
    <3> QED BY <1>1, <1>6, <2>1, <3>1, <3>2, <3>3, EndCallKeeps
  <2>2. CASE y = x
    <3>1. TaskReturns(c, ints[c]) /\ ints[c] \in BOOLEAN
      BY <1>7, <2>2
    <3> QED BY <1>1, <2>2, <3>1, TaskReturnsKeeps
  <2> QED BY <2>1, <2>2
<1>10. life[c] = y
  BY <1>1 DEF Threads, Dispatch, LifeIsRunning
<1> HIDE DEF x, y
<1>11. KTypes'
  BY <1>4, <1>5, <1>9 DEF KTypes
<1>12. CallsFit'
  BY <1>4, <1>9, CallsFrame
<1>13. Registration'
  <2>1. unborn' = << >>
    BY <1>1, <1>4
  <2> QED BY <2>1, SeqDomain DEF Registration, Distinct, Elements
<1>14. Dispatch'
  <2>1. ReadySet' = ReadySet
    BY <1>4 DEF ReadySet
  <2>2. LifeIsRunning'
    <3>1. \A d \in CPU \ {c} : /\ life'[d] = life[d] /\ next'[d] = next[d]
                               /\ running'[d] = running[d]
      BY <1>3, <1>4, <1>5, <1>9
    <3>2. life'[c] = y /\ running'[c] = y /\ next'[c] = NoThread
      BY <1>4, <1>5, <1>9, <1>10
    <3> QED BY <1>1, <3>1, <3>2 DEF Threads, Dispatch, LifeIsRunning
  <2>3. \A d \in CPU : running'[d] \in Thread \cup {d} /\ running'[d] \notin ReadySet
    BY <1>1, <1>2, <1>3, <1>9 DEF Threads, Dispatch
  <2> QED BY <1>4, <1>5, <2>1, <2>2, <2>3 DEF Threads, Dispatch, Distinct
<1>15. LeavesNobody'
  BY <1>5 DEF LeavesNobody
<1>16. NoThreadLost'
  <2>1. ASSUME NEW t \in Thread
        PROVE  kill_flag[t] \/ call[t][1] = "exit" \/ t \in ReadySet \cup Running'
    <3>1. Running' = (Running \ {x}) \cup {y}
      BY <1>9 DEF Running, x, IInv, Placement
    <3>2. t = x => t \in ReadySet \cup {y} \/ kill_flag[t] \/ call[t][1] = "exit"
      BY <1>1 DEF Threads, LeavesNobody, x, y
    <3>3. \/ kill_flag[t] \/ call[t][1] = "exit" \/ t \in ReadySet \cup Running \cup {y}
      BY <1>1, <1>3, KernelAssumption DEF Threads, NoThreadLost, y
    <3> QED BY <3>1, <3>2, <3>3
  <2>2. ReadySet' = ReadySet /\ Thread \subseteq Context
    BY <1>4, KernelAssumption DEF ReadySet
  <2> QED BY <1>4, <1>9, <2>1, <2>2 DEF NoThreadLost
<1>17. BootQuiet'
  <2>1. NoGate \notin Asking
    BY KernelAssumption DEF Asking
  <2> QED BY <1>4, <1>9, <2>1, QuietFrame
<1> QED BY <1>6, <1>8, <1>9, <1>11, <1>12, <1>13, <1>14, <1>15, <1>16, <1>17 DEF Threads, x, y

-----------------------------------------------------------------------------
(* The theorems                                                            *)

LEMMA KNextInvariant == KInv /\ [KNext]_allVars => KInv'
<1> SUFFICES ASSUME KInv, [KNext]_allVars PROVE KInv'
  OBVIOUS
<1>1. ASSUME NEW c \in CPU, \E g \in Gate : KInterrupt(c, g) PROVE KInv'
  BY <1>1, KInterruptInvariant
<1>2. ASSUME NEW c \in CPU, Work(c) PROVE KInv'
  BY <1>2, KEnterInvariant, GuardStepInvariant, OutputInvariant, ReadyInvariant,
     KillInvariant, ResumeInvariant, SpareInvariant, ExitInvariant, ScheduleInvariant,
     SwitchToNextInvariant
  DEF Work
<1>3. CASE UNCHANGED allVars
  <2>1. IInv'
    BY <1>3, NextInvariant DEF allVars, KInv
  <2>2. UNCHANGED vars /\ UNCHANGED kernelVars
    BY <1>3 DEF allVars
  <2>3. /\ UNCHANGED <<running, pc, queues, stack, item, handler>>
        /\ UNCHANGED <<unborn, jobs, life, kill_flag, call, next, timer, ipi>>
    BY <2>2 DEF vars, kernelVars, irqVars, ctxVars
  <2>4. KTypes' /\ CallsFit'
    BY <2>3 DEF KInv, KTypes, CallsFit
  <2>5. Threads'
    BY <2>3, ThreadsFrame DEF KInv, Threads, Dispatch
  <2>6. BootQuiet'
    BY <2>3, QuietFrame DEF KInv
  <2> QED BY <2>1, <2>4, <2>5, <2>6 DEF KInv
<1> QED BY <1>1, <1>2, <1>3 DEF KNext

\* A task that returns, and one that starts to change the thread, is a body.
LEMMA TaskIsBody ==
  ASSUME KInv, NEW c \in CPU,
         Output(c) \/ Ready(c) \/ Kill(c) \/ Spare(c)
  PROVE  Body(c) /\ running' = running
<1>1. AtLabel(c, "body") /\ \E b \in BOOLEAN : TaskReturns(c, b)
  BY DEF Output, Ready, Kill, Spare, Begins, KInv, IInv, TypeOK
<1> QED BY <1>1, TaskReturnsKeeps

LEMMA ChangeIsBodyOrDeath ==
  ASSUME NEW c \in CPU, Resume(c) \/ Exit(c) \/ Schedule(c)
  PROVE  (Body(c) \/ Die(c)) /\ running' = running
<1>1. AtLabel(c, "body") /\ (TaskDies(c) \/ \E t : SetActive(c, t))
  BY DEF Resume, Exit, Schedule, Begins
<1>2. CASE TaskDies(c)
  BY <1>2 DEF TaskDies, Die
<1>3. ASSUME NEW t, SetActive(c, t) PROVE Body(c) /\ running' = running
  BY <1>1, <1>3 DEF SetActive, Body, SetInts, ctxVars, irqVars
<1> QED BY <1>1, <1>2, <1>3

\* A CPU changes its context by the switch only.
LEMMA OnlySwitchMoves ==
  ASSUME KInv, NEW c \in CPU, Work(c)
  PROVE  SwitchToNext(c) \/ running' = running
<1>1. KEnter(c) => running' = running
  BY DEF KEnter, Enter
<1>2. GuardStep(c) => running' = running
  BY DEF GuardStep, Handler, RelayNoEpilogue, RelayDefer, RelayDirect, DropQueued, SetQueued,
     Enqueue, LockRequest, LockGrant, Dequeue, SetDequeued, Leave, ctxVars
<1> QED BY <1>1, <1>2, TaskIsBody, ChangeIsBodyOrDeath DEF Work

LEMMA WorkIsStep ==
  ASSUME KInv, NEW c \in CPU, Work(c)
  PROVE  Step(c)
<1>1. CASE KEnter(c) \/ GuardStep(c)
  BY <1>1 DEF KEnter, GuardStep, Step
<1>2. CASE Output(c) \/ Ready(c) \/ Kill(c) \/ Spare(c)
  BY <1>2, TaskIsBody DEF Step
<1>3. CASE Resume(c) \/ Exit(c) \/ Schedule(c)
  BY <1>3, ChangeIsBodyOrDeath DEF Step
<1>4. CASE SwitchToNext(c)
  <2>1. next[c] \in Context
    BY <1>4, KernelAssumption DEF SwitchToNext, KInv, KTypes
  <2> QED BY <1>4, <2>1, SwitchToNextInvariant DEF Step
<1> QED BY <1>1, <1>2, <1>3, <1>4 DEF Work

LEMMA KNextIsNext == KInv /\ [KNext]_allVars => [Next]_vars
<1> SUFFICES ASSUME KInv, [KNext]_allVars PROVE [Next]_vars
  OBVIOUS
<1>1. ASSUME NEW c \in CPU, NEW g \in Gate, KInterrupt(c, g) PROVE Next
  BY <1>1 DEF KInterrupt, Next, Step
<1>2. ASSUME NEW c \in CPU, Work(c) PROVE Next
  BY <1>2, WorkIsStep DEF Next
<1>3. CASE UNCHANGED allVars
  BY <1>3 DEF allVars
<1> QED BY <1>1, <1>2, <1>3 DEF KNext

\* The inductive invariant holds throughout.
THEOREM KernelInvariant == KSpec => []KInv
<1> QED BY KInitInvariant, KNextInvariant, PTL DEF KSpec

\* Every behaviour of the kernel is one of the guard, so that whatever is shown
\* of the guard for arbitrary bodies, switches and halts holds in the kernel: it
\* switches to no context that another CPU executes (toc.asm, dispatcher.cc
\* 33-51), and only inside E1/2 (guard.cc, guarded_scheduler.h 24-44).
THEOREM KernelImplementsGuard == KSpec => ImplementsGuard
<1>1. KInit => Init
  BY DEF KInit
<1> QED BY <1>1, KernelInvariant, KNextIsNext, PTL DEF KSpec, ImplementsGuard, Spec

\* Dispatcher::active() answers what the CPU executes, or is about to switch to
\* (dispatcher.cc 14-31): what the other CPUs read there in kill() is right.
THEOREM LifeCorrect == KSpec => []LifeIsRunning
<1>1. KInv => LifeIsRunning
  BY DEF KInv, Threads, Dispatch
<1> QED BY <1>1, KernelInvariant, PTL

\* resume(), exit() and the epilogues of the timer and of the assassin never find
\* a null pointer for the active thread (scheduler.cc 61-65, assassin.cc 11-12):
\* boot code makes no such call, and neither source interrupts it.
THEOREM ActiveAlwaysKnown == KSpec => []ActiveKnown
<1>1. KInv => ActiveKnown
  <2> SUFFICES ASSUME KInv, NEW c \in CPU, Begins(c, {watch, assassin, "resume", "exit"})
               PROVE  life[c] # NoThread
    BY DEF ActiveKnown
  <2>1. running[c] \in Thread /\ life[c] = running[c]
    BY ONLY KInv, c \in CPU, Begins(c, {watch, assassin, "resume", "exit"}), ActiveThread
  <2> QED BY <2>1, KernelAssumption
<1> QED BY <1>1, KernelInvariant, PTL

\* A thread is ready once at most, and not while it is executed, but for the one
\* whose CPU is inside E1/2 about to leave its stack (scheduler.cc 31-72).
THEOREM ReadyOnce == KSpec => []ReadyNotRunning
<1>1. KInv => ReadyNotRunning
  <2> SUFFICES ASSUME KInv PROVE ReadyNotRunning
    OBVIOUS
  <2> USE DEF KInv, Threads, Dispatch
  <2>1. \A c \in CPU : running[c] \in ReadySet => Inside(c) /\ next[c] # NoThread
    BY DEF Inside, InsideLabels, LockLabels, KernelLabels
  <2>2. \A c \in CPU : next[c] \notin ReadySet
    <3>1. ReadySet \subseteq Thread
      BY SeqDomain DEF ReadySet, KTypes
    <3> QED BY <3>1, KernelAssumption
  <2> QED BY <2>1, <2>2 DEF ReadyNotRunning, Distinct
<1> QED BY <1>1, KernelInvariant, PTL

\* No thread that was registered, was not killed and did not exit is ever lost:
\* it is ready, executed, or about to be, whatever interrupts and the other CPUs
\* do between setActive() and the switch (scheduler.cc 17-72, dispatcher.cc 41-51).
THEOREM ThreadsNotLost == KSpec => []NoThreadLost
<1>1. KInv => NoThreadLost
  BY DEF KInv, Threads
<1> QED BY <1>1, KernelInvariant, PTL

\* A CPU never starts to execute a thread that another one executes, nor one that
\* was killed (scheduler.h 80-87, scheduler.cc 40-72).
THEOREM KilledNeverDispatched == KSpec => NoSecondLife
<1>1. KInv /\ [KNext]_allVars =>
        [\A c \in CPU : running'[c] # running[c]
            => running'[c] \notin Running /\ ~kill_flag[running'[c]]]_allVars
  <2> SUFFICES ASSUME KInv, KNext, NEW d \in CPU, running'[d] # running[d]
               PROVE  running'[d] \notin Running /\ ~kill_flag[running'[d]]
    OBVIOUS
  <2>1. PICK c \in CPU : (\E g \in Gate : KInterrupt(c, g)) \/ Work(c)
    BY DEF KNext
  <2>2. ASSUME NEW g \in Gate, KInterrupt(c, g) PROVE FALSE
    BY <2>2 DEF KInterrupt, Interrupt, ctxVars
  <2>3. SwitchToNext(c)
    BY <2>1, <2>2, OnlySwitchMoves
  <2>4. Switch(c, next[c])
    <3>1. next[c] = running[c] => running' = running
      BY <2>3 DEF SwitchToNext, TaskReturns
    <3> QED BY <2>3, <3>1, SwitchToNextInvariant
  <2>5. d = c /\ running'[c] = next[c]
    BY <2>4 DEF Switch, SwitchTo, KInv, IInv, TypeOK
  <2>6. ~kill_flag[next[c]]
    BY <2>3 DEF SwitchToNext, KInv, Threads, Dispatch
  <2> QED BY <2>4, <2>5, <2>6 DEF Switch, Running
<1> QED BY <1>1, KernelInvariant, PTL DEF KSpec, NoSecondLife
=============================================================================

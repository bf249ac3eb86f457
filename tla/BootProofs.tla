----------------------------- MODULE BootProofs -----------------------------
(***************************************************************************)
(* The start of any number of CPUs: what the mailbox and the barrier       *)
(* guarantee.                                                              *)
(***************************************************************************)
EXTENDS Boot, FiniteSetTheorems, TLAPS

Labels == {"off", "startup_ap"} \union InBoot \union InSetup \union InMainAP

\* Who is where, whatever has failed.
Control ==
  /\ online <= called
  /\ pc[0] \in InBoot \union InMainAP
  /\ pc[0] \in InBoot \ {"boot"} => called < Count
  /\ pc[0] \notin InBoot => called = Count
  /\ \A a \in AP : /\ pc[a] \notin InBoot
                   /\ a \in sipi => pc[a] = "off"
                   /\ a >= called => answer[a] = "none"

\* The AP that is being called, as long as no call has failed.
Calling ==
  \/ pc[0] = "boot" /\ callout = Nobody /\ pc[called] = "off" /\ called \notin sipi
  \/ /\ pc[0] = "reset" /\ ap_stack = called /\ callout = Nobody
     /\ pc[called] = "off" /\ called \notin sipi
  \/ /\ pc[0] \in {"startup", "poll"} /\ ap_stack = called /\ callout = Nobody
     /\ pc[called] \in {"off", "startup_ap", "callin"}
     /\ pc[0] = "poll" /\ pc[called] = "off" => called \in sipi
  \/ /\ pc[0] = "wait" /\ ap_stack = called /\ callout = called
     /\ pc[called] \in {"startup_ap"} \union InSetup
  \/ pc[0] = "wait" /\ callout = Nobody /\ pc[called] \in InMainAP

\* One after the other: those before the called one are up, those after are off.
InOrder ==
  /\ online = called
  /\ \A a \in AP : /\ a < called => answer[a] = "true" /\ pc[a] \in InMainAP
                   /\ a > called => pc[a] = "off" /\ a \notin sipi
  /\ called < Count => Calling

IInv == TypeOK /\ Control /\ (NoFailure => InOrder) /\ OwnStackAndNumber

LEMMA InitInvariant == Init => IInv
<1> SUFFICES ASSUME Init PROVE IInv
  OBVIOUS
<1> USE SizeAssumption DEF Init, CPU, AP, Nobody, Free, NoId
<1>1. TypeOK
  BY DEF TypeOK, InBoot, InSetup, InMainAP
<1>2. Control
  BY DEF Control, InBoot, InMainAP
<1>3. InOrder
  BY DEF InOrder, Calling
<1>4. OwnStackAndNumber
  BY DEF OwnStackAndNumber, InSetup, InMainAP
<1> QED BY <1>1, <1>2, <1>3, <1>4 DEF IInv

\* The failure of a call is never taken back.
LEMMA FailureStays ==
  ASSUME IInv, NEW r \in {"true", "false"}, called < Count,
         answer' = [answer EXCEPT ![called] = r]
  PROVE  NoFailure' <=> NoFailure /\ r = "true"
<1>1. called \in AP /\ answer[called] = "none"
  BY SizeAssumption DEF IInv, TypeOK, Control, AP, CPU
<1> QED BY <1>1 DEF IInv, TypeOK, NoFailure

LEMMA BootInvariant ==
  ASSUME IInv, Boot
  PROVE  IInv'
<1> USE SizeAssumption DEF IInv, TypeOK, Control, CPU, AP, Nobody, Free, NoId,
                           Goto, InBoot, InSetup, InMainAP
<1>1. CASE EndOfLoop
  BY <1>1 DEF EndOfLoop, mailbox, bsp, names, barrier, NoFailure, InOrder, Calling, OwnStackAndNumber
<1>2. CASE NameStack
  BY <1>2 DEF NameStack, bsp, names, barrier, NoFailure, InOrder, Calling, OwnStackAndNumber
<1>3. CASE Reset
  BY <1>3 DEF Reset, names, barrier, NoFailure, InOrder, Calling, OwnStackAndNumber
<1>4. CASE SendStartup
  BY <1>4 DEF SendStartup, mailbox, bsp, names, barrier, NoFailure, InOrder, Calling, OwnStackAndNumber
<1>5. CASE Delivered
  BY <1>5 DEF Delivered, bsp, names, barrier, NoFailure, InOrder, Calling, OwnStackAndNumber
<1>6. CASE NotDelivered
  <2>1. CASE try = 0
    BY <1>6, <2>1 DEF NotDelivered, mailbox, names, barrier, NoFailure, InOrder, Calling, OwnStackAndNumber
  <2>2. CASE try = 1
    <3>1. answer' = [answer EXCEPT ![called] = "false"] /\ called < Count /\ ~NoFailure'
      BY <1>6, <2>2, FailureStays DEF NotDelivered, Answer
    <3>2. /\ called' = called + 1 /\ pc' = [pc EXCEPT ![0] = "boot"] /\ try' = try
          /\ UNCHANGED <<mailbox, sipi, online, names, barrier>>
      BY <1>6, <2>2 DEF NotDelivered, Answer
    <3>3. TypeOK'
      BY <3>1, <3>2 DEF mailbox, names, barrier
    <3>4. Control'
      BY <3>1, <3>2
    <3> QED BY <3>1, <3>3, <3>4 DEF OwnStackAndNumber
  <2> QED BY <2>1, <2>2
<1>7. CASE GotCallin
  <2>1. answer' = [answer EXCEPT ![called] = "true"] /\ called < Count /\ (NoFailure' <=> NoFailure)
    BY <1>7, FailureStays DEF GotCallin, Answer
  <2>2. ASSUME NoFailure'
        PROVE  InOrder' /\ online' \in 1..Count /\ pc[called] \in InMainAP
    <3>1. InOrder /\ pc[called] \in InMainAP /\ called \in AP
      BY <1>7, <2>1, <2>2 DEF GotCallin, InOrder, Calling
    <3>2. /\ online' = called + 1 /\ called' = called + 1 /\ callout' = Nobody
          /\ pc'[0] = "boot" /\ sipi' = sipi /\ \A a \in AP : pc'[a] = pc[a]
      BY <1>7, <3>1 DEF GotCallin, Answer, mailbox, InOrder
    <3>3. Calling' \/ called' = Count
      BY <2>1, <3>1, <3>2 DEF Calling, InOrder
    <3> QED BY <2>1, <3>1, <3>2, <3>3 DEF InOrder
  <2>3. online < Count
    BY <2>1
  <2>4. TypeOK' /\ Control'
    BY <1>7, <2>1, <2>3 DEF GotCallin, Answer, mailbox, names, barrier
  <2>5. OwnStackAndNumber'
    BY <1>7, <2>1 DEF GotCallin, Answer, mailbox, names, OwnStackAndNumber
  <2> QED BY <2>2, <2>4, <2>5
<1>8. CASE NoCallin
  <2>1. answer' = [answer EXCEPT ![called] = "false"] /\ called < Count /\ ~NoFailure'
    BY <1>8, FailureStays DEF NoCallin, Answer
  <2>2. TypeOK' /\ Control'
    BY <1>8, <2>1 DEF NoCallin, Answer, mailbox, names, barrier
  <2> QED BY <2>1, <2>2 DEF OwnStackAndNumber
<1> QED BY <1>1, <1>2, <1>3, <1>4, <1>5, <1>6, <1>7, <1>8 DEF Boot

\* Only the AP that is called moves on its way to main_ap(), as long as no call
\* has failed.
LEMMA OnlyCalled ==
  ASSUME IInv, NoFailure, NEW a \in AP,
         a \in sipi \/ pc[a] \in {"startup_ap"} \union InSetup
  PROVE  a = called /\ called < Count /\ InOrder /\ Calling
<1>1. InOrder /\ a \in 1..Count - 1 /\ called \in 1..Count
  BY SizeAssumption DEF IInv, TypeOK, CPU, AP
<1>2. a \in sipi => pc[a] = "off"
  BY DEF IInv, Control
<1>3. ~(a < called)
  BY <1>1, <1>2 DEF InOrder, InSetup, InMainAP
<1>4. ~(a > called)
  BY <1>1 DEF InOrder, InSetup
<1> QED BY <1>1, <1>3, <1>4, SizeAssumption DEF InOrder

LEMMA CallInInvariant ==
  ASSUME IInv, NEW a \in AP, CallIn(a)
  PROVE  IInv'
<1> USE SizeAssumption DEF IInv, TypeOK, Control, CPU, AP, Nobody, Free, NoId,
                           Goto, InBoot, InSetup, InMainAP
<1>1. NoFailure' <=> NoFailure
  BY DEF CallIn, Accept, TakeStack, SeeCall, ReadNumber, Register, EmptyMailbox, bsp, NoFailure
<1>2. ASSUME NoFailure
      PROVE  a = called /\ called < Count /\ InOrder /\ Calling
  BY <1>2, OnlyCalled DEF CallIn, Accept, TakeStack, SeeCall, ReadNumber, Register, EmptyMailbox
<1>3. CASE Accept(a)
  BY <1>1, <1>2, <1>3 DEF Accept, mailbox, bsp, names, barrier, InOrder, Calling, OwnStackAndNumber
<1>4. CASE TakeStack(a)
  BY <1>1, <1>2, <1>4 DEF TakeStack, mailbox, bsp, barrier, InOrder, Calling, OwnStackAndNumber
<1>5. CASE SeeCall(a)
  BY <1>1, <1>2, <1>5 DEF SeeCall, mailbox, bsp, names, barrier, InOrder, Calling, OwnStackAndNumber
<1>6. CASE ReadNumber(a)
  BY <1>1, <1>2, <1>6 DEF ReadNumber, mailbox, bsp, barrier, InOrder, Calling, OwnStackAndNumber
<1>7. CASE Register(a)
  BY <1>1, <1>2, <1>7 DEF Register, mailbox, bsp, barrier, InOrder, Calling, OwnStackAndNumber
<1>8. CASE EmptyMailbox(a)
  BY <1>1, <1>2, <1>8 DEF EmptyMailbox, bsp, names, barrier, InOrder, Calling, OwnStackAndNumber
<1> QED BY <1>3, <1>4, <1>5, <1>6, <1>7, <1>8 DEF CallIn

(***************************************************************************)
(* The counter of the barrier is the number of CPUs that have counted      *)
(* themselves: the lock makes i++ atomic.                                  *)
(***************************************************************************)
Arrived == {c \in CPU : pc[c] \in {"unlock", "wait_all", "schedule"}}

Counted ==
  /\ i = Cardinality(Arrived)
  /\ \A c \in CPU : /\ pc[c] \in {"read", "write", "unlock"} <=> holder = c
                    /\ pc[c] = "write" => copy[c] = i
  /\ \A c \in CPU : pc[c] = "schedule" => Cardinality(Arrived) >= BarrierSize

MeetInv == IInv /\ Counted

LEMMA ArrivedFinite ==
  /\ IsFiniteSet(Arrived) /\ Cardinality(Arrived) \in 0..Count
  /\ Cardinality(Arrived) = Count => Arrived = CPU
<1>1. IsFiniteSet(CPU) /\ Cardinality(CPU) = Count
  BY FS_Interval, SizeAssumption DEF CPU
<1>2. Arrived \subseteq CPU
  BY DEF Arrived
<1> QED BY <1>1, <1>2, FS_Subset, FS_CardinalityType, SizeAssumption

LEMMA MeetControl ==
  ASSUME IInv, NEW c \in CPU, Meet(c), i' \in 0..Count
  PROVE  IInv'
<1> USE SizeAssumption DEF IInv, TypeOK, CPU, AP, Nobody, Free, NoId, others,
                           mailbox, bsp, names, barrier, Goto
<1>1. pc[c] \in InMainAP /\ \E label \in InMainAP : pc' = [pc EXCEPT ![c] = label]
  BY DEF Meet, Lock, ReadCounter, WriteCounter, Unlock, Pass, InMainAP
<1>2. UNCHANGED <<callout, ap_stack, sipi, online, called, try, answer, stack, id, cpuID>>
  BY DEF Meet, Lock, ReadCounter, WriteCounter, Unlock, Pass
<1>3. holder' \in CPU \union {Free} /\ copy' \in [CPU -> 0..Count]
  <2>1. holder' \in {holder, c, Free}
    BY DEF Meet, Lock, ReadCounter, WriteCounter, Unlock, Pass
  <2>2. copy' = copy \/ copy' = [copy EXCEPT ![c] = i] \/ copy' = [copy EXCEPT ![c] = 0]
    BY DEF Meet, Lock, ReadCounter, WriteCounter, Unlock, Pass
  <2> QED BY <2>1, <2>2
<1>4. TypeOK'
  <2>1. pc' \in [CPU -> {"off", "startup_ap"} \cup InBoot \cup InSetup \cup InMainAP]
    BY <1>1
  <2> QED BY <1>2, <1>3, <2>1
<1>5. pc'[c] \in InMainAP /\ \A d \in CPU : d # c => pc'[d] = pc[d]
  BY <1>1
<1>6. Control'
  BY <1>1, <1>2, <1>5 DEF Control, InBoot, InMainAP
<1>7. NoFailure' <=> NoFailure
  BY <1>2 DEF NoFailure
<1>8. ASSUME NoFailure
      PROVE  InOrder'
  <2>1. InOrder /\ called \in 1..Count
    BY <1>8
  <2>2. \A a \in AP : /\ a < called => answer'[a] = "true" /\ pc'[a] \in InMainAP
                      /\ a > called => pc'[a] = "off" /\ a \notin sipi'
    BY <1>1, <1>2, <1>5, <2>1 DEF InOrder, InMainAP
  <2>3. ASSUME called < Count
        PROVE  Calling'
    <3>1. Calling /\ called \in CPU /\ c # 0 /\ pc'[0] = pc[0]
      BY <1>1, <1>5, <2>1, <2>3 DEF InOrder, Control, InMainAP, InBoot
    <3>2. CASE c # called
      BY <1>2, <1>5, <3>1, <3>2 DEF Calling
    <3>3. CASE c = called
      BY <1>1, <1>2, <1>5, <3>1, <3>3 DEF Calling, InMainAP, InSetup
    <3> QED BY <3>2, <3>3
  <2>4. online' = called' /\ called' = called
    BY <1>2, <2>1 DEF InOrder
  <2>5. \A a \in AP : /\ a < called' => answer'[a] = "true" /\ pc'[a] \in InMainAP
                      /\ a > called' => pc'[a] = "off" /\ a \notin sipi'
    BY <2>2, <2>4
  <2>6. called' < Count => Calling'
    BY <2>3, <2>4
  <2> QED BY <2>4, <2>5, <2>6 DEF InOrder
<1>9. OwnStackAndNumber'
  BY <1>1, <1>2, <1>5, <1>7 DEF OwnStackAndNumber, InMainAP, InSetup
<1> QED BY <1>4, <1>6, <1>7, <1>8, <1>9

\* A step that leaves a CPU outside the barrier, or inside, leaves Counted.
LEMMA CountedKept ==
  ASSUME MeetInv, UNCHANGED barrier,
         \A c \in CPU : pc'[c] # pc[c] =>
           {pc[c], pc'[c]} \intersect {"read", "write", "unlock", "wait_all", "schedule"} = {}
  PROVE  Counted'
<1>1. Arrived' = Arrived
  BY DEF Arrived
<1> QED BY <1>1 DEF MeetInv, Counted, barrier

LEMMA MeetInvariant ==
  ASSUME MeetInv, NEW c \in CPU, Meet(c)
  PROVE  MeetInv'
<1>a. /\ IsFiniteSet(Arrived) /\ Cardinality(Arrived) \in 0..Count
      /\ Cardinality(Arrived) = Count => Arrived = CPU
  BY ArrivedFinite
<1>b. /\ c # Free /\ pc \in [CPU -> Labels] /\ copy \in [CPU -> 0..Count]
      /\ i = Cardinality(Arrived)
      /\ \A d \in CPU : pc[d] \in {"read", "write", "unlock"} <=> holder = d
      /\ \A d \in CPU : pc[d] = "write" => copy[d] = i
      /\ \A d \in CPU : pc[d] = "schedule" => Cardinality(Arrived) >= BarrierSize
  BY SizeAssumption DEF MeetInv, IInv, TypeOK, Counted, CPU, Free, Labels
<1> SUFFICES i' \in 0..Count /\ Counted'
  BY MeetControl DEF MeetInv
<1>1. CASE Lock(c)
  <2>1. Arrived' = Arrived /\ i' = i /\ copy' = copy
    BY <1>1, <1>b DEF Lock, Goto, Arrived
  <2>2. /\ holder = Free /\ holder' = c /\ pc[c] = "lock"
        /\ \A d \in CPU : pc'[d] = IF d = c THEN "read" ELSE pc[d]
    BY <1>1, <1>b DEF Lock, Goto
  <2>3. \A d \in CPU : d # Free
    BY SizeAssumption DEF CPU, Free
  <2>4. \A d \in CPU : pc'[d] \in {"read", "write", "unlock"} <=> holder' = d
    BY <1>b, <2>2, <2>3
  <2>5. \A d \in CPU : pc'[d] \in {"write", "schedule"} => pc[d] = pc'[d]
    BY <2>2
  <2> QED BY <1>a, <1>b, <2>1, <2>4, <2>5 DEF Counted
<1>2. CASE ReadCounter(c)
  <2>1. Arrived' = Arrived /\ i' = i
    BY <1>2, <1>b DEF ReadCounter, Goto, Arrived
  <2> QED BY <1>2, <1>a, <1>b, <2>1 DEF ReadCounter, Goto, Counted
<1>3. CASE WriteCounter(c)
  <2>1. Arrived' = Arrived \union {c} /\ c \notin Arrived
    BY <1>3, <1>b DEF WriteCounter, Goto, Arrived
  <2>2. Cardinality(Arrived') = Cardinality(Arrived) + 1
    BY <1>a, <2>1, FS_AddElement
  <2>3. i' = Cardinality(Arrived') /\ i' \in 0..Count
    BY <1>3, <1>a, <1>b, <2>1, <2>2, SizeAssumption DEF WriteCounter
  <2>4. \A d \in CPU : pc'[d] = "write" => pc[d] = "write" /\ d # c
    BY <1>3, <1>b DEF WriteCounter, Goto
  <2>5. \A d \in CPU : pc'[d] # "write"
    BY <1>3, <1>b, <2>4 DEF WriteCounter
  <2>6. \A d \in CPU : pc'[d] \in {"read", "write", "unlock"} <=> holder' = d
    BY <1>3, <1>b DEF WriteCounter, Goto
  <2>7. \A d \in CPU : pc'[d] = "schedule" => Cardinality(Arrived') >= BarrierSize
    BY <1>3, <1>a, <1>b, <2>2, SizeAssumption DEF WriteCounter, Goto
  <2> QED BY <2>3, <2>5, <2>6, <2>7 DEF Counted
<1>4. CASE Unlock(c)
  <2>1. Arrived' = Arrived /\ i' = i /\ copy' = copy
    BY <1>4, <1>b DEF Unlock, Goto, Arrived
  <2>2. \A d \in CPU : d # Free
    BY SizeAssumption DEF CPU, Free
  <2> QED BY <1>4, <1>a, <1>b, <2>1, <2>2 DEF Unlock, Goto, Counted
<1>5. CASE Pass(c)
  <2>1. Arrived' = Arrived /\ i' = i /\ copy' = copy /\ holder' = holder
    BY <1>5, <1>b DEF Pass, Goto, Arrived, barrier
  <2>2. i = BarrierSize /\ \A d \in CPU : pc'[d] = IF d = c THEN "schedule" ELSE pc[d]
    BY <1>5, <1>b DEF Pass, Goto
  <2>3. Cardinality(Arrived') >= BarrierSize
    BY <1>b, <2>1, <2>2, SizeAssumption
  <2>4. pc[c] = "wait_all"
    BY <1>5 DEF Pass
  <2> QED BY <1>a, <1>b, <2>1, <2>2, <2>3, <2>4 DEF Counted
<1> QED BY <1>1, <1>2, <1>3, <1>4, <1>5 DEF Meet

LEMMA StepInvariant == MeetInv /\ [Next]_vars => MeetInv'
<1> SUFFICES ASSUME MeetInv, [Next]_vars PROVE MeetInv'
  OBVIOUS
<1>1. CASE Boot
  <2>1. IInv'
    BY <1>1, BootInvariant DEF MeetInv
  <2>2. CASE EndOfLoop
    <3>1. UNCHANGED barrier /\ pc'[0] = "lock" /\ pc[0] = "boot" /\ \A c \in CPU : c # 0 => pc'[c] = pc[c]
      BY <2>2, SizeAssumption DEF EndOfLoop, Goto, MeetInv, IInv, TypeOK, CPU
    <3> QED BY <2>1, <3>1, CountedKept DEF MeetInv
  <2>3. CASE ~EndOfLoop
    <3>1. /\ UNCHANGED barrier /\ pc[0] \in InBoot /\ pc'[0] \in InBoot
          /\ \A c \in CPU : c # 0 => pc'[c] = pc[c]
      BY <1>1, <2>3, SizeAssumption
      DEF Boot, NameStack, Reset, SendStartup, Delivered, NotDelivered, GotCallin, NoCallin,
          Answer, Goto, MeetInv, IInv, TypeOK, CPU, InBoot
    <3> QED BY <2>1, <3>1, CountedKept DEF MeetInv, InBoot
  <2> QED BY <2>2, <2>3
<1>2. ASSUME NEW a \in AP, CallIn(a)
      PROVE  MeetInv'
  <2>1. IInv'
    BY <1>2, CallInInvariant DEF MeetInv
  <2>2. /\ UNCHANGED barrier /\ \A c \in CPU : c # a => pc'[c] = pc[c]
        /\ pc[a] \in {"off", "startup_ap"} \union InSetup
        /\ pc'[a] \in {"startup_ap", "lock"} \union InSetup
    BY <1>2 DEF CallIn, Accept, TakeStack, SeeCall, ReadNumber, Register, EmptyMailbox,
                Goto, MeetInv, IInv, TypeOK, Control, AP, CPU, InSetup
  <2> QED BY <2>1, <2>2, CountedKept DEF MeetInv, InSetup
<1>3. CASE UNCHANGED vars
  <2>1. UNCHANGED <<mailbox, sipi, bsp, names, barrier, pc>>
    BY <1>3 DEF vars
  <2>2. Counted'
    BY <2>1, CountedKept
  <2>3. TypeOK' /\ Control'
    BY <2>1 DEF mailbox, bsp, names, barrier, MeetInv, IInv, TypeOK, Control
  <2>4. (NoFailure' <=> NoFailure) /\ (InOrder' <=> InOrder)
    BY <2>1 DEF mailbox, bsp, names, NoFailure, InOrder, Calling
  <2>5. OwnStackAndNumber'
    BY <2>1, <2>4 DEF names, MeetInv, IInv, OwnStackAndNumber
  <2> QED BY <2>2, <2>3, <2>4, <2>5 DEF MeetInv, IInv
<1> QED BY <1>1, <1>2, <1>3, MeetInvariant DEF Next

LEMMA InitMeetInv == Init => MeetInv
<1> SUFFICES ASSUME Init PROVE Counted
  BY InitInvariant DEF MeetInv
<1>1. Arrived = {}
  BY DEF Init, Arrived
<1> QED BY <1>1, FS_EmptySet, SizeAssumption DEF Init, Counted, Free, CPU

\* As long as no call has failed, every AP works on its own stack and under its
\* own number, however many there are (apicsystem.cc 744-776, startup.asm 82).
THEOREM StacksAndNumbers == Spec => []OwnStackAndNumber
<1>1. MeetInv => OwnStackAndNumber
  BY DEF MeetInv, IInv
<1> QED BY <1>1, InitMeetInv, StepInvariant, PTL DEF Spec

\* Types of the variables; in particular i never counts more CPUs than there are.
THEOREM BootTypes == Spec => []TypeOK
<1>1. MeetInv => TypeOK
  BY DEF MeetInv, IInv
<1> QED BY <1>1, InitMeetInv, StepInvariant, PTL DEF Spec

\* onlineCPUs is the number of the APs that bootCPU() returned true for, and
\* these are in main_ap(), as long as no call has failed (apicsystem.h 148-153).
THEOREM OnlineCount == Spec => []OnlineAreUp
<1>1. MeetInv => OnlineAreUp
  <2> SUFFICES ASSUME IInv, NoFailure
               PROVE  /\ \A a \in AP : answer[a] = "true" => pc[a] \in InMainAP
                      /\ online = Cardinality({a \in AP : answer[a] = "true"}) + 1
    BY DEF MeetInv, OnlineAreUp
  <2>1. InOrder /\ called \in 1..Count /\ \A a \in AP : a >= called => answer[a] = "none"
    BY DEF IInv, TypeOK, Control
  <2>2. {a \in AP : answer[a] = "true"} = 1..called - 1
    BY <2>1, SizeAssumption DEF InOrder, AP, CPU
  <2>3. Cardinality(1..called - 1) = called - 1
    BY <2>1, FS_Interval, SizeAssumption
  <2>4. \A a \in AP : answer[a] = "true" => a < called
    BY <2>1, SizeAssumption DEF AP, CPU
  <2>5. online = Cardinality({a \in AP : answer[a] = "true"}) + 1
    <3>1. called - 1 + 1 = called
      BY <2>1, SizeAssumption
    <3> QED BY <2>1, <2>2, <2>3, <3>1 DEF InOrder
  <2>6. \A a \in AP : answer[a] = "true" => pc[a] \in InMainAP
    BY <2>1, <2>4 DEF InOrder
  <2> QED BY <2>5, <2>6
<1> QED BY <1>1, InitMeetInv, StepInvariant, PTL DEF Spec

\* If the barrier is made for all CPUs, or for more, nobody asks for a thread
\* before all are there and CPU 0 has registered the threads, whatever calls fail
\* (main.cc 92-126, 152-155).
THEOREM BarrierIsSafe ==
  ASSUME BarrierSize >= Count
  PROVE  Spec => []BarrierHolds
<1>1. MeetInv => BarrierHolds
  <2> SUFFICES ASSUME MeetInv, NEW c \in CPU, pc[c] = "schedule"
               PROVE  pc[0] \notin InBoot /\ Cardinality(Arrived) >= BarrierSize
    BY DEF BarrierHolds, Arrived
  <2>1. Cardinality(Arrived) >= BarrierSize
    BY DEF MeetInv, Counted
  <2>2. Arrived = CPU
    BY <2>1, ArrivedFinite, SizeAssumption
  <2>3. 0 \in Arrived
    BY <2>2, SizeAssumption DEF CPU
  <2> QED BY <2>1, <2>3 DEF Arrived, InBoot
<1> QED BY <1>1, InitMeetInv, StepInvariant, PTL DEF Spec
=============================================================================

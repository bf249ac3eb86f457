----------------------------- MODULE LocksProofs -----------------------------
(***************************************************************************)
(* Each of the two locks does what it promises, and does so where guard.cc *)
(* nests them, for every number of CPUs: the composition makes no step     *)
(* that is not one of the ticket lock or one of the gate.                  *)
(***************************************************************************)
EXTENDS Locks, Sequences, FiniteSetTheorems, TLAPS

-----------------------------------------------------------------------------
(* The ticket lock, for every width of the counters that has more values   *)
(* than there are CPUs.                                                    *)

\* The unsigned increment stays in range: it counts up and wraps to zero.
LEMMA SuccessorWraps ==
  ASSUME NEW n \in Counter
  PROVE  /\ Successor(n) \in Counter
         /\ Successor(n) = IF n = Width - 1 THEN 0 ELSE n + 1
<1> USE WidthAssumption DEF Counter, Successor
<1>1. CASE n = Width - 1
  BY <1>1
<1>2. CASE n # Width - 1
  BY <1>2
<1> QED BY <1>1, <1>2

\* The holders are finitely many, and fewer than there are tickets.
LEMMA HoldersCardinality ==
  /\ IsFiniteSet(Holders)
  /\ Cardinality(Holders) \in Nat
  /\ Cardinality(Holders) < Width
<1>1. Holders \subseteq CPU
  BY DEF Holders
<1> QED BY <1>1, FS_Subset, FS_CardinalityType, CPUAssumption, WidthAssumption

\* Distances count increments: they are in range, zero only between equal
\* counters, one less after a step of the first and one more after a step of
\* the second.
LEMMA DistanceSteps ==
  ASSUME NEW a \in Counter, NEW b \in Counter
  PROVE  /\ Distance(a, b) \in Counter
         /\ Distance(a, b) = 0 <=> a = b
         /\ a # b => Distance(Successor(a), b) = Distance(a, b) - 1
         /\ Distance(a, b) + 1 < Width
              => Distance(a, Successor(b)) = Distance(a, b) + 1
<1>1. Distance(a, b) \in Counter /\ (Distance(a, b) = 0 <=> a = b)
  BY WidthAssumption DEF Distance, Counter
<1>2. ASSUME a # b
      PROVE  Distance(Successor(a), b) = Distance(a, b) - 1
  BY <1>2, SuccessorWraps, WidthAssumption DEF Distance, Counter
<1>3. ASSUME Distance(a, b) + 1 < Width
      PROVE  Distance(a, Successor(b)) = Distance(a, b) + 1
  BY <1>3, SuccessorWraps, WidthAssumption DEF Distance, Counter
<1> QED BY <1>1, <1>2, <1>3

IInv == TypeOK /\ TicketsInUse

LEMMA InitInvariant == Init => IInv
<1> SUFFICES ASSUME Init PROVE IInv
  OBVIOUS
<1>1. Holders = {}
  BY DEF Init, Holders
<1>2. Cardinality(Holders) = 0
  BY <1>1, FS_EmptySet
<1>3. 0 \in Counter
  BY CPUAssumption, FS_CardinalityType, WidthAssumption DEF Counter
<1>4. TypeOK
  BY <1>3 DEF Init, TypeOK
<1> QED BY <1>1, <1>2, <1>4 DEF Init, IInv, TicketsInUse, Distance

\* lock() draws a ticket that nobody holds.
LEMMA TakeTicketInvariant ==
  ASSUME IInv, NEW c \in CPU, TakeTicket(c)
  PROVE  IInv'
<1> USE DEF IInv
<1>1. TypeOK'
  BY SuccessorWraps DEF TypeOK, TakeTicket
<1>2. /\ c \notin Holders
      /\ Holders' = Holders \cup {c}
  BY DEF TypeOK, TakeTicket, Holders
<1>3. /\ Cardinality(Holders') = Cardinality(Holders) + 1
      /\ Cardinality(Holders) \in Nat
      /\ Cardinality(Holders) + 1 < Width
  <2>1. Cardinality(Holders') = Cardinality(Holders) + 1
    BY <1>2, HoldersCardinality, FS_AddElement
  <2>2. Holders' \subseteq CPU
    BY DEF Holders
  <2> QED BY <2>1, <2>2, HoldersCardinality, FS_Subset, FS_CardinalityType,
             CPUAssumption, WidthAssumption
<1>4. Distance(turn, ticketnumber') = Cardinality(Holders')
  BY <1>3, DistanceSteps DEF TypeOK, TicketsInUse, TakeTicket
<1>5. \A d \in Holders : Distance(turn, current[d]) < Distance(turn, ticketnumber)
  BY DEF TicketsInUse
<1>6. /\ current'[c] = ticketnumber
      /\ \A d \in Holders : current'[d] = current[d]
      /\ turn' = turn /\ loaded' = loaded
      /\ \A d \in CPU \ {c} : pc'[d] = pc[d] /\ current'[d] = current[d]
      /\ pc'[c] = "spin"
  BY <1>2 DEF TypeOK, TakeTicket, Holders
<1>7. \A d \in Holders' : Distance(turn', current'[d]) < Cardinality(Holders')
  <2>1. Distance(turn, ticketnumber) < Cardinality(Holders')
    BY <1>3 DEF TicketsInUse
  <2>2. \A d \in Holders : Distance(turn, current[d]) < Cardinality(Holders')
    <3> SUFFICES ASSUME NEW d \in Holders
                 PROVE  Distance(turn, current[d]) < Cardinality(Holders')
      OBVIOUS
    <3>1. Distance(turn, current[d]) < Cardinality(Holders)
      BY DEF TicketsInUse
    <3>2. Distance(turn, current[d]) \in Counter
      BY DistanceSteps DEF TypeOK, Holders
    <3> QED BY <1>3, <3>1, <3>2 DEF Counter
  <2> QED BY <1>2, <1>6, <2>1, <2>2
<1>8. \A d \in Holders : current[d] # ticketnumber
  <2> SUFFICES ASSUME NEW d \in Holders, current[d] = ticketnumber PROVE FALSE
    OBVIOUS
  <2>1. Distance(turn, ticketnumber) \in Counter
    BY DistanceSteps DEF TypeOK
  <2> QED BY <1>5, <2>1 DEF Counter
<1>9. \A d, e \in Holders' : current'[d] = current'[e] => d = e
  BY <1>2, <1>6, <1>8 DEF TicketsInUse
<1> QED BY <1>1, <1>4, <1>6, <1>7, <1>9 DEF TicketsInUse

\* The CPU that leaves the spin loop or reads the turn stays a holder.
LEMMA CriticalInvariant ==
  ASSUME IInv, NEW c \in CPU, Acquire(c) \/ ReadTurn(c)
  PROVE  IInv'
<1> USE DEF IInv
<1>1. TypeOK'
  BY DEF TypeOK, Acquire, ReadTurn
<1>2. Holders' = Holders
  BY DEF TypeOK, Holders, Acquire, ReadTurn
<1> QED BY <1>1, <1>2 DEF TypeOK, TicketsInUse, Acquire, ReadTurn

\* unlock() passes the turn to the ticket after the one it retires.
LEMMA WriteTurnInvariant ==
  ASSUME IInv, NEW c \in CPU, WriteTurn(c)
  PROVE  IInv'
<1> USE DEF IInv
<1>1. TypeOK'
  <2>1. 0 \in Counter
    BY CPUAssumption, FS_CardinalityType, WidthAssumption DEF Counter
  <2> QED BY <2>1, SuccessorWraps DEF TypeOK, WriteTurn
<1>2. /\ c \in Holders
      /\ Holders' = Holders \ {c}
      /\ Holders \subseteq CPU
  BY DEF TypeOK, WriteTurn, Holders
<1>3. /\ Cardinality(Holders') = Cardinality(Holders) - 1
      /\ Cardinality(Holders) \in Nat
      /\ Cardinality(Holders') \in Nat
  BY <1>2, HoldersCardinality, FS_RemoveElement, FS_CardinalityType
<1>4. /\ turn' = Successor(turn)
      /\ current[c] = turn
      /\ ticketnumber' = ticketnumber
      /\ \A d \in CPU \ {c} : /\ pc'[d] = pc[d] /\ current'[d] = current[d]
                             /\ loaded'[d] = loaded[d]
      /\ pc'[c] = "idle"
  BY DEF TypeOK, TicketsInUse, WriteTurn
<1>5. \A d \in Holders' : current[d] # turn
  BY <1>2, <1>4 DEF TicketsInUse
<1>6. Distance(turn', ticketnumber') = Cardinality(Holders')
  <2>1. Distance(turn, ticketnumber) # 0
    BY <1>3 DEF TicketsInUse
  <2> QED BY <1>3, <1>4, <2>1, DistanceSteps DEF TypeOK, TicketsInUse
<1>7. \A d \in Holders' : Distance(turn', current'[d]) < Cardinality(Holders')
  <2> SUFFICES ASSUME NEW d \in Holders'
               PROVE  Distance(turn', current'[d]) < Cardinality(Holders')
    OBVIOUS
  <2>1. /\ Distance(turn, current[d]) < Cardinality(Holders)
        /\ current[d] \in Counter
        /\ current[d] # turn
    BY <1>2, <1>5 DEF TypeOK, TicketsInUse
  <2>2. Distance(turn', current'[d]) = Distance(turn, current[d]) - 1
    BY <1>2, <1>4, <2>1, DistanceSteps DEF TypeOK
  <2>3. Distance(turn, current[d]) \in Counter
    BY <2>1, DistanceSteps DEF TypeOK
  <2> QED BY <1>3, <2>1, <2>2, <2>3 DEF Counter
<1>8. \A d \in CPU : pc'[d] \notin {"critical", "unlock"}
  BY <1>2, <1>4, <1>5 DEF Holders, TicketsInUse
<1> QED BY <1>1, <1>2, <1>4, <1>6, <1>7, <1>8 DEF TicketsInUse

LEMMA NextInvariant == IInv /\ [Next]_vars => IInv'
<1> SUFFICES ASSUME IInv, [Next]_vars PROVE IInv'
  OBVIOUS
<1>1. CASE Next
  BY <1>1, TakeTicketInvariant, CriticalInvariant, WriteTurnInvariant
  DEF Next, Step
<1>2. CASE UNCHANGED vars
  BY <1>2 DEF vars, IInv, TypeOK, TicketsInUse, Holders
<1> QED BY <1>1, <1>2

\* The types, and the relation between tickets and holders, hold throughout.
THEOREM TicketInvariant == Spec => [](TypeOK /\ TicketsInUse)
<1> QED BY InitInvariant, NextInvariant, PTL DEF Spec, IInv

\* No two CPUs are in the section that a ticket lock protects, whatever the
\* number of CPUs and although the tickets wrap around (ticketlock.h 45-60).
THEOREM MutualExclusion == Spec => []Mutex
<1>1. TypeOK /\ TicketsInUse => Mutex
  BY DEF TypeOK, TicketsInUse, Mutex, Holders
<1> QED BY <1>1, TicketInvariant, PTL

-----------------------------------------------------------------------------
(* The ticket lock is first come, first served                             *)

\* Every ticket between turn and ticketnumber is held by a CPU.
NoTicketLost ==
  \A n \in 0 .. (Cardinality(Holders) - 1) :
    \E c \in Holders : Distance(turn, current[c]) = n

FifoInv == IInv /\ NoTicketLost

LEMMA FifoInitInvariant == Init => FifoInv
<1> SUFFICES ASSUME Init PROVE NoTicketLost
  BY InitInvariant DEF FifoInv
<1>1. Holders = {}
  BY DEF Init, Holders
<1>2. Cardinality(Holders) = 0
  BY <1>1, FS_EmptySet
<1> QED BY <1>2 DEF NoTicketLost

\* Two holders are not at the same distance from the turn.
LEMMA DistanceInjective ==
  ASSUME NEW a \in Counter, NEW b \in Counter, NEW t \in Counter,
         Distance(t, a) = Distance(t, b)
  PROVE  a = b
BY WidthAssumption DEF Distance, Counter

\* What the queue of the abstract lock is.
QueueByTicket ==
  /\ Cardinality(Holders) \in Nat
  /\ ByTicket \in Seq(CPU) /\ Len(ByTicket) = Cardinality(Holders)
  /\ \A i \in 1 .. Cardinality(Holders) :
       /\ ByTicket[i] \in Holders
       /\ Distance(turn, current[ByTicket[i]]) = i - 1
       /\ \A c \in Holders : Distance(turn, current[c]) = i - 1 => c = ByTicket[i]

LEMMA ByTicketOrder == FifoInv => QueueByTicket
<1> SUFFICES ASSUME FifoInv PROVE QueueByTicket
  OBVIOUS
<1> DEFINE n == Cardinality(Holders)
<1>1. n \in Nat
  BY HoldersCardinality
<1>2. ASSUME NEW i \in 1 .. n
      PROVE  /\ ByTicket[i] \in Holders
             /\ Distance(turn, current[ByTicket[i]]) = i - 1
             /\ \A c \in Holders : Distance(turn, current[c]) = i - 1 => c = ByTicket[i]
  <2>1. i - 1 \in 0 .. (n - 1)
    BY <1>1
  <2>2. \E c \in Holders : Distance(turn, current[c]) = i - 1
    BY <2>1 DEF FifoInv, NoTicketLost
  <2>3. ByTicket[i] = CHOOSE c \in Holders : Distance(turn, current[c]) = i - 1
    BY DEF ByTicket
  <2>4. ByTicket[i] \in Holders /\ Distance(turn, current[ByTicket[i]]) = i - 1
    BY <2>2, <2>3
  <2>5. \A c \in Holders : current[c] \in Counter /\ turn \in Counter
    BY DEF FifoInv, IInv, TypeOK, Holders
  <2>6. ASSUME NEW c \in Holders, Distance(turn, current[c]) = i - 1 PROVE c = ByTicket[i]
    <3>1. current[c] = current[ByTicket[i]]
      BY <2>4, <2>5, <2>6, DistanceInjective
    <3> QED BY <2>4, <3>1 DEF FifoInv, IInv, TicketsInUse
  <2> QED BY <2>4, <2>6
<1>3. DOMAIN ByTicket = 1 .. n /\ Holders \subseteq CPU
  BY DEF ByTicket, Holders
<1>4. ByTicket = [i \in 1 .. n |-> ByTicket[i]]
  BY DEF ByTicket
<1> HIDE DEF n
<1>5. ByTicket \in Seq(CPU) /\ Len(ByTicket) = n
  BY <1>1, <1>2, <1>3, <1>4
<1> QED BY <1>1, <1>2, <1>3, <1>5 DEF n, QueueByTicket

LEMMA ByTicketOrderNext == FifoInv' => QueueByTicket'
BY ByTicketOrder, PTL

\* A sequence is determined by its length and its elements.
LEMMA SameSequence ==
  ASSUME NEW S, NEW s \in Seq(S), NEW t \in Seq(S), Len(s) = Len(t),
         \A i \in 1 .. Len(s) : s[i] = t[i]
  PROVE  s = t
OBVIOUS

\* The ticket that is drawn is the last one.
LEMMA TakeTicketFifo ==
  ASSUME FifoInv, NEW c \in CPU, TakeTicket(c)
  PROVE  FifoInv' /\ Fifo!Request(c)
<1> USE DEF FifoInv, IInv
<1> DEFINE n == Cardinality(Holders)
<1>1. IInv'
  BY TakeTicketInvariant
<1>2. c \notin Holders /\ Holders' = Holders \cup {c}
  BY DEF TypeOK, TakeTicket, Holders
<1>3. n \in Nat /\ Cardinality(Holders') = n + 1
  BY <1>2, HoldersCardinality, FS_AddElement
<1>4. /\ turn' = turn /\ current'[c] = ticketnumber
      /\ \A d \in Holders : current'[d] = current[d]
  BY <1>2 DEF TypeOK, TakeTicket, Holders
<1>5. Distance(turn', current'[c]) = n
  BY <1>4 DEF TicketsInUse
<1> HIDE DEF n
<1>6. NoTicketLost'
  <2> SUFFICES ASSUME NEW k \in 0 .. n
               PROVE  \E d \in Holders' : Distance(turn', current'[d]) = k
    BY <1>3 DEF NoTicketLost
  <2>1. CASE k = n
    BY <1>2, <1>5, <2>1
  <2>2. CASE k # n
    <3>1. PICK d \in Holders : Distance(turn, current[d]) = k
      BY <1>3, <2>2 DEF NoTicketLost, n
    <3> QED BY <1>2, <1>4, <3>1
  <2> QED BY <2>1, <2>2
<1>7. FifoInv'
  BY <1>1, <1>6
<1>8. ByTicket' = Append(ByTicket, c)
  <2>1. QueueByTicket /\ QueueByTicket'
    BY <1>7, ByTicketOrder, ByTicketOrderNext
  <2> DEFINE s == ByTicket
             t == ByTicket'
  <2>2. /\ s \in Seq(CPU) /\ Len(s) = n
        /\ \A i \in 1 .. n : s[i] \in Holders /\ Distance(turn, current[s[i]]) = i - 1
    BY <2>1 DEF QueueByTicket, n
  <2>3. /\ t \in Seq(CPU) /\ Len(t) = n + 1
        /\ \A i \in 1 .. n + 1 :
             \A d \in Holders' : Distance(turn', current'[d]) = i - 1 => d = t[i]
    BY <1>3, <2>1 DEF QueueByTicket
  <2> HIDE DEF s, t
  <2>4. \A i \in 1 .. n : t[i] = s[i]
    <3> SUFFICES ASSUME NEW i \in 1 .. n PROVE t[i] = s[i]
      OBVIOUS
    <3>1. s[i] \in Holders' /\ Distance(turn', current'[s[i]]) = i - 1
      BY <1>2, <1>4, <2>2
    <3>2. i \in 1 .. n + 1
      BY <1>3
    <3> QED BY <2>3, <3>1, <3>2
  <2>5. t[n + 1] = c
    <3>1. n + 1 \in 1 .. n + 1 /\ (n + 1) - 1 = n
      BY <1>3
    <3> QED BY <1>2, <1>5, <2>3, <3>1
  <2>6. /\ Append(s, c) \in Seq(CPU) /\ Len(Append(s, c)) = n + 1
        /\ \A i \in 1 .. n + 1 : Append(s, c)[i] = IF i = n + 1 THEN c ELSE s[i]
    BY <1>3, <2>2
  <2>7. \A i \in 1 .. n + 1 : t[i] = Append(s, c)[i]
    BY <1>3, <2>4, <2>5, <2>6
  <2>8. t = Append(s, c)
    BY <2>3, <2>6, <2>7, SameSequence
  <2> QED BY <2>8 DEF s, t
<1>9. Mode[c] = "idle" /\ Mode' = [Mode EXCEPT ![c] = "waiting"]
  BY DEF TypeOK, TakeTicket, Mode
<1> QED BY <1>7, <1>8, <1>9 DEF Fifo!Request

\* The CPU that leaves the spin loop is the first; the read of the turn is not seen.
LEMMA CriticalFifo ==
  ASSUME FifoInv, NEW c \in CPU, Acquire(c) \/ ReadTurn(c)
  PROVE  /\ FifoInv'
         /\ Acquire(c) => Fifo!Grant(c)
         /\ ReadTurn(c) => UNCHANGED Fifo!vars
<1> USE DEF FifoInv, IInv
<1>1. IInv'
  BY CriticalInvariant
<1>2. UNCHANGED <<Holders, turn, current>>
  BY DEF TypeOK, Holders, Acquire, ReadTurn
<1>3. NoTicketLost' /\ ByTicket' = ByTicket
  BY <1>2 DEF NoTicketLost, ByTicket
<1>4. ASSUME Acquire(c) PROVE Fifo!Grant(c)
  <2>1. c \in Holders /\ current[c] = turn /\ turn \in Counter
    BY <1>4 DEF Acquire, TypeOK, Holders
  <2>2. Distance(turn, current[c]) = 0
    BY <2>1, DistanceSteps
  <2>3. Cardinality(Holders) \in Nat /\ Cardinality(Holders) # 0
    BY <2>1, HoldersCardinality, FS_EmptySet
  <2>4. QueueByTicket
    BY ByTicketOrder
  <2>5. ByTicket[1] = c /\ ByTicket \in Seq(CPU) /\ Len(ByTicket) = Cardinality(Holders)
    <3>1. 1 \in 1 .. Cardinality(Holders) /\ 1 - 1 = 0
      BY <2>3
    <3> QED BY <2>1, <2>2, <2>4, <3>1 DEF QueueByTicket
  <2>6. Head(ByTicket) = c
    BY <2>3, <2>5
  <2>7. Mode[c] = "waiting" /\ Mode' = [Mode EXCEPT ![c] = "holding"]
    BY <1>4 DEF TypeOK, Acquire, Mode
  <2> QED BY <1>3, <2>6, <2>7 DEF Fifo!Grant
<1>5. ASSUME ReadTurn(c) PROVE UNCHANGED Fifo!vars
  <2>1. Mode' = Mode
    BY <1>5 DEF TypeOK, ReadTurn, Mode
  <2> QED BY <1>3, <2>1 DEF Fifo!vars
<1> QED BY <1>1, <1>3, <1>4, <1>5

\* The CPU that passes the turn leaves the queue; it was the first.
LEMMA WriteTurnFifo ==
  ASSUME FifoInv, NEW c \in CPU, WriteTurn(c)
  PROVE  FifoInv' /\ Fifo!Release(c)
<1> USE DEF FifoInv, IInv
<1> DEFINE n == Cardinality(Holders)
<1>1. IInv'
  BY WriteTurnInvariant
<1>2. c \in Holders /\ Holders' = Holders \ {c} /\ Holders \subseteq CPU
  BY DEF TypeOK, WriteTurn, Holders
<1>3. n \in Nat /\ n # 0 /\ Cardinality(Holders') = n - 1
  BY <1>2, HoldersCardinality, FS_RemoveElement, FS_EmptySet
<1>4. /\ turn' = Successor(turn) /\ current[c] = turn /\ turn \in Counter
      /\ \A d \in Holders' : current'[d] = current[d] /\ current[d] \in Counter
                             /\ current[d] # turn
  BY <1>2 DEF TypeOK, TicketsInUse, WriteTurn
<1>5. \A d \in Holders' : Distance(turn', current'[d]) = Distance(turn, current[d]) - 1
  BY <1>4, DistanceSteps
<1>6. \A d \in Holders : Distance(turn, current[d]) # 0 => d \in Holders'
  BY <1>2, <1>4, DistanceSteps
<1> HIDE DEF n
<1>7. NoTicketLost'
  <2> SUFFICES ASSUME NEW k \in 0 .. (n - 2)
               PROVE  \E d \in Holders' : Distance(turn', current'[d]) = k
    BY <1>3 DEF NoTicketLost
  <2>1. k + 1 \in 0 .. (n - 1) /\ k + 1 # 0 /\ (k + 1) - 1 = k
    BY <1>3
  <2>2. PICK d \in Holders : Distance(turn, current[d]) = k + 1
    BY <2>1 DEF NoTicketLost, n
  <2> QED BY <1>5, <1>6, <2>1, <2>2
<1>8. FifoInv'
  BY <1>1, <1>7
<1>9. ByTicket' = Tail(ByTicket)
  <2>1. QueueByTicket /\ QueueByTicket'
    BY <1>8, ByTicketOrder, ByTicketOrderNext
  <2> DEFINE s == ByTicket
             t == ByTicket'
  <2>2. /\ s \in Seq(CPU) /\ Len(s) = n
        /\ \A i \in 1 .. n : s[i] \in Holders /\ Distance(turn, current[s[i]]) = i - 1
    BY <2>1 DEF QueueByTicket, n
  <2>3. /\ t \in Seq(CPU) /\ Len(t) = n - 1
        /\ \A i \in 1 .. (n - 1) :
             \A d \in Holders' : Distance(turn', current'[d]) = i - 1 => d = t[i]
    BY <1>3, <2>1 DEF QueueByTicket
  <2> HIDE DEF s, t
  <2>4. /\ Tail(s) \in Seq(CPU) /\ Len(Tail(s)) = n - 1
        /\ \A i \in 1 .. (n - 1) : Tail(s)[i] = s[i + 1]
    BY <1>3, <2>2
  <2>5. \A i \in 1 .. (n - 1) : t[i] = Tail(s)[i]
    <3> SUFFICES ASSUME NEW i \in 1 .. (n - 1) PROVE t[i] = s[i + 1]
      BY <2>4
    <3>1. i + 1 \in 1 .. n /\ (i + 1) - 1 = i /\ i # 0
      BY <1>3
    <3>2. s[i + 1] \in Holders' /\ Distance(turn, current[s[i + 1]]) = i
      BY <1>6, <2>2, <3>1
    <3>3. Distance(turn', current'[s[i + 1]]) = i - 1
      BY <1>5, <3>2
    <3> QED BY <2>3, <3>2, <3>3
  <2>6. t = Tail(s)
    BY <2>3, <2>4, <2>5, SameSequence
  <2> QED BY <2>6 DEF s, t
<1>10. Mode[c] = "holding" /\ Mode' = [Mode EXCEPT ![c] = "idle"]
  BY DEF TypeOK, WriteTurn, Mode
<1> QED BY <1>8, <1>9, <1>10 DEF Fifo!Release

LEMMA FifoStep ==
  FifoInv /\ [Next]_vars => FifoInv' /\ [Fifo!Next]_(Fifo!vars)
<1> SUFFICES ASSUME FifoInv, [Next]_vars PROVE FifoInv' /\ [Fifo!Next]_(Fifo!vars)
  OBVIOUS
<1>1. ASSUME NEW c \in CPU, Step(c) PROVE FifoInv' /\ [Fifo!Next]_(Fifo!vars)
  BY <1>1, TakeTicketFifo, CriticalFifo, WriteTurnFifo DEF Step, Fifo!Next
<1>2. CASE UNCHANGED vars
  <2>1. UNCHANGED <<turn, current, pc, Holders>> /\ IInv'
    BY <1>2, NextInvariant DEF vars, Holders, FifoInv
  <2> QED BY <2>1 DEF FifoInv, NoTicketLost, Fifo!vars, ByTicket, Mode
<1> QED BY <1>1, <1>2 DEF Next

\* lock() and unlock() serve the CPUs first come, first served, one at a time
\* (ticketlock.h 9-17), although unlock() is not atomic and the tickets wrap.
THEOREM TicketLockRefinement == Spec => ImplementsFifoLock
<1>1. Init => Fifo!Init
  <2> SUFFICES ASSUME Init PROVE Fifo!Init
    OBVIOUS
  <2>1. Holders = {}
    BY DEF Init, Holders
  <2>2. Cardinality(Holders) = 0
    BY <2>1, FS_EmptySet
  <2>3. ByTicket = << >>
    BY <2>2 DEF ByTicket
  <2>4. Mode = [c \in CPU |-> "idle"]
    BY DEF Init, Mode
  <2> QED BY <2>3, <2>4 DEF Fifo!Init
<1> QED BY <1>1, FifoInitInvariant, FifoStep, PTL DEF Spec, ImplementsFifoLock, Fifo!Spec

-----------------------------------------------------------------------------
(* The gate                                                                *)

GateIInv == Flag!TypeOK /\ Flag!LockInvariant

LEMMA GateInitInvariant == Flag!Init => GateIInv
<1> QED BY DEF Flag!Init, GateIInv, Flag!TypeOK, Flag!LockInvariant, Flag!Inside, Flag!Operation

LEMMA GateNextInvariant == GateIInv /\ [Flag!Next]_(Flag!vars) => GateIInv'
<1> SUFFICES ASSUME GateIInv, [Flag!Next]_(Flag!vars) PROVE GateIInv'
  OBVIOUS
<1> USE DEF GateIInv, Flag!TypeOK, Flag!LockInvariant, Flag!Inside, Flag!Operation
<1>1. ASSUME NEW c \in CPU, Flag!Call(c) PROVE GateIInv'
  BY <1>1 DEF Flag!Call
<1>2. ASSUME NEW c \in CPU, Flag!TestAndSet(c) PROVE GateIInv'
  BY <1>2 DEF Flag!TestAndSet
<1>3. ASSUME NEW c \in CPU, Flag!Test(c) PROVE GateIInv'
  BY <1>3 DEF Flag!Test
<1>4. ASSUME NEW c \in CPU, Flag!Write(c) PROVE GateIInv'
  BY <1>4 DEF Flag!Write
<1>5. ASSUME NEW c \in CPU, Flag!Unlock(c) PROVE GateIInv'
  BY <1>5 DEF Flag!Unlock
<1>6. ASSUME NEW c \in CPU, Flag!Return(c) PROVE GateIInv'
  BY <1>6 DEF Flag!Return
<1>7. CASE UNCHANGED Flag!vars
  BY <1>7 DEF Flag!vars
<1> QED BY <1>1, <1>2, <1>3, <1>4, <1>5, <1>6, <1>7 DEF Flag!Next

\* The lock of the gate excludes, and what set_queued() read stays true until
\* it is written (gate.h 59-72).
THEOREM GateLock == Flag!Spec => [](Flag!TypeOK /\ Flag!LockInvariant)
<1> QED BY GateInitInvariant, GateNextInvariant, PTL DEF Flag!Spec, GateIInv

\* Only the write changes what a caller can see of the flag; the answer that
\* is then fixed is the one of the atomic operation.
LEMMA GateStepSimulation ==
  GateIInv /\ [Flag!Next]_(Flag!vars) => [Flag!Atomic!Next]_(Flag!Atomic!vars)
<1> SUFFICES ASSUME GateIInv, [Flag!Next]_(Flag!vars)
             PROVE  Flag!Atomic!Next \/ UNCHANGED <<queue_flag, Flag!AbstractCall>>
  BY DEF Flag!Atomic!vars
<1> USE DEF GateIInv, Flag!TypeOK, Flag!AbstractCall, Flag!Answer
<1>1. ASSUME NEW c \in CPU, Flag!Call(c)
      PROVE  \E o \in {"set_queued", "set_dequeued"} : Flag!Atomic!Invoke(c, o)
  BY <1>1 DEF Flag!Call, Flag!Atomic!Invoke, Flag!Operation
<1>2. ASSUME NEW c \in CPU, Flag!TestAndSet(c) \/ Flag!Test(c) \/ Flag!Unlock(c)
      PROVE  UNCHANGED <<queue_flag, Flag!AbstractCall>>
  <2>1. CASE Flag!TestAndSet(c)
    BY <2>1 DEF Flag!TestAndSet
  <2>2. CASE Flag!Test(c)
    BY <2>2 DEF Flag!Test
  <2>3. CASE Flag!Unlock(c)
    BY <2>3 DEF Flag!Unlock
  <2> QED BY <1>2, <2>1, <2>2, <2>3
<1>3. ASSUME NEW c \in CPU, Flag!Write(c)
      PROVE  Flag!Atomic!SetQueued(c) \/ Flag!Atomic!SetDequeued(c)
  <2>1. CASE op[c] = "set_queued"
    BY <1>3, <2>1 DEF Flag!Write, Flag!LockInvariant, Flag!Atomic!SetQueued
  <2>2. CASE op[c] = "set_dequeued"
    BY <1>3, <2>2 DEF Flag!Write, Flag!Atomic!SetDequeued
  <2> QED BY <2>1, <2>2 DEF Flag!Operation
<1>4. ASSUME NEW c \in CPU, Flag!Return(c) PROVE Flag!Atomic!Return(c)
  BY <1>4 DEF Flag!Return, Flag!Atomic!Return, Flag!Operation
<1>5. CASE UNCHANGED Flag!vars
  BY <1>5 DEF Flag!vars
<1> QED BY <1>1, <1>2, <1>3, <1>4, <1>5 DEF Flag!Next, Flag!Atomic!Next

\* A gate implements the atomic flag: set_queued() answers TRUE to one caller
\* until the next set_dequeued(), on however many CPUs they are called.
THEOREM GateRefinement == Flag!Spec => Flag!ImplementsGateFlag
<1>1. Flag!Init => Flag!Atomic!Init
  BY DEF Flag!Init, Flag!Atomic!Init, Flag!AbstractCall
<1> QED BY <1>1, GateLock, GateStepSimulation, PTL
        DEF Flag!Spec, GateIInv, Flag!ImplementsGateFlag, Flag!Atomic!Spec

-----------------------------------------------------------------------------
(* The locks together                                                      *)

LEMMA LocksImplementTicketLock == LSpec => Spec
<1>1. LInit => Init
  BY DEF LInit
<1>2. [LNext]_allVars => [Next]_vars
  <2> SUFFICES ASSUME [LNext]_allVars PROVE [Next]_vars
    OBVIOUS
  <2>1. ASSUME NEW c \in CPU, UseLock(c) PROVE Next
    BY <2>1 DEF UseLock, Next
  <2>2. ASSUME NEW c \in CPU, UseGate(c) PROVE UNCHANGED vars
    BY <2>2 DEF UseGate
  <2>3. CASE UNCHANGED allVars
    BY <2>3 DEF allVars
  <2> QED BY <2>1, <2>2, <2>3 DEF LNext
<1> QED BY <1>1, <1>2, PTL DEF LSpec, Spec

LEMMA LocksImplementGate == LSpec => Flag!Spec
<1>1. LInit => Flag!Init
  BY DEF LInit
<1>2. [LNext]_allVars => [Flag!Next]_(Flag!vars)
  <2> SUFFICES ASSUME [LNext]_allVars PROVE [Flag!Next]_(Flag!vars)
    OBVIOUS
  <2>1. ASSUME NEW c \in CPU, UseLock(c) PROVE UNCHANGED Flag!vars
    BY <2>1 DEF UseLock, gateVars, Flag!vars
  <2>2. ASSUME NEW c \in CPU, BeginCall(c) PROVE Flag!Next
    BY <2>2 DEF BeginCall, Flag!Next
  <2>3. ASSUME NEW c \in CPU, FinishCall(c) PROVE Flag!Next
    BY <2>3 DEF FinishCall, Flag!Next
  <2>4. CASE UNCHANGED allVars
    BY <2>4 DEF allVars, gateVars, Flag!vars
  <2> QED BY <2>1, <2>2, <2>3, <2>4 DEF LNext, UseGate
<1> QED BY <1>1, <1>2, PTL DEF LSpec, Flag!Spec

\* One CPU at a time is between s_lock.lock() and the end of s_lock.unlock(),
\* although the CPUs queue gates in between (guard.cc 22, 50).
THEOREM NestedMutualExclusion == LSpec => []Mutex
<1> QED BY LocksImplementTicketLock, MutualExclusion, PTL

\* The CPUs are served first come, first served, also where their calls of a gate
\* come between (ticketlock.h 45-60, guard.cc 22, 50).
THEOREM NestedFifo == LSpec => ImplementsFifoLock
<1> QED BY LocksImplementTicketLock, TicketLockRefinement, PTL

\* The lock of a gate is never left taken by a CPU that holds or awaits s_lock,
\* and what set_queued() read stays true until it is written (gate.h 59-72).
THEOREM NestedGateLock == LSpec => []LockInvariant
<1> QED BY LocksImplementGate, GateLock, PTL DEF LockInvariant

\* The calls of a gate take effect at once also when they are made by a CPU that
\* holds or awaits s_lock (gate.h 59-72, guard.cc 38-68).
THEOREM NestedGateRefinement == LSpec => ImplementsGateFlag
<1> QED BY LocksImplementGate, GateRefinement, PTL DEF ImplementsGateFlag
=============================================================================

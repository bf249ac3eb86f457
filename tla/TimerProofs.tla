----------------------------- MODULE TimerProofs -----------------------------
(***************************************************************************)
(* div64() divides, for numbers of any width, and the timers are silent    *)
(* until their CPUs activate them.                                         *)
(***************************************************************************)
EXTENDS Timer, TLAPS

\* The divisor is shifted by as many bits as the current bit of the quotient.
Aligned(i) == qbit = Bit[i] /\ den = divisor * Bit[i]

\* Nothing is subtracted before the divisor is shifted up; then what has been
\* subtracted is in the quotient, and the rest is less than twice the shifted
\* divisor.
Progressing ==
  /\ phase = "shift" =>
       /\ num = dividend /\ quot = 0
       /\ divisor = 0 => den = 0
       /\ divisor # 0 => \E i \in 0 .. (Width - 1) : Aligned(i)
  /\ phase = "subtract" =>
       /\ divisor # 0
       /\ dividend = quot * divisor + num
       /\ \/ qbit = 0 /\ num < divisor
          \/ \E i \in 0 .. (Width - 1) : Aligned(i) /\ num < 2 * den
  /\ QuotientCorrect

Invariant == DivTypeOK /\ Progressing

\* A product with a number other than zero is no less than its factor.
LEMMA Factor == \A a, b \in Nat : b # 0 => a * b \in Nat /\ a <= a * b
<1> QED BY SMTT(30)

\* The highest bit is half of the first number that does not fit.
LEMMA TopBit == /\ Bit[Width] \in Nat \ {0} /\ Bit[Width - 1] \in Nat \ {0}
                /\ Bit[Width] = 2 * Bit[Width - 1]
                /\ 0 \in Word /\ 1 \in Word
<1>1. /\ Width - 1 \in 0 .. (Width - 1) /\ Width - 1 \in 0 .. Width
      /\ Width \in 0 .. Width /\ (Width - 1) + 1 = Width
  BY WidthAssumption
<1>2. Bit[Width] \in Nat \ {0} /\ Bit[Width - 1] \in Nat \ {0}
  BY <1>1, BitAssumption
<1>3. Bit[Width] = 2 * Bit[Width - 1]
  BY <1>1, BitAssumption
<1> QED BY <1>2, <1>3 DEF Word

LEMMA InitInvariant == DivInit => Invariant
<1> QED BY TopBit DEF DivInit, Invariant, DivTypeOK, Progressing, QuotientCorrect

LEMMA CallInvariant ==
  ASSUME Invariant, NEW n \in Word, NEW d \in Word, Call(n, d)
  PROVE  Invariant'
<1>1. DivTypeOK'
  BY TopBit DEF Call, Invariant, DivTypeOK
<1>2. 0 \in 0 .. (Width - 1) /\ d * 1 = d
  BY WidthAssumption DEF Word
<1>3. Aligned(0)'
  BY <1>2, BitAssumption DEF Call, Aligned
<1> QED BY <1>1, <1>2, <1>3 DEF Call, Invariant, Progressing, QuotientCorrect

\* No bit of the divisor is lost: its highest bit is not set.
LEMMA ShiftInvariant == ASSUME Invariant, Shift PROVE Invariant'
<1> USE DEF Invariant
<1>1. den \in Nat /\ qbit \in Nat /\ divisor \in Nat
  BY TopBit DEF DivTypeOK, Word
<1>2. den' = 2 * den
  BY <1>1, TopBit DEF Shift
<1>3. DivTypeOK'
  BY <1>1, TopBit DEF Shift, DivTypeOK, Word
<1>4. ASSUME divisor # 0
      PROVE  \E j \in 0 .. (Width - 1) : Aligned(j)'
  <2>1. PICK i \in 0 .. (Width - 1) : Aligned(i)
    BY <1>4 DEF Progressing, Shift
  <2>2. i \in 0 .. Width /\ Bit[i] \in Nat \ {0}
    BY WidthAssumption, BitAssumption
  <2>3. Bit[i] < Bit[Width - 1]
    BY <1>1, <1>4, <2>1, <2>2, Factor, TopBit DEF Shift, Aligned
  <2>4. /\ i + 1 \in 0 .. (Width - 1) /\ i + 1 \in 0 .. Width
        /\ Bit[i + 1] = 2 * Bit[i]
    BY <2>3, WidthAssumption, BitAssumption
  <2>5. qbit' = Bit[i + 1]
    BY <2>1, <2>2, <2>3, <2>4, TopBit DEF Shift, Aligned
  <2>6. den' = divisor * Bit[i + 1]
    <3>1. divisor * (2 * Bit[i]) = 2 * (divisor * Bit[i])
      BY <1>1, <2>2
    <3> QED BY <1>2, <2>1, <2>4, <3>1 DEF Aligned
  <2>7. divisor' = divisor
    BY DEF Shift
  <2> QED BY <2>4, <2>5, <2>6, <2>7 DEF Aligned
<1>5. divisor = 0 => den' = 0
  BY <1>2 DEF Progressing, Shift
<1> QED BY <1>3, <1>4, <1>5 DEF Shift, Progressing, QuotientCorrect

\* The loop ends when the divisor is at least half of what fits into a word.
LEMMA ShiftedInvariant == ASSUME Invariant, Shifted PROVE Invariant'
<1> USE DEF Invariant
<1>1. DivTypeOK'
  BY DEF Shifted, DivTypeOK
<1>2. divisor # 0
  BY TopBit DEF Shifted, Progressing
<1>3. PICK i \in 0 .. (Width - 1) : Aligned(i)
  BY <1>2 DEF Shifted, Progressing
<1>4. num < 2 * den /\ dividend = quot * divisor + num
  BY TopBit DEF Shifted, Progressing, DivTypeOK, Word
<1>5. Aligned(i)'
  BY <1>3 DEF Shifted, Aligned
<1> QED BY <1>1, <1>2, <1>4, <1>5 DEF Shifted, Progressing, QuotientCorrect

\* A bit of the quotient: what is left stays below twice the divisor, and the
\* quotient is no greater than the dividend.
LEMMA SubtractInvariant == ASSUME Invariant, Subtract PROVE Invariant'
<1> USE DEF Invariant
<1>1. /\ num \in Nat /\ den \in Nat /\ quot \in Nat
      /\ divisor \in Nat /\ dividend \in Nat /\ qbit \in Nat
      /\ dividend < Bit[Width] /\ num < Bit[Width]
      /\ divisor # 0 /\ dividend = quot * divisor + num
  BY TopBit DEF DivTypeOK, Word, Progressing, Subtract
<1>2. PICK i \in 0 .. (Width - 1) : Aligned(i) /\ num < 2 * den
  BY DEF Progressing, Subtract
<1>3. i \in 0 .. Width /\ Bit[i] \in Nat \ {0}
  BY WidthAssumption, BitAssumption
<1>4. /\ num' \in Nat /\ num' <= num /\ num' < den
      /\ quot' \in Word
      /\ dividend' = quot' * divisor' + num'
  <2>1. CASE den <= num
    <3>1. (quot + qbit) * divisor = quot * divisor + den
      BY <1>1, <1>2, <1>3 DEF Aligned
    <3>2. quot + qbit <= (quot + qbit) * divisor /\ quot + qbit \in Nat
      BY <1>1, Factor
    <3>3. quot + qbit < Bit[Width] /\ quot + qbit \in Word
      BY <1>1, <2>1, <3>1, <3>2, TopBit DEF Word
    <3>4. quot' = quot + qbit /\ num' = num - den
      BY <2>1, <3>2, <3>3, TopBit DEF Subtract
    <3>5. num' \in Nat /\ num' <= num /\ num' < den
      BY <1>1, <1>2, <2>1, <3>4
    <3>6. dividend' = quot' * divisor' + num'
      <4>1. dividend' = dividend /\ divisor' = divisor
        BY DEF Subtract
      <4>2. quot * divisor \in Nat
        BY <1>1
      <4> QED BY <1>1, <3>1, <3>4, <4>1, <4>2
    <3> QED BY <3>3, <3>4, <3>5, <3>6
  <2>2. CASE ~(den <= num)
    BY <1>1, <2>2 DEF Subtract, DivTypeOK
  <2> QED BY <2>1, <2>2
<1>5. /\ den' = den \div 2 /\ qbit' = qbit \div 2
      /\ divisor' = divisor /\ dividend' = dividend /\ phase' = phase
  BY DEF Subtract
<1>6. DivTypeOK'
  <2>1. den' \in Nat /\ den' <= den /\ qbit' \in Nat /\ qbit' <= qbit
    BY <1>1, <1>5
  <2> QED BY <1>1, <1>4, <1>5, <2>1, TopBit DEF DivTypeOK, Word, Subtract
<1>7. CASE i = 0
  <2>1. qbit = 1 /\ den = divisor
    BY <1>1, <1>2, <1>7, BitAssumption DEF Aligned
  <2>2. qbit' = 0 /\ num' < divisor'
    BY <1>4, <1>5, <2>1
  <2> QED BY <1>1, <1>4, <1>5, <1>6, <2>2 DEF Progressing, QuotientCorrect, Subtract
<1>8. CASE i # 0
  <2>1. /\ i - 1 \in 0 .. (Width - 1) /\ i - 1 \in 0 .. Width /\ (i - 1) + 1 = i
        /\ Bit[i - 1] \in Nat \ {0}
    BY <1>8, WidthAssumption, BitAssumption
  <2>2. Bit[i] = 2 * Bit[i - 1]
    BY <2>1, BitAssumption
  <2>3. qbit' = Bit[i - 1]
    BY <1>2, <1>5, <2>1, <2>2 DEF Aligned
  <2>4. den = 2 * (divisor * Bit[i - 1]) /\ divisor * Bit[i - 1] \in Nat
    <3>1. divisor * (2 * Bit[i - 1]) = 2 * (divisor * Bit[i - 1])
      BY <1>1, <2>1
    <3>2. divisor * Bit[i - 1] \in Nat
      BY <1>1, <2>1
    <3> QED BY <1>2, <2>2, <3>1, <3>2 DEF Aligned
  <2>5. den' = divisor * Bit[i - 1] /\ num' < 2 * den'
    <3> DEFINE p == divisor * Bit[i - 1]
    <3>1. p \in Nat /\ den = 2 * p
      BY <2>4
    <3> HIDE DEF p
    <3>2. den' = p /\ num' < 2 * den'
      BY <1>4, <1>5, <3>1
    <3> QED BY <3>2 DEF p
  <2>6. Aligned(i - 1)'
    BY <1>5, <2>3, <2>5 DEF Aligned
  <2> QED BY <1>1, <1>4, <1>5, <1>6, <2>1, <2>5, <2>6
          DEF Progressing, QuotientCorrect, Subtract
<1> QED BY <1>7, <1>8

LEMMA NextInvariant == Invariant /\ [DivNext]_divVars => Invariant'
<1> SUFFICES ASSUME Invariant, [DivNext]_divVars PROVE Invariant'
  OBVIOUS
<1>1. CASE Finish
  <2>1. ~ \E i \in 0 .. (Width - 1) : Aligned(i)
    BY <1>1, BitAssumption, WidthAssumption DEF Finish, Aligned
  <2> QED BY <1>1, <2>1
          DEF Finish, Invariant, DivTypeOK, Progressing, QuotientCorrect
<1>2. CASE Return
  BY <1>2 DEF Return, Invariant, DivTypeOK, Progressing, QuotientCorrect
<1>3. CASE UNCHANGED divVars
  BY <1>3 DEF divVars, Invariant, DivTypeOK, Progressing, QuotientCorrect, Aligned
<1> QED BY <1>1, <1>2, <1>3, CallInvariant, ShiftInvariant, ShiftedInvariant,
           SubtractInvariant DEF DivNext, Divide

\* Locals and results fit into a word, whatever is divided (math.h 19-40).
THEOREM DivisionTypes == DivSpec => []DivTypeOK
<1>1. Invariant => DivTypeOK
  BY DEF Invariant
<1> QED BY <1>1, InitInvariant, NextInvariant, PTL DEF DivSpec

\* div64() returns the quotient and leaves the rest, for numbers of any width:
\* no bit of the divisor is lost and no sum overflows (math.h 11-40).
THEOREM DivisionCorrect == DivSpec => []QuotientCorrect
<1>1. Invariant => QuotientCorrect
  BY DEF Invariant, Progressing
<1> QED BY <1>1, InitInvariant, NextInvariant, PTL DEF DivSpec
-----------------------------------------------------------------------------
\* What setTimer() has left to do for c, and what of it is in the registers: the
\* parameters are those of the last call.
Underway(c, vector, masked, periodic, n, d) ==
  LET control == [vector |-> vector, masked |-> masked, periodic |-> periodic]
      set == /\ reg[c].vector = vector /\ reg[c].masked = masked
             /\ reg[c].periodic = periodic
  IN  \/ /\ writes[c] = <<control, [count |-> n], [divider |-> d]>>
         /\ (masked /\ reg[c].masked) \/ reg[c].count = 0
      \/ /\ writes[c] = <<[count |-> n], [divider |-> d]>>
         /\ set /\ (masked \/ reg[c].count = 0)
      \/ /\ writes[c] = <<[divider |-> d]>>
         /\ set /\ reg[c].count = n
      \/ /\ writes[c] = << >>
         /\ set /\ reg[c].count = n /\ reg[c].divider = d

Measuring == \E f \in {"windup", "interval"} : pc = <<f, "pit">>

\* The last call for c: activate(), or one that does not let the timer raise
\* interrupts, and lets it count only while it is measured, undivided.
Asked(c, vector, masked, periodic, n, d) ==
  /\ masked \in BOOLEAN
  /\ active[c] => /\ n = _ticks /\ d = timer_div(_divide)
                  /\ vector = TimerVector /\ ~masked /\ periodic
  /\ c = BSP /\ Measuring => d = timer_div(1)
  /\ ~active[c] => /\ masked \/ n = 0
                   /\ n = 0 \/ (c = BSP /\ Measuring)

TimerOK(c) == \E vector, masked, periodic, n, d :
  Underway(c, vector, masked, periodic, n, d) /\ Asked(c, vector, masked, periodic, n, d)

\* Functions and records, whatever their values are.
Shapes == /\ writes = [c \in CPU |-> writes[c]]
          /\ reg = [c \in CPU |-> reg[c]]
          /\ active = [c \in CPU |-> active[c]]
          /\ \A c \in CPU : /\ active[c] \in BOOLEAN
                            /\ DOMAIN reg[c] = {"vector", "masked", "periodic", "count", "divider"}

\* When a timer is set up to run, nothing is left of the calls before.
Ready == /\ pc \in {<<"windup", "fit">>, <<"main", "boot">>} /\ ~active[BSP] => writes[BSP] = << >>
         /\ \A c \in CPU : ~active[c] /\ c # BSP => writes[c] = << >>
         /\ \A c \in CPU : active[c] => pc = <<"main", "boot">>
         /\ plugged \/ _ticks = 0

TimerInvariant == Shapes /\ Ready /\ \A c \in CPU : TimerOK(c)

LEMMA TimerInit == TInit => TimerInvariant
<1> SUFFICES ASSUME TInit PROVE TimerInvariant
  OBVIOUS
<1>1. Shapes
  BY DEF TInit, Shapes
<1>2. Ready
  BY RateAssumption DEF TInit, Ready
<1>3. ASSUME NEW c \in CPU PROVE TimerOK(c)
  <2>1. Underway(c, 0, TRUE, FALSE, 0, 0) /\ Asked(c, 0, TRUE, FALSE, 0, 0)
    BY DEF TInit, Underway, Asked, Measuring
  <2> QED BY <2>1 DEF TimerOK
<1> QED BY <1>1, <1>2, <1>3 DEF TimerInvariant

\* A timer that is left alone.
LEMMA TimerKept ==
  ASSUME NEW c, TimerOK(c),
         writes'[c] = writes[c], reg'[c] = reg[c], active'[c] = active[c],
         active[c] => _ticks' = _ticks /\ _divide' = _divide,
         c = BSP /\ ~active[c] => (Measuring <=> Measuring'),
         active[c] => ~Measuring'
  PROVE  TimerOK(c)'
<1>1. PICK vector, masked, periodic, n, d :
        /\ Underway(c, vector, masked, periodic, n, d)
        /\ Asked(c, vector, masked, periodic, n, d)
  BY DEF TimerOK
<1>2. Underway(c, vector, masked, periodic, n, d)'
  BY <1>1 DEF Underway
<1>3. Asked(c, vector, masked, periodic, n, d)'
  BY <1>1 DEF Asked
<1> QED BY <1>2, <1>3 DEF TimerOK

\* A timer raises interrupts when it has been activated, with what activate() asked
\* for; another one stands still when nothing is left to write.
LEMMA TimerSilent ==
  ASSUME NEW c, TimerOK(c)
  PROVE  /\ Armed(c) => /\ active[c] /\ _ticks # 0
                        /\ reg[c].vector = TimerVector /\ reg[c].periodic
         /\ ~active[c] => reg[c].masked \/ reg[c].count = 0
         /\ ~active[c] /\ writes[c] = << >> /\ ~(c = BSP /\ Measuring) => reg[c].count = 0
<1>1. PICK vector, masked, periodic, n, d :
        /\ Underway(c, vector, masked, periodic, n, d)
        /\ Asked(c, vector, masked, periodic, n, d)
  BY DEF TimerOK
<1>2. CASE writes[c] = << >>
  BY <1>1, <1>2 DEF Underway, Asked, Armed
<1>3. CASE writes[c] # << >>
  BY <1>1, <1>3 DEF Underway, Asked, Armed
<1> QED BY <1>2, <1>3

\* One of the writes of setTimer() is done.
LEMMA WriteKeeps ==
  ASSUME TimerInvariant, NEW c \in CPU, WriteRegister(c)
  PROVE  TimerInvariant'
<1> USE DEF TimerInvariant, WriteRegister, timerVars
<1>1. Shapes'
  BY DEF Shapes
<1>2. Ready'
  BY DEF Shapes, Ready
<1>3. ASSUME NEW x \in CPU, x # c PROVE TimerOK(x)'
  <2>1. writes'[x] = writes[x] /\ reg'[x] = reg[x]
    BY <1>3 DEF Shapes
  <2>2. active[x] => ~Measuring
    BY DEF Ready, Measuring
  <2> QED BY <2>1, <2>2, TimerKept DEF Measuring
<1>4. TimerOK(c)'
  <2>1. PICK vector, masked, periodic, n, d :
          /\ Underway(c, vector, masked, periodic, n, d)
          /\ Asked(c, vector, masked, periodic, n, d)
    BY DEF TimerOK
  <2>2. Asked(c, vector, masked, periodic, n, d)'
    BY <2>1 DEF Asked, Measuring
  <2> DEFINE w == Head(writes[c])
  <2>3. /\ reg'[c] = [f \in DOMAIN reg[c] |-> IF f \in DOMAIN w THEN w[f] ELSE reg[c][f]]
        /\ writes'[c] = Tail(writes[c])
    BY DEF Shapes
  <2>4. DOMAIN reg[c] = {"vector", "masked", "periodic", "count", "divider"}
    BY DEF Shapes
  <2>5. Underway(c, vector, masked, periodic, n, d)'
    <3>1. CASE writes[c] = <<[vector |-> vector, masked |-> masked, periodic |-> periodic],
                             [count |-> n], [divider |-> d]>>
      <4>1. w = [vector |-> vector, masked |-> masked, periodic |-> periodic]
        BY <3>1
      <4>2. writes'[c] = <<[count |-> n], [divider |-> d]>>
        BY <2>3, <3>1
      <4>3. /\ reg'[c].vector = vector /\ reg'[c].masked = masked
            /\ reg'[c].periodic = periodic /\ reg'[c].count = reg[c].count
        BY <2>3, <2>4, <4>1
      <4>4. masked \/ reg[c].count = 0
        BY <2>1, <3>1 DEF Underway
      <4> QED BY <4>2, <4>3, <4>4 DEF Underway
    <3>2. CASE writes[c] = <<[count |-> n], [divider |-> d]>>
      <4>1. w = [count |-> n]
        BY <3>2
      <4>2. writes'[c] = <<[divider |-> d]>>
        BY <2>3, <3>2
      <4>3. /\ reg'[c].vector = reg[c].vector /\ reg'[c].masked = reg[c].masked
            /\ reg'[c].periodic = reg[c].periodic /\ reg'[c].count = n
        BY <2>3, <2>4, <4>1
      <4>4. /\ reg[c].vector = vector /\ reg[c].masked = masked /\ reg[c].periodic = periodic
        BY <2>1, <3>2 DEF Underway
      <4> QED BY <4>2, <4>3, <4>4 DEF Underway
    <3>3. CASE writes[c] = <<[divider |-> d]>>
      <4>1. w = [divider |-> d]
        BY <3>3
      <4>2. writes'[c] = << >>
        BY <2>3, <3>3
      <4>3. /\ reg'[c].vector = reg[c].vector /\ reg'[c].masked = reg[c].masked
            /\ reg'[c].periodic = reg[c].periodic /\ reg'[c].count = reg[c].count
            /\ reg'[c].divider = d
        BY <2>3, <2>4, <4>1
      <4>4. /\ reg[c].vector = vector /\ reg[c].masked = masked /\ reg[c].periodic = periodic
            /\ reg[c].count = n
        BY <2>1, <3>3 DEF Underway
      <4> QED BY <4>2, <4>3, <4>4 DEF Underway
    <3> QED BY <2>1, <3>1, <3>2, <3>3 DEF Underway
  <2> QED BY <2>2, <2>5 DEF TimerOK
<1> QED BY <1>1, <1>2, <1>3, <1>4

\* setTimer() is called for c, when nothing is left to write and the timer does not
\* count, or its interrupt is masked and stays so.
LEMMA CallKeeps ==
  ASSUME Shapes, NEW c \in CPU, NEW n, NEW d, NEW vector, NEW periodic, NEW masked,
         setTimer(c, n, d, vector, periodic, masked),
         (masked /\ reg[c].masked) \/ reg[c].count = 0,
         UNCHANGED reg
  PROVE  /\ Underway(c, vector, masked, periodic, n, timer_div(d))'
         /\ writes' = [x \in CPU |-> writes'[x]]
         /\ \A x \in CPU \ {c} : writes'[x] = writes[x]
<1> DEFINE q == <<[vector |-> vector, masked |-> masked, periodic |-> periodic],
                  [count |-> n], [divider |-> timer_div(d)]>>
<1>1. writes' = [writes EXCEPT ![c] = q]
  BY DEF setTimer
<1>2. writes'[c] = q
  BY <1>1 DEF Shapes
<1>3. writes' = [x \in CPU |-> writes'[x]]
  BY <1>1 DEF Shapes
<1>4. \A x \in CPU \ {c} : writes'[x] = writes[x]
  BY <1>1 DEF Shapes
<1> QED BY <1>2, <1>3, <1>4 DEF Underway

\* A step of BSP that does not touch a timer.
LEMMA QuietKeeps ==
  ASSUME TimerInvariant, UNCHANGED <<writes, reg, active>>,
         UNCHANGED <<plugged, _ticks>>,
         ~Measuring, ~Measuring',
         \A c \in CPU : active[c] => pc' = <<"main", "boot">> /\ _divide' = _divide,
         pc' \in {<<"windup", "fit">>, <<"main", "boot">>} => writes[BSP] = << >> \/ active[BSP]
  PROVE  TimerInvariant'
<1>1. Shapes' /\ Ready'
  BY DEF TimerInvariant, Shapes, Ready
<1>2. ASSUME NEW c \in CPU PROVE TimerOK(c)'
  BY TimerKept DEF TimerInvariant
<1> QED BY <1>1, <1>2 DEF TimerInvariant

\* BSP sets its timer, which does not run yet.
LEMMA SetKeeps ==
  ASSUME TimerInvariant, NEW n, NEW d, NEW vector, NEW periodic, NEW masked \in BOOLEAN,
         setTimer(BSP, n, d, vector, periodic, masked),
         UNCHANGED <<reg, active>>,
         \A c \in CPU : ~active[c],
         masked \/ (n = 0 /\ writes[BSP] = << >> /\ ~Measuring),
         n = 0 \/ Measuring',
         Measuring' => d = 1,
         ~Measuring \/ ~Measuring',
         pc' \notin {<<"windup", "fit">>, <<"main", "boot">>},
         plugged' \/ _ticks' = 0
  PROVE  TimerInvariant'
<1>1. BSP \in CPU
  BY RateAssumption
<1>2. (masked /\ reg[BSP].masked) \/ reg[BSP].count = 0
  BY <1>1, TimerSilent DEF TimerInvariant
<1>3. /\ Underway(BSP, vector, masked, periodic, n, timer_div(d))'
      /\ writes' = [x \in CPU |-> writes'[x]]
      /\ \A x \in CPU \ {BSP} : writes'[x] = writes[x]
  BY <1>1, <1>2, CallKeeps DEF TimerInvariant
<1>4. Shapes' /\ Ready'
  BY <1>1, <1>3 DEF TimerInvariant, Shapes, Ready
<1>5. Asked(BSP, vector, masked, periodic, n, timer_div(d))'
  BY <1>1 DEF Asked
<1>6. TimerOK(BSP)'
  BY <1>3, <1>5 DEF TimerOK
<1>7. ASSUME NEW c \in CPU, c # BSP PROVE TimerOK(c)'
  BY <1>3, <1>7, TimerKept DEF TimerInvariant
<1> QED BY <1>4, <1>6, <1>7 DEF TimerInvariant

LEMMA ActivateKeeps ==
  ASSUME TimerInvariant, NEW c \in CPU, activate(c) PROVE TimerInvariant'
<1> USE DEF activate
<1>1. writes[c] = << >> /\ ~Measuring /\ ~Measuring'
  BY DEF TimerInvariant, Ready, Measuring
<1>2. reg[c].count = 0
  BY <1>1, TimerSilent DEF TimerInvariant
<1>3. /\ Underway(c, TimerVector, FALSE, TRUE, _ticks, timer_div(_divide))'
      /\ writes' = [x \in CPU |-> writes'[x]]
      /\ \A x \in CPU \ {c} : writes'[x] = writes[x]
  BY <1>2, CallKeeps DEF TimerInvariant
<1>4. /\ active' = [x \in CPU |-> active'[x]] /\ active'[c]
      /\ \A x \in CPU \ {c} : active'[x] = active[x]
  BY DEF TimerInvariant, Shapes
<1>5. Shapes'
  BY <1>3, <1>4 DEF TimerInvariant, Shapes
<1>6. Ready'
  BY <1>3, <1>4, RateAssumption DEF TimerInvariant, Ready, Shapes
<1>7. TimerOK(c)'
  <2>1. Asked(c, TimerVector, FALSE, TRUE, _ticks, timer_div(_divide))'
    BY <1>1, <1>4 DEF Asked
  <2>2. Underway(c, TimerVector, FALSE, TRUE, _ticks, timer_div(_divide))'
    BY <1>3 DEF Underway
  <2> QED BY <2>1, <2>2 DEF TimerOK
<1>8. ASSUME NEW x \in CPU, x # c PROVE TimerOK(x)'
  BY <1>1, <1>3, <1>4, <1>8, TimerKept DEF TimerInvariant
<1> QED BY <1>5, <1>6, <1>7, <1>8 DEF TimerInvariant

\* The statements of timer_ticks(), called by f.
LEMMA MeasureKeeps ==
  ASSUME TimerInvariant, NEW f \in {"windup", "interval"}, timer_ticks(f)
  PROVE  TimerInvariant'
<1> USE DEF Goto, timerVars
<1>1. CASE StartTimer(f)
  <2>1. /\ \A c \in CPU : ~active[c]
        /\ ~Measuring /\ Measuring'
        /\ pc' \notin {<<"windup", "fit">>, <<"main", "boot">>}
    BY <1>1 DEF StartTimer, TimerInvariant, Ready, Measuring, Shapes
  <2> QED BY <1>1, <2>1, SetKeeps DEF StartTimer, TimerInvariant, Ready
<1>2. CASE StopTimer(f)
  <2>1. /\ \A c \in CPU : ~active[c]
        /\ ~Measuring'
        /\ pc' \notin {<<"windup", "fit">>, <<"main", "boot">>}
    BY <1>2 DEF StopTimer, TimerInvariant, Ready, Measuring, Shapes
  <2> QED BY <1>2, <2>1, SetKeeps DEF StopTimer, TimerInvariant, Ready
<1>3. CASE DivideBy(ticks * Micro, PitTime, <<f, "divide">>, <<f, "freq">>)
  <2>1. /\ ~Measuring /\ ~Measuring' /\ \A c \in CPU : ~active[c]
        /\ pc' \notin {<<"windup", "fit">>, <<"main", "boot">>}
    BY <1>3 DEF DivideBy, TimerInvariant, Ready, Measuring, Shapes
  <2> QED BY <1>3, <2>1, QuietKeeps DEF DivideBy
<1>4. CASE GotFreq(f)
  <2>1. /\ ~Measuring /\ ~Measuring' /\ \A c \in CPU : ~active[c]
        /\ pc' \notin {<<"windup", "fit">>, <<"main", "boot">>}
    BY <1>4 DEF GotFreq, TimerInvariant, Ready, Measuring, Shapes
  <2> QED BY <1>4, <2>1, QuietKeeps DEF GotFreq
<1> QED BY <1>1, <1>2, <1>3, <1>4 DEF timer_ticks

LEMMA TimerNext == TimerInvariant /\ [TNext]_allVars => TimerInvariant'
<1> SUFFICES ASSUME TimerInvariant, [TNext]_allVars PROVE TimerInvariant'
  OBVIOUS
<1> USE DEF timerVars
<1>1. CASE DivideBy(us * freq["windup"], Milli, <<"windup", "measured">>, <<"windup", "ticks">>)
  <2>1. /\ ~Measuring /\ ~Measuring' /\ \A c \in CPU : ~active[c]
        /\ pc' \notin {<<"windup", "fit">>, <<"main", "boot">>}
    BY <1>1 DEF DivideBy, Goto, TimerInvariant, Ready, Measuring, Shapes
  <2> QED BY <1>1, <2>1, QuietKeeps DEF DivideBy
<1>2. CASE GotTicks
  <2>1. /\ ~Measuring /\ ~Measuring' /\ \A c \in CPU : ~active[c]
        /\ writes[BSP] = << >>
    BY <1>2 DEF GotTicks, Goto, TimerInvariant, Ready, Measuring, Shapes
  <2> QED BY <1>2, <2>1, QuietKeeps DEF GotTicks
<1>3. CASE Halve
  <2>1. /\ ~Measuring /\ ~Measuring' /\ \A c \in CPU : ~active[c]
        /\ writes[BSP] = << >>
    BY <1>3, RateAssumption DEF Halve, TimerInvariant, Ready, Measuring, Shapes
  <2> QED BY <1>3, <2>1, QuietKeeps DEF Halve
<1>4. CASE Assign
  <2>1. /\ ~Measuring /\ ~Measuring' /\ \A c \in CPU : ~active[c]
        /\ writes[BSP] = << >>
        /\ pc' \notin {<<"windup", "fit">>, <<"main", "boot">>}
    BY <1>4, RateAssumption DEF Assign, TimerInvariant, Ready, Measuring, Shapes
  <2> QED BY <1>4, <2>1, SetKeeps DEF Assign
<1>5. CASE DivideBy(_ticks * _divide * Milli, freq["interval"],
                    <<"interval", "measured">>, <<"interval", "us">>)
  <2>1. /\ ~Measuring /\ ~Measuring' /\ \A c \in CPU : ~active[c]
        /\ pc' \notin {<<"windup", "fit">>, <<"main", "boot">>}
    BY <1>5 DEF DivideBy, Goto, TimerInvariant, Ready, Measuring, Shapes
  <2> QED BY <1>5, <2>1, QuietKeeps DEF DivideBy
<1>6. CASE GotInterval
  <2>1. /\ ~Measuring /\ ~Measuring' /\ \A c \in CPU : ~active[c]
        /\ writes[BSP] = << >>
    BY <1>6 DEF GotInterval, Goto, TimerInvariant, Ready, Measuring, Shapes
  <2> QED BY <1>6, <2>1, QuietKeeps DEF GotInterval
<1>7. CASE Dividing \/ UNCHANGED allVars
  <2>1. UNCHANGED <<writes, reg, active, _ticks, _divide, plugged, pc>>
    BY <1>7 DEF Dividing, allVars
  <2>2. Shapes' /\ Ready'
    BY <2>1 DEF TimerInvariant, Shapes, Ready
  <2>3. ASSUME NEW c \in CPU PROVE TimerOK(c)'
    <3>1. active[c] => ~Measuring
      BY DEF TimerInvariant, Ready, Measuring
    <3> QED BY <2>1, <3>1, TimerKept DEF TimerInvariant, Measuring
  <2> QED BY <2>2, <2>3 DEF TimerInvariant
<1>8. ASSUME NEW f \in {"windup", "interval"}, timer_ticks(f) PROVE TimerInvariant'
  BY <1>8, MeasureKeeps
<1>9. ASSUME NEW c \in CPU, WriteRegister(c) \/ activate(c) PROVE TimerInvariant'
  BY <1>9, WriteKeeps, ActivateKeeps
<1> QED BY <1>1, <1>2, <1>3, <1>4, <1>5, <1>6, <1>7, <1>8, <1>9
        DEF TNext, windup, interval

\* On any number of CPUs, with timers of any speed, none raises an interrupt before
\* its CPU has called activate(), although the boot CPU measures, winds up and
\* measures again with its timer, register by register (watch.cc 9-69).
THEOREM TimersArmedByActivate == TSpec => []ArmedByActivate
<1>1. TimerInvariant => ArmedByActivate
  BY TimerSilent DEF TimerInvariant, Ready, ArmedByActivate
<1> QED BY <1>1, TimerInit, TimerNext, PTL DEF TSpec
-----------------------------------------------------------------------------
(* The interval                                                            *)

\* The register value for a divider makes the hardware divide by it.
LEMMA DividerTable == \A d \in Dividers : DividesBy(timer_div(d)) = d
<1> DEFINE e(k) == 2 ^ k
<1>1. /\ e(0) = 1 /\ e(1) = 2 /\ e(2) = 4 /\ e(3) = 8
      /\ e(4) = 16 /\ e(5) = 32 /\ e(6) = 64 /\ e(7) = 128
  OBVIOUS
<1>2. \A k \in 0 .. 7 : k \in {0, 1, 2, 3, 4, 5, 6, 7}
  OBVIOUS
<1>3. /\ masks[1] = 11 /\ masks[2] = 0 /\ masks[3] = 1 /\ masks[4] = 2
      /\ masks[5] = 3 /\ masks[6] = 8 /\ masks[7] = 9 /\ masks[8] = 10
  BY DEF masks
<1>4. /\ DividesBy(11) = e(0) /\ DividesBy(0) = e(1) /\ DividesBy(1) = e(2)
      /\ DividesBy(2) = e(3) /\ DividesBy(3) = e(4) /\ DividesBy(8) = e(5)
      /\ DividesBy(9) = e(6) /\ DividesBy(10) = e(7)
  BY DEF DividesBy
<1>5. \A div : timer_div(div) = IF \E k \in 0 .. 7 : div = e(k)
                                THEN masks[(CHOOSE k \in 0 .. 7 : div = e(k)) + 1]
                                ELSE 255
  BY DEF timer_div
<1> HIDE DEF e
<1>6. \A i, j \in 0 .. 7 : e(i) = e(j) => i = j
  BY <1>1, <1>2
<1>7. ASSUME NEW k \in 0 .. 7 PROVE timer_div(e(k)) = masks[k + 1]
  <2>1. (CHOOSE x \in 0 .. 7 : e(k) = e(x)) = k
    BY <1>6
  <2> QED BY <1>5, <2>1
<1>8. ASSUME NEW k \in 0 .. 7 PROVE DividesBy(masks[k + 1]) = e(k)
  <2>1. k \in {0, 1, 2, 3, 4, 5, 6, 7}
    BY <1>2
  <2> QED BY <1>3, <1>4, <2>1
<1>9. ASSUME NEW d \in Dividers PROVE \E k \in 0 .. 7 : d = e(k)
  BY <1>1, <1>9 DEF Dividers
<1> QED BY <1>7, <1>8, <1>9

\* The quotient is what \div says.
LEMMA QuotientIsDiv ==
  ASSUME NEW a \in Nat, NEW b \in Nat, NEW q \in Nat, NEW r \in Nat,
         a = q * b + r, r < b
  PROVE  a \div b = q
<1> DEFINE w == a \div b
<1>1. w \in Nat /\ w * b <= a /\ a < (w + 1) * b
  OBVIOUS
<1> HIDE DEF w
<1>2. ASSUME NEW x \in Nat, NEW y \in Nat, x < y PROVE (x + 1) * b <= y * b
  <2>1. PICK z \in Nat : y = (x + 1) + z
    BY <1>2
  <2>2. y * b = (x + 1) * b + z * b /\ z * b \in Nat /\ (x + 1) * b \in Nat
    BY <2>1
  <2> QED BY <2>2
<1>3. q * b <= a /\ a < (q + 1) * b
  <2>1. (q + 1) * b = q * b + b /\ q * b \in Nat
    OBVIOUS
  <2> QED BY <2>1
<1>4. ~(q < w)
  <2>1. /\ q * b \in Nat /\ (q + 1) * b \in Nat /\ w * b \in Nat
    BY <1>1
  <2> QED BY <1>1, <1>2, <1>3, <2>1
<1>5. ~(w < q)
  <2>1. /\ q * b \in Nat /\ (w + 1) * b \in Nat
    BY <1>1
  <2> QED BY <1>1, <1>2, <1>3, <2>1
<1>6. w = q
  BY <1>1, <1>4, <1>5
<1> QED BY <1>6 DEF w

Winding == {<<"windup", s>> : s \in {"start", "pit", "divide", "freq", "measured", "ticks"}}
Wound == {<<"interval", s>> : s \in {"start", "pit", "divide", "freq", "measured", "us"}}
         \cup {<<"main", "boot">>}

\* t steps of the divider are the interval, and half of the divider would not do.
Fits(t) == /\ _divide \in Dividers
           /\ t * _divide <= Wanted /\ Wanted < (t + 1) * _divide
           /\ _divide = 1 \/ Wanted >= (HalfCount + 1) * (_divide \div 2)

\* windup() finds a divider.
Settable == Wanted < 128 * (HalfCount + 1)

FlowTypes ==
  /\ us \in Interval /\ rate \in Rate /\ freq \in [{"windup", "interval"} -> 0 .. MaxCount]
  /\ ticks \in Nat /\ _ticks \in 0 .. HalfCount /\ _divide \in Dividers \cup {0}
  /\ pc \in Winding \cup {<<"windup", "fit">>} \cup Wound

\* What a statement of BSP relies on: the factors of the products that it divides,
\* and how much of the interval is in the ticks.
FlowAt ==
  /\ \A f \in {"windup", "interval"} : pc = <<f, "divide">> => ticks * Micro < Bit[Width]
  /\ pc = <<"windup", "ticks">> => dividend = us * freq["windup"] /\ divisor = Milli
  /\ pc \in Winding => _divide = 1
  /\ Settable /\ pc = <<"windup", "fit">> => Fits(ticks)
  /\ Settable /\ pc \in Wound => Fits(_ticks)

Flow == Invariant /\ FlowTypes /\ FlowAt

LEMMA Constants ==
  /\ Micro \in Word /\ PitTime \in Word /\ Milli \in Word /\ Milli \in Nat \ {0}
  /\ Micro \in Nat /\ HalfCount \in Nat /\ MaxCount \in Nat /\ Bit[Width] \in Nat
  /\ \A r \in Rate, j \in Jitter :
       r + j \in Nat /\ (r + j) * Micro \in Nat /\ (r + j) * Micro < Bit[Width]
<1>1. Bit[Width] \in Nat \ {0}
  BY TopBit
<1>2. Micro \in Nat /\ PitTime \in Nat /\ Milli \in Nat \ {0}
  BY <1>1, WordAssumption
<1>3. ASSUME NEW r \in Rate, NEW j \in Jitter
      PROVE  r + j \in Nat /\ (r + j) * Micro \in Nat /\ (r + j) * Micro < Bit[Width]
  <2>1. r \in Nat /\ j \in Nat /\ r + j \in Nat
    BY WordAssumption
  <2>2. (r + j) * Micro \in Nat
    BY <1>2, <2>1
  <2> QED BY <2>1, <2>2, RateAssumption
<1> QED BY <1>1, <1>2, <1>3, WordAssumption DEF Word

LEMMA WantedIsNat == FlowTypes => Wanted \in Nat
<1> SUFFICES ASSUME FlowTypes PROVE Wanted \in Nat
  OBVIOUS
<1>1. us \in Nat /\ freq["windup"] \in Nat
  BY WordAssumption, Constants DEF FlowTypes
<1>2. us * freq["windup"] \in Nat
  BY <1>1
<1> QED BY <1>2, Constants DEF Wanted

\* The ticks are halved and the divider is doubled.
LEMMA Halved ==
  ASSUME NEW w \in Nat, NEW t \in Nat, NEW d \in Dividers, d # 128,
         t * d <= w, w < (t + 1) * d, NEW h \in Nat, t > h
  PROVE  /\ 2 * d \in Dividers /\ (2 * d) % 256 = 2 * d
         /\ (t \div 2) * (2 * d) <= w /\ w < (t \div 2 + 1) * (2 * d)
         /\ w >= (h + 1) * ((2 * d) \div 2)
<1>1. d \in {1, 2, 4, 8, 16, 32, 64}
  BY DEF Dividers
<1>2. 2 * d \in Dividers /\ (2 * d) % 256 = 2 * d /\ (2 * d) \div 2 = d
  BY <1>1 DEF Dividers
<1>3. PICK q \in Nat : t \div 2 = q /\ (t = 2 * q \/ t = 2 * q + 1)
  OBVIOUS
<1>4. q * (2 * d) <= w
  BY <1>1, <1>3
<1>5. w < (q + 1) * (2 * d)
  BY <1>1, <1>3
<1>6. w >= (h + 1) * d
  BY <1>1
<1> QED BY <1>2, <1>3, <1>4, <1>5, <1>6

LEMMA FlowInit == TInit => Flow
<1> SUFFICES ASSUME TInit PROVE Flow
  OBVIOUS
<1>1. Invariant
  BY InitInvariant DEF TInit
<1>2. FlowTypes
  BY Constants DEF TInit, FlowTypes, Winding, Dividers
<1>3. FlowAt
  BY DEF TInit, FlowAt, Winding, Wound
<1> QED BY <1>1, <1>2, <1>3 DEF Flow

\* A step that leaves BSP where it is.
LEMMA FlowKept ==
  ASSUME Flow, UNCHANGED <<us, rate, ticks, freq, _divide, _ticks, pc>>,
         UNCHANGED <<dividend, divisor>>, Invariant'
  PROVE  Flow'
<1>1. UNCHANGED Wanted
  BY DEF Wanted
<1>2. UNCHANGED Settable
  BY <1>1 DEF Settable
<1>3. FlowTypes'
  BY DEF Flow, FlowTypes
<1>4. \A t : Fits(t) <=> Fits(t)'
  BY <1>1 DEF Fits
<1>5. FlowAt'
  BY <1>2, <1>4 DEF Flow, FlowAt
<1> QED BY <1>3, <1>5 DEF Flow

\* BSP goes on to a statement that relies on nothing new.
LEMMA FlowGoes ==
  ASSUME Flow, UNCHANGED <<us, rate, ticks, freq, _divide, _ticks>>, Invariant',
         pc' \in (Winding \cup Wound) \ {<<"windup", "ticks">>, <<"windup", "divide">>,
                                         <<"interval", "divide">>},
         pc' \in Winding <=> pc \in Winding, pc \in Wound <=> pc' \in Wound
  PROVE  Flow'
<1>1. UNCHANGED Wanted
  BY DEF Wanted
<1>2. UNCHANGED Settable
  BY <1>1 DEF Settable
<1>3. FlowTypes'
  BY DEF Flow, FlowTypes
<1>4. \A t : Fits(t) <=> Fits(t)'
  BY <1>1 DEF Fits
<1>5. pc' # <<"windup", "fit">>
  BY DEF Winding, Wound
<1>6. FlowAt'
  BY <1>2, <1>4, <1>5 DEF Flow, FlowAt
<1> QED BY <1>3, <1>6 DEF Flow

\* An arithmetic call leaves the quotient that \div is.
LEMMA ReturnedIsDiv ==
  ASSUME Invariant, Return
  PROVE  quot \in Nat /\ quot = dividend \div divisor
<1>1. dividend = quot * divisor + num /\ num < divisor
  BY DEF Invariant, Progressing, QuotientCorrect, Return
<1>2. dividend \in Nat /\ divisor \in Nat /\ quot \in Nat /\ num \in Nat
  BY TopBit DEF Invariant, DivTypeOK, Word
<1> QED BY <1>1, <1>2, QuotientIsDiv

LEMMA MeasuredFlow ==
  ASSUME TimerInvariant, Flow, NEW f \in {"windup", "interval"}, timer_ticks(f)
  PROVE  Flow'
<1> USE DEF Goto
<1>1. CASE StartTimer(f)
  <2>1. UNCHANGED <<us, rate, ticks, freq, _divide, _ticks, divVars>>
    BY <1>1 DEF StartTimer, timerVars
  <2>2. Invariant'
    BY <2>1, NextInvariant DEF Flow
  <2>3. pc = <<f, "start">> /\ pc' = <<f, "pit">>
    BY <1>1 DEF StartTimer
  <2>4. CASE f = "windup"
    BY <2>1, <2>2, <2>3, <2>4, FlowGoes DEF Winding, Wound
  <2>5. CASE f = "interval"
    BY <2>1, <2>2, <2>3, <2>5, FlowGoes DEF Winding, Wound
  <2> QED BY <2>4, <2>5
<1>2. CASE StopTimer(f)
  <2>1. UNCHANGED <<us, rate, freq, _divide, _ticks, divVars>>
    BY <1>2 DEF StopTimer
  <2>2. Invariant'
    BY <2>1, NextInvariant DEF Flow
  <2>3. pc = <<f, "pit">> /\ pc' = <<f, "divide">> /\ writes[BSP] = << >>
    BY <1>2 DEF StopTimer
  <2>4. DividesBy(reg[BSP].divider) = 1
    <3>1. PICK vector, masked, periodic, n, d :
            /\ Underway(BSP, vector, masked, periodic, n, d)
            /\ Asked(BSP, vector, masked, periodic, n, d)
      BY RateAssumption DEF TimerInvariant, TimerOK
    <3>2. Measuring
      BY <2>3 DEF Measuring
    <3>3. reg[BSP].divider = timer_div(1)
      BY <2>3, <3>1, <3>2 DEF Underway, Asked
    <3> QED BY <3>3, DividerTable DEF Dividers
  <2>5. ticks' \in Nat /\ ticks' * Micro < Bit[Width]
    <3>1. PICK j \in Jitter : ticks' = (rate + j) \div DividesBy(reg[BSP].divider)
      BY <1>2 DEF StopTimer
    <3>2. rate + j \in Nat /\ (rate + j) * Micro < Bit[Width]
      BY Constants DEF Flow, FlowTypes
    <3>3. (rate + j) \div 1 = rate + j
      BY <3>2
    <3>4. ticks' = rate + j
      BY <2>4, <3>1, <3>3
    <3> QED BY <3>2, <3>4
  <2>6. UNCHANGED Wanted
    BY <2>1 DEF Wanted
  <2>7. UNCHANGED Settable
    BY <2>6 DEF Settable
  <2>8. \A t : Fits(t) <=> Fits(t)'
    BY <2>1, <2>6 DEF Fits
  <2>9. /\ pc \in Winding <=> pc' \in Winding
        /\ pc \in Wound <=> pc' \in Wound
        /\ pc' \in Winding \cup Wound
        /\ pc' \notin {<<"windup", "fit">>, <<"windup", "ticks">>}
    <3>1. CASE f = "windup"
      BY <2>3, <3>1 DEF Winding, Wound
    <3>2. CASE f = "interval"
      BY <2>3, <3>2 DEF Winding, Wound
    <3> QED BY <3>1, <3>2
  <2>10. FlowTypes'
    BY <2>1, <2>5, <2>9 DEF Flow, FlowTypes
  <2>11. FlowAt'
    BY <2>1, <2>5, <2>7, <2>8, <2>9 DEF Flow, FlowAt
  <2> QED BY <2>2, <2>10, <2>11 DEF Flow
<1>3. CASE DivideBy(ticks * Micro, PitTime, <<f, "divide">>, <<f, "freq">>)
  <2>1. UNCHANGED <<us, rate, ticks, freq, _divide, _ticks>>
    BY <1>3 DEF DivideBy, timerVars
  <2>2. pc = <<f, "divide">> /\ pc' = <<f, "freq">> /\ Call(ticks * Micro, PitTime)
    BY <1>3 DEF DivideBy
  <2>3. ticks * Micro \in Word
    <3>1. ticks * Micro < Bit[Width] /\ ticks \in Nat
      BY <2>2 DEF Flow, FlowAt, FlowTypes
    <3>2. ticks * Micro \in Nat
      BY <3>1, Constants
    <3> QED BY <3>1, <3>2, Constants DEF Word
  <2>4. Invariant'
    BY <2>2, <2>3, Constants, CallInvariant DEF Flow
  <2>5. CASE f = "windup"
    BY <2>1, <2>2, <2>4, <2>5, FlowGoes DEF Winding, Wound
  <2>6. CASE f = "interval"
    BY <2>1, <2>2, <2>4, <2>6, FlowGoes DEF Winding, Wound
  <2> QED BY <2>5, <2>6
<1>4. CASE GotFreq(f)
  <2>1. UNCHANGED <<us, rate, ticks, _divide, _ticks>>
    BY <1>4 DEF GotFreq
  <2>2. pc = <<f, "freq">> /\ pc' = <<f, "measured">> /\ Return
    BY <1>4 DEF GotFreq
  <2>3. Invariant'
    BY <2>2, NextInvariant DEF Flow, DivNext
  <2>4. quot \in Nat
    BY <2>2, ReturnedIsDiv DEF Flow
  <2>5. quot % (MaxCount + 1) \in 0 .. MaxCount
    BY <2>4, Constants
  <2>6. freq' \in [{"windup", "interval"} -> 0 .. MaxCount]
    BY <1>4, <2>5 DEF GotFreq, Flow, FlowTypes
  <2>7. CASE f = "windup"
    <3>1. pc' \in Winding /\ pc \in Winding /\ pc' \notin Wound
      BY <2>2, <2>7 DEF Winding, Wound
    <3>2. FlowTypes'
      BY <2>1, <2>6, <3>1 DEF Flow, FlowTypes
    <3>3. FlowAt'
      BY <2>1, <2>2, <2>7, <3>1 DEF Flow, FlowAt
    <3> QED BY <2>3, <3>2, <3>3 DEF Flow
  <2>8. CASE f = "interval"
    <3>1. pc' \in Wound /\ pc \in Wound /\ pc' \notin Winding
      BY <2>2, <2>8 DEF Winding, Wound
    <3>2. freq'["windup"] = freq["windup"]
      BY <1>4, <2>8 DEF GotFreq, Flow, FlowTypes
    <3>3. UNCHANGED Wanted
      BY <2>1, <3>2 DEF Wanted
    <3>4. UNCHANGED Settable
      BY <3>3 DEF Settable
    <3>5. \A t : Fits(t) <=> Fits(t)'
      BY <2>1, <3>3 DEF Fits
    <3>6. FlowTypes'
      BY <2>1, <2>6, <3>1 DEF Flow, FlowTypes
    <3>7. FlowAt'
      BY <2>1, <2>2, <3>1, <3>4, <3>5 DEF Flow, FlowAt
    <3> QED BY <2>3, <3>6, <3>7 DEF Flow
  <2> QED BY <2>7, <2>8
<1> QED BY <1>1, <1>2, <1>3, <1>4 DEF timer_ticks

\* Nothing overflows on the way, and windup() sets the smallest divider that fits.
LEMMA FlowNext == TimerInvariant /\ Flow /\ [TNext]_allVars => Flow'
<1> SUFFICES ASSUME TimerInvariant, Flow, [TNext]_allVars PROVE Flow'
  OBVIOUS
<1> USE DEF Goto
<1>1. CASE DivideBy(us * freq["windup"], Milli, <<"windup", "measured">>, <<"windup", "ticks">>)
  <2>1. UNCHANGED <<us, rate, ticks, freq, _divide, _ticks>>
    BY <1>1 DEF DivideBy, timerVars
  <2>2. /\ pc = <<"windup", "measured">> /\ pc' = <<"windup", "ticks">>
        /\ Call(us * freq["windup"], Milli)
    BY <1>1 DEF DivideBy
  <2>3. us * freq["windup"] \in Word
    <3>1. us \in Interval /\ us \in Nat /\ freq["windup"] \in 0 .. MaxCount
      BY WordAssumption DEF Flow, FlowTypes
    <3>2. ASSUME NEW a \in Nat, NEW b \in 0 .. MaxCount, a * MaxCount < Bit[Width]
          PROVE  a * b \in 0 .. (Bit[Width] - 1)
      <4>1. PICK r \in Nat : MaxCount = b + r
        BY Constants
      <4>2. a * MaxCount = a * b + a * r /\ a * b \in Nat /\ a * r \in Nat
        BY <4>1
      <4> QED BY <3>2, <4>2, Constants
    <3>3. us * MaxCount < Bit[Width]
      BY <3>1, WordAssumption
    <3> QED BY <3>1, <3>2, <3>3 DEF Word
  <2>4. Invariant'
    BY <2>2, <2>3, Constants, CallInvariant DEF Flow
  <2>5. pc \in Winding /\ pc' \in Winding /\ pc' \notin Wound
    BY <2>2 DEF Winding, Wound
  <2>6. FlowTypes'
    BY <2>1, <2>5 DEF Flow, FlowTypes
  <2>7. dividend' = us' * freq'["windup"] /\ divisor' = Milli
    BY <2>1, <2>2 DEF Call
  <2>8. FlowAt'
    BY <2>1, <2>2, <2>5, <2>7 DEF Flow, FlowAt
  <2> QED BY <2>4, <2>6, <2>8 DEF Flow
<1>2. CASE GotTicks
  <2>1. /\ UNCHANGED <<us, rate, freq, _divide, _ticks>> /\ ticks' = quot
        /\ pc = <<"windup", "ticks">> /\ pc' = <<"windup", "fit">> /\ Return
    BY <1>2 DEF GotTicks
  <2>2. Invariant'
    BY <2>1, NextInvariant DEF Flow, DivNext
  <2>3. quot \in Nat /\ quot = dividend \div divisor
    BY <2>1, ReturnedIsDiv DEF Flow
  <2>4. dividend = us * freq["windup"] /\ divisor = Milli
    BY <2>1 DEF Flow, FlowAt
  <2>5. ticks' = Wanted /\ Wanted' = Wanted
    BY <2>1, <2>3, <2>4 DEF Wanted
  <2>6. pc \in Winding /\ pc' \notin Winding \cup Wound
    BY <2>1 DEF Winding, Wound
  <2>7. _divide' = 1
    BY <2>1, <2>6 DEF Flow, FlowAt
  <2>8. FlowTypes'
    BY <2>1, <2>3, <2>6 DEF Flow, FlowTypes
  <2>9. Fits(ticks)'
    <3>1. /\ ticks' \in Nat /\ 1 \in Dividers
          /\ ticks' * 1 = ticks' /\ ticks' < (ticks' + 1) * 1
      BY <2>1, <2>3 DEF Dividers
    <3>2. Wanted' = ticks'
      BY <2>5
    <3>3. ticks' * _divide' = ticks' /\ ticks' < (ticks' + 1) * _divide'
      BY <2>7, <3>1
    <3>4. ticks' * _divide' <= Wanted' /\ Wanted' < (ticks' + 1) * _divide'
      BY <3>1, <3>2, <3>3
    <3>5. _divide' \in Dividers /\ (_divide' = 1 \/ Wanted' >= (HalfCount + 1) * (_divide' \div 2))
      BY <2>7, <3>1
    <3> QED BY ONLY <3>4, <3>5 DEF Fits
  <2>10. FlowAt'
    BY <2>1, <2>6, <2>9 DEF FlowAt
  <2> QED BY <2>2, <2>8, <2>10 DEF Flow
<1>3. CASE Halve
  <2>1. /\ pc = <<"windup", "fit">> /\ ticks > HalfCount
        /\ ticks' = ticks \div 2 /\ _divide' = (2 * _divide) % 256
        /\ UNCHANGED <<divVars, us, rate, freq, _ticks>>
    BY <1>3 DEF Halve
  <2>2. Invariant'
    BY <2>1, NextInvariant DEF Flow
  <2>3. UNCHANGED Wanted /\ Wanted \in Nat
    BY <2>1, WantedIsNat DEF Wanted, Flow
  <2>4. UNCHANGED Settable
    BY <2>3 DEF Settable
  <2>5. _divide' \in Dividers \cup {0} /\ ~(_divide' > 128)
    <3>1. _divide \in {0, 1, 2, 4, 8, 16, 32, 64, 128}
      BY DEF Flow, FlowTypes, Dividers
    <3> QED BY <2>1, <3>1 DEF Dividers
  <2>6. pc' = pc
    BY <1>3, <2>5 DEF Halve
  <2>7. FlowTypes'
    <3>1. ticks' \in Nat
      BY <2>1 DEF Flow, FlowTypes
    <3> QED BY <2>1, <2>5, <2>6, <3>1 DEF Flow, FlowTypes
  <2>8. ASSUME Settable PROVE Fits(ticks)'
    <3>1. /\ _divide \in Dividers /\ ticks \in Nat
          /\ ticks * _divide <= Wanted /\ Wanted < (ticks + 1) * _divide
      BY <2>1, <2>8 DEF Flow, FlowAt, FlowTypes, Fits
    <3>2. _divide # 128
      <4>1. CASE _divide = 128
        <5>1. ticks * 128 <= Wanted /\ Wanted < 128 * (HalfCount + 1)
          BY <2>8, <3>1, <4>1 DEF Settable
        <5> QED BY <2>1, <2>3, <3>1, <5>1, Constants
      <4> QED BY <4>1
    <3>3. /\ 2 * _divide \in Dividers /\ (2 * _divide) % 256 = 2 * _divide
          /\ (ticks \div 2) * (2 * _divide) <= Wanted
          /\ Wanted < (ticks \div 2 + 1) * (2 * _divide)
          /\ Wanted >= (HalfCount + 1) * ((2 * _divide) \div 2)
      BY <2>1, <2>3, <3>1, <3>2, Constants, Halved
    <3>4. _divide' = 2 * _divide
      BY <2>1, <3>3
    <3> QED BY <2>1, <2>3, <3>3, <3>4 DEF Fits
  <2>9. FlowAt'
    BY <2>1, <2>4, <2>6, <2>8 DEF FlowAt, Winding, Wound
  <2> QED BY <2>2, <2>7, <2>9 DEF Flow
<1>4. CASE Assign
  <2>1. /\ pc = <<"windup", "fit">> /\ pc' = <<"interval", "start">>
        /\ ticks <= HalfCount /\ _ticks' = ticks
        /\ UNCHANGED <<divVars, us, rate, ticks, freq, _divide>>
    BY <1>4 DEF Assign
  <2>2. Invariant'
    BY <2>1, NextInvariant DEF Flow
  <2>3. UNCHANGED Wanted
    BY <2>1 DEF Wanted
  <2>4. UNCHANGED Settable
    BY <2>3 DEF Settable
  <2>5. pc' \in Wound /\ pc' \notin Winding
    BY <2>1 DEF Winding, Wound
  <2>6. FlowTypes'
    <3>1. _ticks' \in 0 .. HalfCount
      BY <2>1, Constants DEF Flow, FlowTypes
    <3> QED BY <2>1, <2>5, <3>1 DEF Flow, FlowTypes
  <2>7. ASSUME Settable PROVE Fits(_ticks)'
    BY <2>1, <2>3, <2>7 DEF Flow, FlowAt, Fits
  <2>8. FlowAt'
    BY <2>1, <2>4, <2>5, <2>7 DEF FlowAt
  <2> QED BY <2>2, <2>6, <2>8 DEF Flow
<1>5. CASE DivideBy(_ticks * _divide * Milli, freq["interval"],
                    <<"interval", "measured">>, <<"interval", "us">>)
  <2>1. UNCHANGED <<us, rate, ticks, freq, _divide, _ticks>>
    BY <1>5 DEF DivideBy, timerVars
  <2>2. /\ pc = <<"interval", "measured">> /\ pc' = <<"interval", "us">>
        /\ Call(_ticks * _divide * Milli, freq["interval"])
    BY <1>5 DEF DivideBy
  <2>3. _ticks * _divide * Milli \in Word
    <3>1. ASSUME NEW t \in 0 .. HalfCount, NEW d \in 0 .. 128, NEW m \in Nat
          PROVE  t * d * m \in Nat /\ t * d * m <= HalfCount * 128 * m
      <4>1. /\ t \in Nat /\ d \in Nat /\ HalfCount \in Nat
            /\ t * d \in Nat /\ HalfCount * 128 \in Nat
        BY Constants
      <4>2. t * d <= HalfCount * 128
        <5>1. PICK e \in Nat : 128 = d + e
          OBVIOUS
        <5>2. t * 128 = t * d + t * e /\ t * e \in Nat
          BY <4>1, <5>1
        <5> QED BY <4>1, <5>2, Constants
      <4>3. PICK r \in Nat : HalfCount * 128 = t * d + r
        BY <4>1, <4>2
      <4>4. (t * d + r) * m = (t * d) * m + r * m /\ r * m \in Nat /\ (t * d) * m \in Nat
        BY <4>1
      <4> QED BY <4>3, <4>4
    <3>2. _ticks \in 0 .. HalfCount /\ _divide \in 0 .. 128
      BY DEF Flow, FlowTypes, Dividers
    <3>3. _ticks * _divide * Milli \in Nat /\ _ticks * _divide * Milli <= HalfCount * 128 * Milli
      BY <3>1, <3>2, Constants
    <3>4. HalfCount * 128 * Milli < Bit[Width] /\ HalfCount * 128 * Milli \in Nat
      BY WordAssumption, Constants
    <3> QED BY <3>3, <3>4, Constants DEF Word
  <2>4. freq["interval"] \in Word
    BY WordAssumption, Constants DEF Flow, FlowTypes, Word
  <2>5. Invariant'
    BY <2>2, <2>3, <2>4, CallInvariant DEF Flow
  <2> QED BY <2>1, <2>2, <2>5, FlowGoes DEF Winding, Wound
<1>6. CASE GotInterval
  <2>1. /\ UNCHANGED <<us, rate, ticks, freq, _divide, _ticks>>
        /\ pc = <<"interval", "us">> /\ pc' = <<"main", "boot">> /\ Return
    BY <1>6 DEF GotInterval
  <2>2. Invariant'
    BY <2>1, NextInvariant DEF Flow, DivNext
  <2> QED BY <2>1, <2>2, FlowGoes DEF Winding, Wound
<1>7. CASE Dividing
  <2>1. UNCHANGED <<us, rate, ticks, freq, _divide, _ticks, pc, dividend, divisor>>
    BY <1>7 DEF Dividing, timerVars, Divide, Shift, Shifted, Subtract, Finish
  <2>2. Invariant'
    BY <1>7, NextInvariant DEF Dividing, DivNext, Flow
  <2> QED BY <2>1, <2>2, FlowKept
<1>8. ASSUME NEW c \in CPU, WriteRegister(c) \/ activate(c) PROVE Flow'
  <2>1. UNCHANGED <<us, rate, ticks, freq, _divide, _ticks, pc, divVars>>
    BY <1>8 DEF WriteRegister, activate, timerVars
  <2>2. UNCHANGED <<dividend, divisor>>
    BY <2>1 DEF divVars
  <2>3. Invariant'
    BY <2>1, NextInvariant DEF Flow
  <2> QED BY <2>1, <2>2, <2>3, FlowKept
<1>9. CASE UNCHANGED allVars
  <2>1. UNCHANGED <<us, rate, ticks, freq, _divide, _ticks, pc, divVars>>
    BY <1>9 DEF allVars, timerVars
  <2>2. UNCHANGED <<dividend, divisor>>
    BY <2>1 DEF divVars
  <2>3. Invariant'
    BY <2>1, NextInvariant DEF Flow
  <2> QED BY <2>1, <2>2, <2>3, FlowKept
<1> QED BY <1>1, <1>2, <1>3, <1>4, <1>5, <1>6, <1>7, <1>8, <1>9, MeasuredFlow
        DEF TNext, windup, interval

\* A quotient that is at most m.
LEMMA AtMost ==
  ASSUME NEW w \in Nat, NEW m \in Nat, NEW d \in Dividers
  PROVE  w \div d <= m <=> w < (m + 1) * d
<1>1. /\ w \div 1 <= m <=> w < (m + 1) * 1
      /\ w \div 2 <= m <=> w < (m + 1) * 2
      /\ w \div 4 <= m <=> w < (m + 1) * 4
      /\ w \div 8 <= m <=> w < (m + 1) * 8
  OBVIOUS
<1>2. /\ w \div 16 <= m <=> w < (m + 1) * 16
      /\ w \div 32 <= m <=> w < (m + 1) * 32
      /\ w \div 64 <= m <=> w < (m + 1) * 64
      /\ w \div 128 <= m <=> w < (m + 1) * 128
  OBVIOUS
<1> QED BY <1>1, <1>2 DEF Dividers

\* The divider s that windup() finds, next to the smallest divider d that a counter up
\* to 2 * h - 1 needs.
LEMMA NextToSmallest ==
  ASSUME NEW w \in Nat, NEW h \in Nat \ {0}, NEW s \in Dividers, NEW d \in Dividers,
         w < (h + 1) * s, s = 1 \/ w >= (h + 1) * (s \div 2),
         w < (2 * h) * d, d = 1 \/ w >= (2 * h) * (d \div 2)
  PROVE  s = IF w >= (h + 1) * d THEN 2 * d ELSE d
<1>1. s = 1 \/ s = 2 \/ s = 4 \/ s = 8 \/ s = 16 \/ s = 32 \/ s = 64 \/ s = 128
  BY DEF Dividers
<1>3. CASE d = 1
  BY <1>1, <1>3
<1>4. CASE d = 2
  BY <1>1, <1>4
<1>5. CASE d = 4
  BY <1>1, <1>5
<1>6. CASE d = 8
  BY <1>1, <1>6
<1>7. CASE d = 16
  BY <1>1, <1>7
<1>8. CASE d = 32
  BY <1>1, <1>8
<1>9. CASE d = 64
  BY <1>1, <1>9
<1>10. CASE d = 128
  BY <1>1, <1>10
<1> QED BY <1>3, <1>4, <1>5, <1>6, <1>7, <1>8, <1>9, <1>10 DEF Dividers

\* The smallest divider in numbers: half of it does not do.
LEMMA SmallestBounds ==
  ASSUME FlowTypes, NEW d \in Dividers, Smallest(d)
  PROVE  /\ Wanted < (2 * HalfCount) * d
         /\ d = 1 \/ Wanted >= (2 * HalfCount) * (d \div 2)
<1>1. Wanted \in Nat /\ MaxCount \in Nat /\ MaxCount + 1 = 2 * HalfCount
  BY WantedIsNat, Constants, WordAssumption
<1>2. Wanted < (2 * HalfCount) * d
  <2>1. Wanted \div d <= MaxCount
    BY DEF Smallest, Holds
  <2>2. Wanted < (MaxCount + 1) * d
    BY <1>1, <2>1, AtMost
  <2> QED BY <1>1, <2>2
<1>3. ASSUME d # 1 PROVE Wanted >= (2 * HalfCount) * (d \div 2)
  <2>1. PICK e \in Dividers : e = d \div 2 /\ ~(d <= e)
    BY <1>3 DEF Dividers
  <2>2. ~(Wanted \div e <= MaxCount)
    BY <2>1 DEF Smallest, Holds
  <2>3. ~(Wanted < (MaxCount + 1) * e)
    BY <1>1, <2>2, AtMost
  <2>4. (MaxCount + 1) * e \in Nat
    BY <1>1, <2>1 DEF Dividers
  <2> QED BY <1>1, <2>1, <2>3, <2>4
<1> QED BY <1>2, <1>3

\* The registers of an activated timer are those that windup() computed.
LEMMA FlowInterval == TimerInvariant /\ Flow => IntervalAsAsked
<1> SUFFICES ASSUME TimerInvariant, Flow, NEW c \in CPU, active[c], writes[c] = << >>,
                    NEW d \in Dividers, Smallest(d), d = 128 => Wanted \div d <= HalfCount
             PROVE  LET step == DividesBy(reg[c].divider)
                    IN  /\ reg[c].count * step <= Wanted /\ Wanted < (reg[c].count + 1) * step
                        /\ step = IF Wanted \div d > HalfCount THEN 2 * d ELSE d
  BY DEF IntervalAsAsked
<1>1. reg[c].count = _ticks /\ reg[c].divider = timer_div(_divide)
  <2>1. PICK vector, masked, periodic, n, r :
          /\ Underway(c, vector, masked, periodic, n, r)
          /\ Asked(c, vector, masked, periodic, n, r)
    BY DEF TimerInvariant, TimerOK
  <2>2. reg[c].count = n /\ reg[c].divider = r
    BY <2>1 DEF Underway
  <2> QED BY <2>1, <2>2 DEF Asked
<1>2. pc \in Wound
  BY DEF TimerInvariant, Ready, Wound
<1>3. /\ Wanted \in Nat /\ HalfCount \in Nat \ {0} /\ _ticks \in 0 .. HalfCount
      /\ Wanted < (2 * HalfCount) * d
      /\ d = 1 \/ Wanted >= (2 * HalfCount) * (d \div 2)
  BY WantedIsNat, Constants, WordAssumption, SmallestBounds DEF Flow, FlowTypes
<1>4. Settable
  <2>1. CASE d = 128
    <3>1. Wanted < (HalfCount + 1) * 128
      BY <1>3, <2>1, AtMost
    <3> QED BY <1>3, <3>1 DEF Settable
  <2>2. CASE d # 128
    BY <1>3, <2>2 DEF Settable, Dividers
  <2> QED BY <2>1, <2>2
<1>5. Fits(_ticks)
  BY <1>2, <1>4 DEF Flow, FlowAt
<1>6. /\ _divide \in Dividers
      /\ _ticks * _divide <= Wanted /\ Wanted < (_ticks + 1) * _divide
      /\ _divide = 1 \/ Wanted >= (HalfCount + 1) * (_divide \div 2)
  BY <1>5 DEF Fits
<1>7. Wanted < (HalfCount + 1) * _divide
  BY <1>3, <1>6 DEF Dividers
<1>8. _divide = IF Wanted >= (HalfCount + 1) * d THEN 2 * d ELSE d
  BY <1>3, <1>6, <1>7, NextToSmallest
<1>9. Wanted \div d > HalfCount <=> Wanted >= (HalfCount + 1) * d
  <2>1. Wanted \div d <= HalfCount <=> Wanted < (HalfCount + 1) * d
    BY <1>3, AtMost
  <2>2. Wanted \div d \in Int /\ (HalfCount + 1) * d \in Int
    BY <1>3 DEF Dividers
  <2> QED BY <1>3, <2>1, <2>2
<1>10. DividesBy(reg[c].divider) = _divide
  BY <1>1, <1>6, DividerTable
<1> QED BY <1>1, <1>6, <1>8, <1>9, <1>10

\* For words, counters and frequencies of any width that hold the products
\* (WordAssumption): the timer that a CPU has activated runs for the interval that
\* windup() was asked for, up to one step of the divider.  The divider is the smallest
\* that keeps the counter from overflowing (watch.h 43-47), or twice that one if the
\* ticks would be more than half of the counter's range (watch.cc 21); nothing is said
\* where that would be twice 128, or no divider is enough (watch.cc 9-69, math.h 11-40).
THEOREM IntervalCorrect == TSpec => []IntervalAsAsked
<1> QED BY TimerInit, TimerNext, FlowInit, FlowNext, FlowInterval, PTL DEF TSpec

\* The divisions of the timer are divisions: no call of div64() is made with a
\* number that does not fit, nor before the last one has returned (watch.cc 15, 60,
\* lapic.cc 156).
THEOREM TimerDivides == TSpec => []QuotientCorrect
<1>1. Flow => QuotientCorrect
  BY DEF Flow, Invariant, Progressing
<1> QED BY <1>1, TimerInit, TimerNext, FlowInit, FlowNext, PTL DEF TSpec
=============================================================================

------------------------------ MODULE Division ------------------------------
(***************************************************************************)
(* utils/math.h: Math::div64(), the division by shifting and subtracting   *)
(* with which the system does without the 64-bit division of the compiler. *)
(* A call goes through two loops: the first shifts the divisor up until    *)
(* its highest bit is set, the second down again, subtracting.  All locals *)
(* are unsigned numbers of Width bits (64 in the code).                    *)
(***************************************************************************)
EXTENDS Integers

CONSTANTS Width,  \* the number of bits
          Bit     \* Bit[i]: the number with only bit i set

ASSUME WidthAssumption == Width \in Nat \ {0}
ASSUME BitAssumption == /\ Bit \in [0 .. Width -> Nat \ {0}]
                        /\ Bit[0] = 1
                        /\ \A i \in 0 .. (Width - 1) : Bit[i + 1] = 2 * Bit[i]

VARIABLES dividend, divisor,    \* what the caller passed
          num, den, quot, qbit, \* the parameters and locals of div64()
          phase                 \* the loop that the call is in

divVars == <<dividend, divisor, num, den, quot, qbit, phase>>

Word == 0 .. (Bit[Width] - 1)

DivInit == /\ dividend = 0 /\ divisor = 1
           /\ num = 0 /\ den = 1 /\ quot = 0 /\ qbit = 1
           /\ phase = "idle"

Call(n, d) == /\ phase = "idle"
              /\ dividend' = n /\ num' = n
              /\ divisor' = d /\ den' = d
              /\ quot' = 0 /\ qbit' = 1
              /\ phase' = "shift"

\* while ((int64_t)den >= 0): the highest bit is not set.  With a divisor of
\* zero it never is.
Shift == /\ phase = "shift"
         /\ den < Bit[Width - 1]
         /\ den' = (2 * den) % Bit[Width]
         /\ qbit' = (2 * qbit) % Bit[Width]
         /\ UNCHANGED <<dividend, divisor, num, quot, phase>>

Shifted == /\ phase = "shift"
           /\ den >= Bit[Width - 1]
           /\ phase' = "subtract"
           /\ UNCHANGED <<dividend, divisor, num, den, quot, qbit>>

\* Mutant: den < num, which leaves a remainder as large as the divisor.
MutantSubtract ==
  /\ phase = "subtract" /\ qbit # 0
  /\ IF den < num THEN /\ num' = num - den
                       /\ quot' = (quot + qbit) % Bit[Width]
                  ELSE UNCHANGED <<num, quot>>
  /\ den' = den \div 2
  /\ qbit' = qbit \div 2
  /\ UNCHANGED <<dividend, divisor, phase>>

\* Mutant: qbit is not shifted back (the statement qbit >>= 1 is missing).
MutantEndless == /\ phase = "subtract" /\ qbit # 0
                 /\ IF den <= num THEN /\ num' = num - den
                                       /\ quot' = (quot + qbit) % Bit[Width]
                                  ELSE UNCHANGED <<num, quot>>
                 /\ den' = den \div 2
                 /\ UNCHANGED <<dividend, divisor, qbit, phase>>

\* while (qbit)
Subtract == /\ phase = "subtract" /\ qbit # 0
            /\ IF den <= num THEN /\ num' = num - den
                                  /\ quot' = (quot + qbit) % Bit[Width]
                             ELSE UNCHANGED <<num, quot>>
            /\ den' = den \div 2
            /\ qbit' = qbit \div 2
            /\ UNCHANGED <<dividend, divisor, phase>>

\* The quotient is returned, the rest is in num.
Finish == /\ phase = "subtract" /\ qbit = 0
          /\ phase' = "done"
          /\ UNCHANGED <<dividend, divisor, num, den, quot, qbit>>

\* The caller goes on with the quotient.
Return == /\ phase = "done"
          /\ phase' = "idle"
          /\ UNCHANGED <<dividend, divisor, num, den, quot, qbit>>

Divide == Shift \/ Shifted \/ Subtract \/ Finish

DivNext == \/ \E n, d \in Word : Call(n, d)
           \/ Divide
           \/ Return

DivSpec == DivInit /\ [][DivNext]_divVars

-----------------------------------------------------------------------------
\* Types of the variables (math.h 19-20).
DivTypeOK == /\ dividend \in Word /\ divisor \in Word
             /\ num \in Word /\ den \in Word /\ quot \in Word /\ qbit \in Word
             /\ phase \in {"idle", "shift", "subtract", "done"}

\* div64() returns the quotient and leaves the rest, whatever the arguments: no
\* shift loses a bit of the divisor and no sum overflows (math.h 11-18).
QuotientCorrect ==
  phase = "done" => /\ dividend = quot * divisor + num
                    /\ num < divisor
=============================================================================

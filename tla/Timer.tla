-------------------------------- MODULE Timer --------------------------------
(***************************************************************************)
(* device/watch.cc and the timer of machine/lapic.cc: the boot CPU measures*)
(* the timer of its local APIC against the PIT, picks a divider and a      *)
(* counter for the interval (windup), reports the interval, and every CPU  *)
(* starts its own timer in schedule() (activate).  All divisions are calls *)
(* of div64() (Division).  A timer is programmed by three writes.          *)
(***************************************************************************)
EXTENDS Division, Sequences

CONSTANTS CPU, BSP,
          Interval,   \* the intervals that windup() is called with
          Rate,       \* ticks of a timer during one run of the PIT
          Jitter,     \* ticks by which the polling of the PIT may be late
          Micro,      \* 1000 * 1000
          PitTime,    \* 838 * 65535: the run of the PIT in nanoseconds
          Milli,      \* 1000
          HalfCount,  \* 2^31: windup() lets the ticks be no more than that
          MaxCount    \* 2^32 - 1

ASSUME RateAssumption ==
  /\ BSP \in CPU
  /\ \A r \in Rate, j \in Jitter : /\ r * Micro >= PitTime
                                   /\ (r + j) * Micro < Bit[Width] /\ r + j <= MaxCount

\* The products that are divided fit into a word (watch.cc 15, 60; lapic.cc 156).
ASSUME WordAssumption ==
  /\ Interval \cup Rate \cup Jitter \subseteq Nat
  /\ {Micro, PitTime, Milli} \subseteq 1 .. (Bit[Width] - 1)
  /\ HalfCount \in Nat /\ MaxCount \in 0 .. (Bit[Width] - 1) /\ MaxCount = 2 * HalfCount - 1
  /\ \A i \in Interval : i * MaxCount < Bit[Width]
  /\ HalfCount * 128 * Milli < Bit[Width]

VARIABLES pc,        \* the function that BSP executes, and the statement of it or of timer_ticks()
          us,        \* the parameter of windup()
          rate,      \* the speed of the hardware
          ticks,     \* the local variable of timer_ticks(), then of windup()
          freq,      \* freq[f]: what timer_ticks() returned to f: ticks per millisecond
          _divide, _ticks,  \* the members of Watch
          reported,  \* what interval() returned
          plugged,   \* has windup() assigned the watch to the timer vector?
          active,    \* active[c]: has c called activate()?
          reg,       \* reg[c]: the registers of the timer of c
          writes     \* writes[c]: the writes of setTimer() that c has to do yet

timerVars == <<us, rate, ticks, freq, _divide, _ticks, reported, plugged, active>>
allVars == <<divVars, timerVars, pc, reg, writes>>

TimerVector == 32

\* A masked timer that stands still, as after a reset.
TInit == /\ DivInit
         /\ pc = <<"windup", "start">> /\ us \in Interval /\ rate \in Rate
         /\ ticks = 0 /\ freq = [f \in {"windup", "interval"} |-> 0] /\ _divide = 1 /\ _ticks = 0
         /\ reported = 0 /\ plugged = FALSE
         /\ active = [c \in CPU |-> FALSE]
         /\ reg = [c \in CPU |-> [vector |-> 0, masked |-> TRUE, periodic |-> FALSE,
                                  count |-> 0, divider |-> 0]]
         /\ writes = [c \in CPU |-> << >>]

-----------------------------------------------------------------------------
\* Mutant: the table in the order of the register values.
MutantMasks == <<0, 1, 2, 3, 8, 9, 10, 11>>

\* The register values that divide by 1, 2, 4, ..., 128.
masks == <<11, 0, 1, 2, 3, 8, 9, 10>>

\* The register value for a divider that is a power of two.
timer_div(div) == IF \E k \in 0 .. 7 : div = 2 ^ k
                  THEN masks[(CHOOSE k \in 0 .. 7 : div = 2 ^ k) + 1]
                  ELSE 255

\* By what the hardware divides: bits 0, 1 and 3 of the register.
DividesBy(value) == LET code == (value % 4) + 4 * ((value \div 8) % 2)
                    IN  IF code = 7 THEN 1 ELSE 2 ^ (code + 1)

\* setTimer(counter, divide, vector, periodic, masked): the control register,
\* the initial count, which starts the timer or stops it, and the divider.
setTimer(c, counter, divide, vector, periodic, masked) ==
  writes' = [writes EXCEPT ![c] =
    << [vector |-> vector, masked |-> masked, periodic |-> periodic],
       [count |-> counter],
       [divider |-> timer_div(divide)] >>]

\* One of the writes.
WriteRegister(c) ==
  /\ writes[c] # << >>
  /\ LET w == Head(writes[c])
     IN  reg' = [reg EXCEPT ![c] =
                   [f \in DOMAIN @ |-> IF f \in DOMAIN w THEN w[f] ELSE @[f]]]
  /\ writes' = [writes EXCEPT ![c] = Tail(@)]
  /\ UNCHANGED <<divVars, timerVars, pc>>

-----------------------------------------------------------------------------
\* BSP goes from one statement to another, when setTimer() has returned.
Goto(from, to) == pc = from /\ writes[BSP] = << >> /\ pc' = to

\* timer_ticks(), called by f: one shot, no interrupts.
StartTimer(f) ==
  /\ Goto(<<f, "start">>, <<f, "pit">>)
  /\ setTimer(BSP, MaxCount, 1, 42, FALSE, TRUE)
  /\ UNCHANGED <<divVars, timerVars, reg>>

\* Mutant: the timer is left running after it has been measured.
MutantStopTimer(f) ==
  /\ Goto(<<f, "pit">>, <<f, "divide">>)
  /\ \E j \in Jitter : ticks' = rate + j
  /\ UNCHANGED <<divVars, us, rate, freq, _divide, _ticks, reported, plugged, active, reg, writes>>

\* The counter is read before and after the run of the PIT; then it is stopped.
StopTimer(f) ==
  /\ Goto(<<f, "pit">>, <<f, "divide">>)
  /\ \E j \in Jitter : ticks' = (rate + j) \div DividesBy(reg[BSP].divider)
  /\ setTimer(BSP, 0, 1, 42, FALSE, TRUE)
  /\ UNCHANGED <<divVars, us, rate, freq, _divide, _ticks, reported, plugged, active, reg>>

\* A call of div64().
DivideBy(n, d, from, to) ==
  /\ Goto(from, to)
  /\ Call(n, d)
  /\ UNCHANGED <<timerVars, reg, writes>>

\* timer_ticks() returns the quotient, cut to 32 bits.
GotFreq(f) ==
  /\ Goto(<<f, "freq">>, <<f, "measured">>)
  /\ Return
  /\ freq' = [freq EXCEPT ![f] = quot % (MaxCount + 1)]
  /\ UNCHANGED <<us, rate, ticks, _divide, _ticks, reported, plugged, active, reg, writes>>

timer_ticks(f) == \/ StartTimer(f)
                  \/ StopTimer(f)
                  \/ DivideBy(ticks * Micro, PitTime, <<f, "divide">>, <<f, "freq">>)
                  \/ GotFreq(f)

-----------------------------------------------------------------------------
\* windup(): ticks = div64(us * tm, 1000)
GotTicks == /\ Goto(<<"windup", "ticks">>, <<"windup", "fit">>)
            /\ Return
            /\ ticks' = quot
            /\ UNCHANGED <<us, rate, freq, _divide, _ticks, reported, plugged, active, reg, writes>>

\* while (ticks > 2^31): the divider is a number of 8 bits, which becomes 0 before
\* it exceeds 128.  (main() does not look at the result of windup().)
Halve == /\ pc = <<"windup", "fit">> /\ ticks > HalfCount
         /\ ticks' = ticks \div 2
         /\ _divide' = (2 * _divide) % 256
         /\ pc' = IF _divide' > 128 THEN <<"interval", "start">> ELSE pc
         /\ UNCHANGED <<divVars, us, rate, freq, _ticks, reported, plugged, active, reg, writes>>

\* The ticks fit: the watch is plugged in and the timer is set, but not started.
Assign == /\ pc = <<"windup", "fit">> /\ ticks <= HalfCount
          /\ _ticks' = ticks
          /\ plugged' = TRUE
          /\ setTimer(BSP, 0, _divide, TimerVector, TRUE, FALSE)
          /\ pc' = <<"interval", "start">>
          /\ UNCHANGED <<divVars, us, rate, ticks, freq, _divide, reported, active, reg>>

windup == \/ timer_ticks("windup")
          \/ DivideBy(us * freq["windup"], Milli, <<"windup", "measured">>, <<"windup", "ticks">>)
          \/ GotTicks
          \/ Halve
          \/ Assign

\* interval(): the result is cut to 32 bits; main() prints it.
GotInterval == /\ Goto(<<"interval", "us">>, <<"main", "boot">>)
               /\ Return
               /\ reported' = quot % (MaxCount + 1)
               /\ UNCHANGED <<us, rate, ticks, freq, _divide, _ticks, plugged, active, reg, writes>>

interval == \/ timer_ticks("interval")
            \/ DivideBy(_ticks * _divide * Milli, freq["interval"],
                        <<"interval", "measured">>, <<"interval", "us">>)
            \/ GotInterval

\* activate(), called by schedule() on each CPU when main() has started them.
activate(c) == /\ pc = <<"main", "boot">> /\ ~active[c]
               /\ active' = [active EXCEPT ![c] = TRUE]
               /\ setTimer(c, _ticks, _divide, TimerVector, TRUE, FALSE)
               /\ UNCHANGED <<divVars, us, rate, ticks, freq, _divide, _ticks, reported,
                              plugged, pc, reg>>

Dividing == Divide /\ UNCHANGED <<timerVars, pc, reg, writes>>

TNext == \/ windup \/ interval \/ Dividing
         \/ \E c \in CPU : WriteRegister(c) \/ activate(c)

TSpec == TInit /\ [][TNext]_allVars

(***************************************************************************)
(* BSP runs with interrupts disabled and does not wait for another CPU.    *)
(***************************************************************************)
TFairSpec == TSpec /\ WF_allVars(windup \/ interval \/ Dividing \/ WriteRegister(BSP))
                   /\ \A c \in CPU : WF_allVars(WriteRegister(c) \/ activate(c))

-----------------------------------------------------------------------------
\* The ticks that the interval asks for.
Wanted == (us * freq["windup"]) \div Milli

Dividers == {1, 2, 4, 8, 16, 32, 64, 128}

\* The divider d keeps the counter of 32 bits from overflowing; the smallest does.
Holds(d) == Wanted \div d <= MaxCount
Smallest(d) == Holds(d) /\ \A e \in Dividers : Holds(e) => d <= e

\* A timer counts down and raises interrupts.
Armed(c) == reg[c].count # 0 /\ ~reg[c].masked

\* A timer raises interrupts only when its CPU has called activate(), with the
\* vector that the watch is plugged in for: measuring, winding up and reporting
\* the interval do not (watch.cc 36-37, lapic.cc 137-138, 153-154).
ArmedByActivate ==
  \A c \in CPU : Armed(c) => /\ active[c] /\ plugged
                             /\ reg[c].vector = TimerVector /\ reg[c].periodic

\* Once activate() is through, the interval of the timer is the one that windup()
\* was asked for, up to one step of the divider.  watch.h 43-47 asks for the smallest
\* divider that keeps the counter from overflowing.  The code takes it if the ticks
\* are at most half of the counter's range, and twice the smallest one if they are
\* more, because watch.cc 21 compares with 2^31 (and not with the 32 bits of the
\* comment in line 20).  Where this would be twice 128, the interval could be set and
\* is not: this case, and intervals that no divider holds, are left out.
IntervalAsAsked ==
  \A c \in CPU : active[c] /\ writes[c] = << >> =>
    \A d \in Dividers : Smallest(d) /\ (d = 128 => Wanted \div d <= HalfCount) =>
      LET step == DividesBy(reg[c].divider)
      IN  /\ reg[c].count * step <= Wanted /\ Wanted < (reg[c].count + 1) * step
          /\ step = IF Wanted \div d > HalfCount THEN 2 * d ELSE d

\* windup() and interval() end, and every CPU gets its timer.
TimersRun == (pc = <<"windup", "start">>) ~> \A c \in CPU : active[c] /\ writes[c] = << >>
=============================================================================

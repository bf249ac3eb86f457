------------------------------ MODULE Keyboard ------------------------------
(***************************************************************************)
(* The keyboard and its driver: machine/keyctrl.cc, keydecoder.cc and      *)
(* device/keyboard.cc.  The driver is started by a constructor, and main() *)
(* lets interrupts through later.  From then on every byte must raise its  *)
(* own interrupt, whose epilogue reads it: the controller has a buffer for *)
(* one byte, and loads no other before that has been read.                 *)
(*                                                                         *)
(* Guard is taken by its contract: an epilogue is entered directly, or its *)
(* gate is marked and waits in a queue; epilogues exclude each other.      *)
(* ASCII codes, and the keyboard's fake shift codes, are left out.         *)
(***************************************************************************)
EXTENDS Integers, Sequences

CONSTANTS Key,      \* the keys: pairs of a prefix (or 0) and a make code
          LEDsOn,   \* the LEDs that the firmware leaves on
          MaxLine   \* bound: no key moves while more bytes are on their way

Prefix1 == 224
Prefix2 == 225
BreakBit == 128
Ack == 250        \* the keyboard's answer to each byte that it gets
MouseByte == 256  \* a byte of the mouse: its auxb is set in the status register
Empty == -1
Byte == 0..256

LED == {"caps_lock", "num_lock", "scroll_lock"}
Held == {"SHIFT", "alt_left", "alt_right", "ctrl_left", "ctrl_right"}
Div == 8          \* Key::scan
Del == 83

ASSUME KeyAssumption == /\ Key \subseteq {0, Prefix1} \X (1..88)
                        /\ LEDsOn \subseteq LED
                        /\ MaxLine \in Nat

VARIABLES \* the keyboard and its controller
          held,           \* the keys that are pressed
          line,           \* the bytes that the controller has not loaded
          out,            \* the output buffer
          inp,            \* the input buffer
          command,        \* the command that the keyboard waits for the data of
          leds,           \* the LEDs that are on
          mouse,          \* whether there is a mouse that sends
          \* interrupts and epilogues
          allowed,        \* the IO-APIC passes the interrupt on
          clean,          \* no byte was underway then
          irq,            \* the interrupt is pending
          direct,         \* the calls of relay() that are on their way to E1/2
          queued,         \* the gate is marked, and in a queue
          \* the driver
          pc,             \* what it is doing
          todo,           \* the bytes that it is going to send
          led_ctrl_byte,
          prefix,
          modi            \* the modifiers of the decoder's gather

device == <<held, line, command, leds, mouse>>
ports == <<out, inp>>
interrupts == <<allowed, clean, irq, direct, queued>>
decoder == <<prefix, modi>>
driver == <<pc, todo, led_ctrl_byte, decoder>>
vars == <<device, ports, interrupts, driver>>

\* What is written to the controller: a command, or the data of the last one.
None == [kind |-> "none", leds |-> {}]
Command(c) == [kind |-> c, leds |-> {}]
Data(S) == [kind |-> "data", leds |-> S]
Written == [kind : {"none", "set_led", "set_speed", "data"}, leds : SUBSET LED]

-----------------------------------------------------------------------------
(* The decoder *)

\* The modifier that a make or break code stands for, if any.
Modifier(pre, code) ==
  {m \in Held : \/ m = "SHIFT" /\ code \in {42, 54}
                \/ m = "alt_left" /\ code = 56 /\ pre # Prefix1
                \/ m = "alt_right" /\ code = 56 /\ pre = Prefix1
                \/ m = "ctrl_left" /\ code = 29 /\ pre # Prefix1
                \/ m = "ctrl_right" /\ code = 29 /\ pre = Prefix1}

\* The lock that a make code toggles: Ctrl with NumLock is Pause.
Lock(mods, code) ==
  {l \in LED : \/ l = "caps_lock" /\ code = 58
               \/ l = "scroll_lock" /\ code = 70
               \/ l = "num_lock" /\ code = 69 /\ "ctrl_left" \notin mods}

\* The scan codes of the digits and signs that NumLock turns the codes 71-83 into.
scan_num_tab == <<8, 9, 10, 53, 5, 6, 7, 27, 2, 3, 4, 11, 51>>

\* The scan code of get_ascii_code().
ScanCode(pre, mods, code) ==
  CASE code = 53 /\ pre = Prefix1 -> Div
    [] "num_lock" \in mods /\ pre = 0 /\ code \in 71..83 -> scan_num_tab[code - 70]
    [] OTHER -> code

\* Mutant: a break code does not end the prefix.
MutantNextPrefix(b) == IF b \in {Prefix1, Prefix2} THEN b
                       ELSE IF b >= BreakBit THEN prefix ELSE 0

\* A prefix is for the next code only.
NextPrefix(b) == IF b \in {Prefix1, Prefix2} THEN b ELSE 0

\* decode(b): the next prefix and modifiers, the lock that is toggled, and the
\* scan code of the key, which is 0 if it is not valid.
Decode(b) ==
  LET break == b >= BreakBit
      code == b % BreakBit
      mod == Modifier(prefix, code)
      lock == Lock(modi, code)
      silent == break \/ mod # {} \/ lock # {} \/ code \in 91..93
  IN  IF b \in {Prefix1, Prefix2}
      THEN [prefix |-> NextPrefix(b), modi |-> modi, lock |-> {}, scan |-> 0]
      ELSE [prefix |-> NextPrefix(b),
            modi |-> IF break THEN modi \ mod
                     ELSE (modi \union mod \union lock) \ (modi \intersect lock),
            lock |-> IF break \/ mod # {} THEN {} ELSE lock,
            scan |-> IF silent THEN 0 ELSE ScanCode(prefix, modi, code)]

-----------------------------------------------------------------------------
(* The keyboard and the controller *)

Codes(k, b) == (IF k[1] = 0 THEN <<>> ELSE <<k[1]>>) \o <<k[2] + b>>
PauseCodes == <<Prefix2, 29, 69, Prefix2, 29 + BreakBit, 69 + BreakBit>>

Emit(codes) == /\ Len(line) <= MaxLine
               /\ line' = line \o codes
               /\ UNCHANGED <<ports, command, leds, mouse, interrupts, driver>>

Press(k) == k \notin held /\ held' = held \union {k} /\ Emit(Codes(k, 0))
Release(k) == k \in held /\ held' = held \ {k} /\ Emit(Codes(k, BreakBit))
HitPause == held' = held /\ Emit(PauseCodes)

\* A byte is there, and it raises an interrupt.  It is lost while it is masked.
Load == /\ out = Empty /\ line # <<>>
        /\ out' = Head(line)
        /\ line' = Tail(line)
        /\ irq' = (irq \/ allowed)
        /\ UNCHANGED <<held, command, leds, mouse, inp, allowed, clean, direct, queued, driver>>

\* The interrupt of the mouse is masked.
MouseMoves == /\ mouse /\ out = Empty
              /\ out' = MouseByte
              /\ UNCHANGED <<device, inp, interrupts, driver>>

\* The keyboard takes a byte from the input buffer, and answers behind the codes
\* that it has sent.
Take == /\ inp # None
        /\ inp' = None
        /\ line' = Append(line, Ack)
        /\ command' = IF inp.kind = "data" THEN "none" ELSE inp.kind
        /\ leds' = IF inp.kind = "data" /\ command = "set_led" THEN inp.leds ELSE leds
        /\ UNCHANGED <<held, mouse, out, interrupts, driver>>

Device == \/ \E k \in Key : Press(k) \/ Release(k)
          \/ HitPause \/ Load \/ MouseMoves \/ Take

-----------------------------------------------------------------------------
(* The driver *)

\* set_led(): the new led_ctrl_byte.
SetLed(leds_on, lock, on) == IF on THEN leds_on \union lock ELSE leds_on \ lock

\* The constructor sends these bytes: all LEDs off, then the repeat rate.
Setup == <<Command("set_led"), Data({}), Command("set_led"), Data({}),
           Command("set_led"), Data({}), Command("set_speed"), Data({})>>

Init == /\ held = {} /\ line = <<>> /\ out \in {Empty, 28} /\ inp = None /\ command = "none"
        /\ leds = LEDsOn /\ mouse \in BOOLEAN
        /\ allowed = FALSE /\ clean = FALSE /\ irq = FALSE
        /\ direct = 0 /\ queued = FALSE
        /\ pc = "drain" /\ todo = Setup /\ led_ctrl_byte = {}
        /\ prefix = 0 /\ modi = {}

\* drainKeyboardBuffer(): as long as there is a byte, it is read.
Drain == /\ pc \in {"drain", "drain_again"}
         /\ out' = Empty
         /\ pc' = IF out # Empty THEN pc ELSE IF pc = "drain" THEN "setup" ELSE "main"
         /\ UNCHANGED <<device, inp, interrupts, todo, led_ctrl_byte, decoder>>

\* send_byte(), once the input buffer is empty.
SendByte == /\ pc \in {"setup", "led"} /\ todo # <<>> /\ inp = None
            /\ inp' = Head(todo)
            /\ todo' = Tail(todo)
            /\ UNCHANGED <<device, out, interrupts, pc, led_ctrl_byte, decoder>>

\* set_led() or the constructor goes on.
Sent == /\ pc \in {"setup", "led"} /\ todo = <<>>
        /\ pc' = IF pc = "setup" THEN "drain_again" ELSE "idle"
        /\ UNCHANGED <<device, ports, interrupts, todo, led_ctrl_byte, decoder>>

\* main() unmasks the interrupt.
Allow == /\ pc = "main"
         /\ allowed' = TRUE
         /\ clean' = (out = Empty /\ line = <<>> /\ inp = None)
         /\ pc' = "idle"
         /\ UNCHANGED <<device, ports, irq, direct, queued, todo, led_ctrl_byte, decoder>>

\* relay(): the CPU goes to E1/2, or it is there and the gate is marked, unless
\* it is marked already.
Interrupt == /\ irq
             /\ irq' = FALSE
             /\ \/ direct' = direct + 1 /\ UNCHANGED queued
                \/ queued' = TRUE /\ UNCHANGED direct
             /\ UNCHANGED <<device, ports, allowed, clean, driver>>

\* Mutant: the mark is removed after the epilogue.
MutantBeginEpilogue ==
  /\ pc = "idle"
  /\ \/ direct > 0 /\ direct' = direct - 1 /\ UNCHANGED queued
     \/ queued /\ UNCHANGED <<direct, queued>>
  /\ pc' = "epilogue"
  /\ UNCHANGED <<device, ports, allowed, clean, irq, todo, led_ctrl_byte, decoder>>

\* A CPU has reached E1/2, or leave() has dequeued the gate and removed its mark.
BeginEpilogue ==
  /\ pc = "idle"
  /\ \/ direct > 0 /\ direct' = direct - 1 /\ UNCHANGED queued
     \/ queued /\ queued' = FALSE /\ UNCHANGED direct
  /\ pc' = "epilogue"
  /\ UNCHANGED <<device, ports, allowed, clean, irq, todo, led_ctrl_byte, decoder>>

\* Mutant: a toggled LED is switched on only.
MutantKeyHit ==
  LET key == Decode(out)
  IN  /\ pc = "epilogue"
      /\ out' = Empty
      /\ prefix' = key.prefix /\ modi' = key.modi
      /\ led_ctrl_byte' = led_ctrl_byte \union key.lock
      /\ todo' = IF key.lock = {} THEN <<>>
                 ELSE <<Command("set_led"), Data(led_ctrl_byte')>>
      /\ pc' = IF key.lock = {} THEN "idle" ELSE "led"
      /\ UNCHANGED <<device, inp, interrupts>>

\* trigger(): key_hit() and decode(), up to the first byte of set_led(), or to the
\* end: reboot(), or the output of the key.
KeyHit ==
  LET key == Decode(out)
      ctrl == {"ctrl_left", "ctrl_right"} \intersect key.modi # {}
  IN  /\ pc = "epilogue"
      /\ out' = Empty
      /\ IF out \in {Empty, MouseByte}
         THEN pc' = "idle" /\ UNCHANGED <<todo, led_ctrl_byte, decoder>>
         ELSE /\ prefix' = key.prefix
              /\ modi' = key.modi
              /\ led_ctrl_byte' = SetLed(led_ctrl_byte, key.lock, key.lock \subseteq key.modi)
              /\ todo' = IF key.lock = {} THEN <<>>
                         ELSE <<Command("set_led"), Data(led_ctrl_byte')>>
              /\ pc' = IF key.lock # {} THEN "led"
                       ELSE IF ctrl /\ key.scan = Del THEN "reboot" ELSE "idle"
      /\ UNCHANGED <<device, inp, interrupts>>

Driver == \/ Drain \/ SendByte \/ Sent \/ Allow
          \/ Interrupt \/ BeginEpilogue \/ KeyHit

Next == Device \/ Driver

Spec == Init /\ [][Next]_vars

-----------------------------------------------------------------------------
\* Types of the ports, flags and fields (keyctrl.h 62-87, keydecoder.h 42-44).
TypeOK == /\ held \subseteq Key
          /\ line \in Seq(Byte)
          /\ out \in Byte \union {Empty}
          /\ inp \in Written
          /\ command \in {"none", "set_led", "set_speed"}
          /\ leds \in SUBSET LED
          /\ mouse \in BOOLEAN /\ allowed \in BOOLEAN /\ clean \in BOOLEAN
          /\ irq \in BOOLEAN /\ queued \in BOOLEAN
          /\ direct \in Nat
          /\ pc \in {"drain", "setup", "drain_again", "main", "idle", "epilogue", "led", "reboot"}
          /\ todo \in Seq(Written)
          /\ led_ctrl_byte \in SUBSET LED
          /\ prefix \in {0, Prefix1, Prefix2}
          /\ modi \in SUBSET (LED \union Held)

\* What main.cc relies on: nothing is underway when the interrupt is unmasked, and
\* no mouse is switched on.
Clean == clean /\ ~mouse

Count(p) == IF p THEN 1 ELSE 0

\* One interrupt or epilogue is underway for a byte in the output buffer, and none
\* for an empty one: no byte waits for an interrupt that has come and gone, and
\* none is read twice (keyctrl.h 50-57, keyboard.cc 42-49).
OneEpiloguePerByte ==
  Clean => Count(out # Empty) = Count(irq) + direct + Count(queued) + Count(pc = "epilogue")

\* When every byte has been decoded, a modifier is set only if one of its keys is
\* pressed: none is stuck, whatever was pressed at the same time (keydecoder.cc
\* 117-181).
NoModifierStuck ==
  Clean /\ pc = "idle" /\ out = Empty /\ line = <<>> =>
    \A m \in modi \intersect Held :
      \E k \in held : Modifier(k[1], k[2]) = {m}

\* When nothing is being sent, the LEDs show the locks that the decoder has set,
\* from the start on and with the keyboard's answers among the codes
\* (keydecoder.cc 183-191, 213; keyctrl.cc 84-112).
LEDsMatch == pc = "idle" /\ inp = None => leds = modi \intersect LED
=============================================================================

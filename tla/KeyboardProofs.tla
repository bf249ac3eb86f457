--------------------------- MODULE KeyboardProofs ----------------------------
(***************************************************************************)
(* Theorems about Keyboard, for any keys, LEDs of the firmware and length  *)
(* of the line.  Inv ties the one interrupt or epilogue that is underway   *)
(* to the byte in the output buffer; LedInv follows the commands of        *)
(* set_led() from the driver to the keyboard; HeldInv follows the codes of *)
(* the keys from the keyboard to the decoder.                              *)
(***************************************************************************)
EXTENDS Keyboard, SequenceTheorems, TLAPS

Starting == {"drain", "setup", "drain_again", "main"}

\* Before main() unmasks the interrupt there is none, and no epilogue.
Masked == ~allowed => /\ ~clean /\ ~irq /\ ~queued /\ direct = 0
                      /\ pc \in Starting

Unmasked == allowed => pc \notin Starting

Inv == TypeOK /\ Masked /\ Unmasked /\ OneEpiloguePerByte

LEMMA BytesTyped == /\ Ack \in Byte /\ MouseByte \in Byte /\ Empty \notin Byte
                    /\ \A k \in Key : Codes(k, 0) \in Seq(Byte) /\ Codes(k, BreakBit) \in Seq(Byte)
                    /\ PauseCodes \in Seq(Byte)
<1>1. Ack \in Byte /\ MouseByte \in Byte /\ Empty \notin Byte
  BY DEF Ack, MouseByte, Empty, Byte
<1>2. PauseCodes \in Seq(Byte)
  BY DEF PauseCodes, Prefix2, BreakBit, Byte
<1>3. ASSUME NEW k \in Key, NEW b \in {0, BreakBit}
      PROVE  Codes(k, b) \in Seq(Byte)
  <2>1. k[1] \in {0, Prefix1} /\ k[2] \in 1..88
    BY KeyAssumption
  <2>2. k[1] \in Byte /\ k[2] + b \in Byte
    BY <2>1 DEF Prefix1, BreakBit, Byte
  <2>3. <<k[1]>> \in Seq(Byte) /\ <<k[2] + b>> \in Seq(Byte) /\ <<>> \in Seq(Byte)
    BY <2>2
  <2> QED  BY <2>3 DEF Codes
<1> QED  BY <1>1, <1>2, <1>3

LEMMA WrittenTyped == /\ None \in Written /\ Setup \in Seq(Written)
                      /\ \A S \in SUBSET LED : Data(S) \in Written
                      /\ \A c \in {"set_led", "set_speed"} : Command(c) \in Written
<1>1. None \in Written
  BY DEF None, Written
<1>2. ASSUME NEW S \in SUBSET LED PROVE Data(S) \in Written
  BY DEF Data, Written
<1>3. ASSUME NEW c \in {"set_led", "set_speed"} PROVE Command(c) \in Written
  BY DEF Command, Written
<1>4. Data({}) \in Written
  BY <1>2
<1>5. Setup \in Seq(Written)
  BY <1>3, <1>4 DEF Setup
<1> QED  BY <1>1, <1>2, <1>3, <1>5

LEMMA DecodeTyped ==
  ASSUME TypeOK, out \notin {Empty, MouseByte}
  PROVE  /\ Decode(out).prefix \in {0, Prefix1, Prefix2}
         /\ Decode(out).modi \in SUBSET (LED \union Held)
         /\ Decode(out).lock \in SUBSET LED
<1> DEFINE code == out % BreakBit
           mod == Modifier(prefix, code)
           lock == Lock(modi, code)
<1>1. mod \in SUBSET Held
  BY DEF Modifier, Held
<1>2. lock \in SUBSET LED
  BY DEF Lock, LED
<1>3. modi \in SUBSET (LED \union Held)
  BY DEF TypeOK
<1>4. NextPrefix(out) \in {0, Prefix1, Prefix2}
  BY DEF NextPrefix
<1>5. CASE out \in {Prefix1, Prefix2}
  BY <1>3, <1>4, <1>5 DEF Decode
<1>6. CASE out \notin {Prefix1, Prefix2}
  <2> HIDE DEF code, mod, lock
  <2> DEFINE break == out >= BreakBit
             m == IF break THEN modi \ mod ELSE (modi \union mod \union lock) \ (modi \intersect lock)
             l == IF break \/ mod # {} THEN {} ELSE lock
  <2>1. m \in SUBSET (LED \union Held) /\ l \in SUBSET LED
    BY <1>1, <1>2, <1>3
  <2>2. /\ Decode(out).prefix = NextPrefix(out)
        /\ Decode(out).modi = m
        /\ Decode(out).lock = l
    BY <1>6 DEF Decode, code, mod, lock
  <2> QED  BY <2>1, <2>2, <1>4
<1> QED  BY <1>5, <1>6

LEMMA SetLedTyped ==
  ASSUME NEW S \in SUBSET LED, NEW lock \in SUBSET LED, NEW on \in BOOLEAN
  PROVE  SetLed(S, lock, on) \in SUBSET LED
BY DEF SetLed

LEMMA InitInv == Init => Inv
<1> SUFFICES ASSUME Init PROVE Inv
  OBVIOUS
<1> USE DEF Init
<1>1. TypeOK
  <2>1. held \subseteq Key /\ line \in Seq(Byte) /\ out \in Byte \union {Empty}
    BY DEF Byte
  <2>2. inp \in Written /\ todo \in Seq(Written) /\ led_ctrl_byte \in SUBSET LED
    BY WrittenTyped
  <2>3. leds \in SUBSET LED /\ prefix \in {0, Prefix1, Prefix2} /\ modi \in SUBSET (LED \union Held)
    BY KeyAssumption
  <2> QED  BY <2>1, <2>2, <2>3 DEF TypeOK
<1>2. Masked /\ Unmasked
  BY DEF Masked, Unmasked, Starting
<1>3. OneEpiloguePerByte
  BY DEF OneEpiloguePerByte, Clean
<1> QED  BY <1>1, <1>2, <1>3 DEF Inv

\* The keyboard and the controller keep the types, and only Load and the mouse
\* fill the output buffer.
LEMMA DeviceInv == Inv /\ Device => Inv'
<1> SUFFICES ASSUME Inv, Device PROVE Inv'
  OBVIOUS
<1> USE DEF Inv, device, ports, interrupts, driver, decoder
<1>1. ASSUME NEW codes \in Seq(Byte), Emit(codes), held' \in SUBSET Key
      PROVE  Inv'
  <2>1. line' \in Seq(Byte)
    BY <1>1 DEF Emit, TypeOK
  <2>2. TypeOK'
    BY <1>1, <2>1 DEF Emit, TypeOK
  <2>3. (Masked /\ Unmasked)'
    BY <1>1 DEF Emit, Masked, Unmasked
  <2>4. OneEpiloguePerByte'
    BY <1>1 DEF Emit, OneEpiloguePerByte, Clean, Count
  <2> QED  BY <2>2, <2>3, <2>4
<1>2. ASSUME NEW k \in Key, Press(k) PROVE Inv'
  <2>1. held' \in SUBSET Key
    BY <1>2 DEF Press, TypeOK
  <2> QED  BY <1>1, <1>2, <2>1, BytesTyped DEF Press
<1>3. ASSUME NEW k \in Key, Release(k) PROVE Inv'
  <2>1. held' \in SUBSET Key
    BY <1>3 DEF Release, TypeOK
  <2> QED  BY <1>1, <1>3, <2>1, BytesTyped DEF Release
<1>4. CASE HitPause
  <2>1. held' \in SUBSET Key
    BY <1>4 DEF HitPause, TypeOK
  <2> QED  BY <1>1, <1>4, <2>1, BytesTyped DEF HitPause
<1>5. CASE Load
  <2>1. Head(line) \in Byte /\ Tail(line) \in Seq(Byte)
    BY <1>5 DEF Load, TypeOK
  <2>2. TypeOK'
    BY <1>5, <2>1 DEF Load, TypeOK
  <2>3. (Masked /\ Unmasked)'
    BY <1>5 DEF Load, Masked, Unmasked
  <2>4. OneEpiloguePerByte'
    <3> SUFFICES ASSUME Clean' PROVE Count(out # Empty)' = (Count(irq) + direct + Count(queued) + Count(pc = "epilogue"))'
      BY DEF OneEpiloguePerByte
    <3>1. Clean /\ clean = TRUE /\ allowed = TRUE
      BY <1>5 DEF Load, Clean, Masked, TypeOK
    <3>2. irq = FALSE /\ direct = 0 /\ queued = FALSE /\ pc # "epilogue"
      BY <1>5, <3>1 DEF OneEpiloguePerByte, Count, Load, TypeOK
    <3>3. irq' = TRUE /\ direct' = 0 /\ queued' = FALSE /\ pc' # "epilogue"
      BY <1>5, <3>1, <3>2 DEF Load
    <3>4. out' # Empty
      BY <1>5, <2>1, BytesTyped DEF Load
    <3> QED  BY <3>3, <3>4 DEF Count
  <2> QED  BY <2>2, <2>3, <2>4
<1>6. CASE MouseMoves
  <2>1. TypeOK'
    BY <1>6, BytesTyped DEF MouseMoves, TypeOK
  <2>2. (Masked /\ Unmasked)'
    BY <1>6 DEF MouseMoves, Masked, Unmasked
  <2>3. OneEpiloguePerByte'
    BY <1>6 DEF MouseMoves, OneEpiloguePerByte, Clean
  <2> QED  BY <2>1, <2>2, <2>3
<1>7. CASE Take
  <2>1. line' \in Seq(Byte) /\ inp' \in Written
    BY <1>7, BytesTyped, WrittenTyped DEF Take, TypeOK
  <2>2. leds' \in SUBSET LED /\ command' \in {"none", "set_led", "set_speed"}
    BY <1>7 DEF Take, TypeOK, Written, None
  <2>3. TypeOK'
    BY <1>7, <2>1, <2>2 DEF Take, TypeOK
  <2>4. (Masked /\ Unmasked)'
    BY <1>7 DEF Take, Masked, Unmasked
  <2>5. OneEpiloguePerByte'
    BY <1>7 DEF Take, OneEpiloguePerByte, Clean, Count
  <2> QED  BY <2>3, <2>4, <2>5
<1> QED  BY <1>2, <1>3, <1>4, <1>5, <1>6, <1>7 DEF Device

\* The driver reads a byte in an epilogue, and an epilogue begins for an interrupt.
LEMMA DriverInv == Inv /\ Driver => Inv'
<1> SUFFICES ASSUME Inv, Driver PROVE Inv'
  OBVIOUS
<1> USE DEF Inv, device, ports, interrupts, driver, decoder
<1>1. CASE Drain
  <2>1. TypeOK'
    BY <1>1 DEF Drain, TypeOK
  <2>2. (Masked /\ Unmasked)'
    BY <1>1 DEF Drain, Masked, Unmasked, Starting
  <2>3. ~Clean'
    BY <1>1 DEF Drain, Clean, Masked, Unmasked, Starting, TypeOK
  <2> QED  BY <2>1, <2>2, <2>3 DEF OneEpiloguePerByte
<1>2. CASE SendByte
  <2>1. Head(todo) \in Written /\ Tail(todo) \in Seq(Written)
    BY <1>2 DEF SendByte, TypeOK
  <2>2. TypeOK'
    BY <1>2, <2>1 DEF SendByte, TypeOK
  <2>3. (Masked /\ Unmasked)'
    BY <1>2 DEF SendByte, Masked, Unmasked, Starting
  <2>4. OneEpiloguePerByte'
    BY <1>2 DEF SendByte, OneEpiloguePerByte, Clean, Count
  <2> QED  BY <2>2, <2>3, <2>4
<1>3. CASE Sent
  <2>1. TypeOK'
    BY <1>3 DEF Sent, TypeOK
  <2>2. (Masked /\ Unmasked)'
    BY <1>3 DEF Sent, Masked, Unmasked, Starting
  <2>3. pc # "epilogue" /\ pc' # "epilogue"
    BY <1>3 DEF Sent
  <2>4. OneEpiloguePerByte'
    BY <1>3, <2>3 DEF Sent, OneEpiloguePerByte, Clean, Count
  <2> QED  BY <2>1, <2>2, <2>4
<1>4. CASE Allow
  <2>1. TypeOK'
    BY <1>4 DEF Allow, TypeOK
  <2>2. ~irq /\ ~queued /\ direct = 0
    BY <1>4 DEF Allow, Masked, Unmasked, Starting, TypeOK
  <2>3. (Masked /\ Unmasked)'
    BY <1>4 DEF Allow, Masked, Unmasked, Starting
  <2>4. OneEpiloguePerByte'
    <3>1. clean' => out = Empty
      BY <1>4 DEF Allow
    <3>2. /\ out' = out /\ irq' = irq /\ direct' = direct /\ queued' = queued
          /\ pc' = "idle"
      BY <1>4 DEF Allow
    <3>3. Clean' => out' = Empty
      BY <3>1, <3>2 DEF Clean
    <3>4. ~irq' /\ ~queued' /\ direct' = 0 /\ pc' # "epilogue"
      BY <2>2, <3>2
    <3> QED  BY <3>3, <3>4 DEF OneEpiloguePerByte, Count
  <2> QED  BY <2>1, <2>3, <2>4
<1>5. CASE Interrupt
  <2>1. TypeOK'
    <3>1. direct' \in Nat
      BY <1>5 DEF Interrupt, TypeOK
    <3>2. irq' \in BOOLEAN /\ queued' \in BOOLEAN
      BY <1>5 DEF Interrupt, TypeOK
    <3>3. UNCHANGED <<device, ports, allowed, clean, driver>>
      BY <1>5 DEF Interrupt
    <3> QED  BY <3>1, <3>2, <3>3 DEF TypeOK
  <2>2. (Masked /\ Unmasked)'
    BY <1>5 DEF Interrupt, Masked, Unmasked
  <2>3. OneEpiloguePerByte'
    <3> SUFFICES ASSUME Clean'
                 PROVE  Count(out # Empty)' = (Count(irq) + direct + Count(queued) + Count(pc = "epilogue"))'
      BY DEF OneEpiloguePerByte
    <3>1. Clean /\ irq /\ ~irq' /\ UNCHANGED <<out, pc>>
      BY <1>5 DEF Interrupt, Clean
    <3>2. out # Empty /\ direct = 0 /\ ~queued /\ pc # "epilogue"
      BY <3>1 DEF OneEpiloguePerByte, Count, TypeOK
    <3>3. \/ direct' = 1 /\ ~queued'
          \/ direct' = 0 /\ queued'
      BY <1>5, <3>2 DEF Interrupt
    <3>4. ~irq' /\ out' # Empty /\ pc' # "epilogue"
      BY <3>1, <3>2
    <3>5. CASE direct' = 1 /\ ~queued'
      BY <3>4, <3>5 DEF Count
    <3>6. CASE direct' = 0 /\ queued'
      BY <3>4, <3>6 DEF Count
    <3> QED  BY <3>3, <3>5, <3>6
  <2> QED  BY <2>1, <2>2, <2>3
<1>6. CASE BeginEpilogue
  <2>1. TypeOK'
    <3>1. direct' \in Nat /\ pc' = "epilogue"
      BY <1>6 DEF BeginEpilogue, TypeOK
    <3>2. queued' \in BOOLEAN
      BY <1>6 DEF BeginEpilogue, TypeOK
    <3>3. UNCHANGED <<device, ports, allowed, clean, irq, todo, led_ctrl_byte, decoder>>
      BY <1>6 DEF BeginEpilogue
    <3> QED  BY <3>1, <3>2, <3>3 DEF TypeOK
  <2>2. (Masked /\ Unmasked)'
    BY <1>6 DEF BeginEpilogue, Masked, Unmasked, Starting
  <2>3. OneEpiloguePerByte'
    BY <1>6 DEF BeginEpilogue, OneEpiloguePerByte, Clean, Count, TypeOK
  <2> QED  BY <2>1, <2>2, <2>3
<1>7. CASE KeyHit
  <2>1. TypeOK'
    <3>1. CASE out \in {Empty, MouseByte}
      BY <1>7, <3>1 DEF KeyHit, TypeOK
    <3>2. CASE out \notin {Empty, MouseByte}
      <4> DEFINE key == Decode(out)
                 on == key.lock \subseteq key.modi
      <4>1. /\ key.prefix \in {0, Prefix1, Prefix2}
            /\ key.modi \in SUBSET (LED \union Held)
            /\ key.lock \in SUBSET LED
        BY <3>2, DecodeTyped
      <4>2. /\ prefix' = key.prefix /\ modi' = key.modi
            /\ led_ctrl_byte' = SetLed(led_ctrl_byte, key.lock, on)
            /\ todo' = IF key.lock = {} THEN <<>>
                       ELSE <<Command("set_led"), Data(led_ctrl_byte')>>
            /\ pc' \in {"led", "reboot", "idle"}
            /\ out' = Empty
            /\ UNCHANGED <<device, inp, interrupts>>
        BY <1>7, <3>2 DEF KeyHit
      <4>3. led_ctrl_byte' \in SUBSET LED
        BY <4>1, <4>2, SetLedTyped DEF TypeOK
      <4>4. todo' \in Seq(Written)
        <5>1. Command("set_led") \in Written /\ Data(led_ctrl_byte') \in Written
          BY <4>3, WrittenTyped
        <5> QED  BY <4>2, <5>1
      <4> HIDE DEF key
      <4> QED  BY <4>1, <4>2, <4>3, <4>4 DEF TypeOK
    <3> QED  BY <3>1, <3>2
  <2>2. pc = "epilogue" /\ out' = Empty /\ pc' \in {"led", "reboot", "idle"}
    BY <1>7 DEF KeyHit
  <2>3. UNCHANGED <<device, inp, interrupts>>
    BY <1>7 DEF KeyHit
  <2>4. (Masked /\ Unmasked)'
    BY <2>2, <2>3 DEF Masked, Unmasked, Starting
  <2>5. OneEpiloguePerByte'
    BY <2>2, <2>3 DEF OneEpiloguePerByte, Clean, Count, TypeOK
  <2> QED  BY <2>1, <2>4, <2>5
<1> QED  BY <1>1, <1>2, <1>3, <1>4, <1>5, <1>6, <1>7 DEF Driver

LEMMA InvStep == Inv /\ [Next]_vars => Inv'
<1>1. ASSUME Inv, UNCHANGED vars PROVE Inv'
  BY <1>1 DEF Inv, TypeOK, Masked, Unmasked, OneEpiloguePerByte, Clean, Count, vars,
              device, ports, interrupts, driver, decoder
<1> QED  BY <1>1, DeviceInv, DriverInv DEF Next

\* In every behaviour the ports and fields have their types.
THEOREM KeyboardTypes == Spec => []TypeOK
<1>1. Inv => TypeOK
  BY DEF Inv
<1> QED  BY <1>1, InitInv, InvStep, PTL DEF Spec

\* After a clean start each byte of any keys has exactly one interrupt or epilogue
\* underway until it is read, so that the keyboard never stays deaf.
THEOREM KeyboardNeverDeaf == Spec => []OneEpiloguePerByte
<1>1. Inv => OneEpiloguePerByte
  BY DEF Inv
<1> QED  BY <1>1, InitInv, InvStep, PTL DEF Spec

-----------------------------------------------------------------------------
(* The LEDs *)

\* The LEDs show led_ctrl_byte, or will when the keyboard has taken the data.
Settled == \/ inp = None /\ leds = led_ctrl_byte
           \/ inp = Data(led_ctrl_byte) /\ (command = "set_led" \/ leds = led_ctrl_byte)

\* The keyboard takes what is sent next as LEDs, or as a repeat rate.
Asked == \/ inp = Command("set_led")
         \/ inp = None /\ command = "set_led"
AskedSpeed == /\ leds = led_ctrl_byte
              /\ \/ inp = Command("set_speed")
                 \/ inp = None /\ command = "set_speed"

\* What is left of Setup, and what the keyboard has got.
Remaining == /\ Len(todo) <= 8
             /\ \A j \in 1..Len(todo) : todo[j] = Setup[8 - Len(todo) + j]
             /\ Len(todo) \in {7, 5, 3} => Asked
             /\ Len(todo) \in {2, 0} => Settled
             /\ Len(todo) = 1 => AskedSpeed

LedInv ==
  /\ led_ctrl_byte = modi \intersect LED
  /\ pc \in Starting => led_ctrl_byte = {}
  /\ pc = "drain" => todo = Setup
  /\ pc = "setup" => Remaining
  /\ pc = "led" => \/ todo = <<>> /\ Settled
                   \/ todo = <<Data(led_ctrl_byte)>> /\ Asked
                   \/ todo = <<Command("set_led"), Data(led_ctrl_byte)>>
  /\ pc \in {"drain_again", "main", "idle", "epilogue", "reboot"} => todo = <<>> /\ Settled

LEMMA Kinds ==
  /\ None.kind = "none"
  /\ \A S : Data(S).kind = "data" /\ Data(S).leds = S
  /\ \A c : Command(c).kind = c
  /\ \A S : Data(S) # None
  /\ \A c \in {"set_led", "set_speed"} : Command(c) # None
BY DEF None, Data, Command

LEMMA SetupItems ==
  /\ Len(Setup) = 8
  /\ Setup[1] = Command("set_led") /\ Setup[2] = Data({})
  /\ Setup[3] = Command("set_led") /\ Setup[4] = Data({})
  /\ Setup[5] = Command("set_led") /\ Setup[6] = Data({})
  /\ Setup[7] = Command("set_speed") /\ Setup[8] = Data({})
BY DEF Setup

\* The keyboard takes a byte: what was asked for and settled stays so.
LEMMA TakeLed == TypeOK /\ LedInv /\ Take => LedInv'
<1> SUFFICES ASSUME TypeOK, LedInv, Take PROVE LedInv'
  OBVIOUS
<1>1. UNCHANGED <<pc, todo, led_ctrl_byte, modi>>
  BY DEF Take, driver, decoder
<1>2. Settled => Settled'
  BY <1>1, Kinds DEF Settled, Take
<1>3. Asked => Asked'
  BY <1>1, Kinds DEF Asked, Take
<1>4. AskedSpeed => AskedSpeed'
  BY <1>1, Kinds DEF AskedSpeed, Take
<1>5. Remaining => Remaining'
  BY <1>1, <1>2, <1>3, <1>4 DEF Remaining
<1> QED  BY <1>1, <1>2, <1>3, <1>5 DEF LedInv

\* The driver sends a byte, which is the next one of what is settled.
LEMMA SendLed == TypeOK /\ LedInv /\ SendByte => LedInv'
<1> SUFFICES ASSUME TypeOK, LedInv, SendByte PROVE LedInv'
  OBVIOUS
<1>1. /\ UNCHANGED <<pc, led_ctrl_byte, modi, leds, command>>
      /\ inp = None /\ inp' = Head(todo) /\ todo' = Tail(todo) /\ todo # <<>>
      /\ pc \in {"setup", "led"}
  BY DEF SendByte, device, decoder
<1>2. CASE pc = "setup"
  <2> DEFINE left == Len(todo)
  <2>1. Remaining /\ led_ctrl_byte = {}
    BY <1>2 DEF LedInv, Starting
  <2>2. left \in 1..8 /\ Len(todo') = left - 1
    <3>1. todo \in Seq(Written) /\ left <= 8
      BY <2>1 DEF Remaining, TypeOK
    <3>2. left \in Nat /\ left # 0
      BY <1>1, <3>1
    <3>3. Len(todo') = left - 1
      BY <1>1, <3>1
    <3>4. left \in 1..8
      <4>1. \A m \in Nat : m # 0 /\ m <= 8 => m \in 1..8
        OBVIOUS
      <4> HIDE DEF left
      <4> QED  BY <3>1, <3>2, <4>1
    <3> QED  BY <3>3, <3>4
  <2>3. inp' = Setup[9 - left]
    BY <1>1, <2>1, <2>2 DEF Remaining, TypeOK
  <2>4. \A j \in 1..left - 1 : todo'[j] = Setup[8 - (left - 1) + j]
    <3> SUFFICES ASSUME NEW j \in 1..left - 1 PROVE todo'[j] = Setup[8 - (left - 1) + j]
      OBVIOUS
    <3>1. todo'[j] = todo[j + 1]
      BY <1>1, <2>2 DEF TypeOK
    <3>2. j + 1 \in 1..left /\ 8 - left + (j + 1) = 8 - (left - 1) + j
      BY <2>2
    <3> QED  BY <3>1, <3>2, <2>1 DEF Remaining
  <2>5. left \in {8, 6, 4} => Asked'
    <3>1. left = 8 => inp' = Setup[1]
      BY <2>3
    <3>2. left = 6 => inp' = Setup[3]
      BY <2>3
    <3>3. left = 4 => inp' = Setup[5]
      BY <2>3
    <3> QED  BY <3>1, <3>2, <3>3, SetupItems DEF Asked
  <2>6. left = 3 => Settled'
    BY <1>1, <2>1, <2>2, <2>3, SetupItems, Kinds DEF Settled, Remaining, Asked
  <2>7. left = 2 => AskedSpeed'
    BY <1>1, <2>1, <2>2, <2>3, SetupItems, Kinds DEF AskedSpeed, Remaining, Settled
  <2>8. left = 1 => Settled'
    BY <1>1, <2>1, <2>2, <2>3, SetupItems, Kinds DEF Settled, Remaining, AskedSpeed
  <2>9. Remaining'
    <3> HIDE DEF left
    <3>1. Len(todo') \in {7, 5, 3} => Asked'
      BY <2>2, <2>5
    <3>2. Len(todo') \in {2, 0} => Settled'
      BY <2>2, <2>6, <2>8
    <3>3. Len(todo') = 1 => AskedSpeed'
      <4>1. \A m \in 1..8 : m - 1 = 1 => m = 2
        OBVIOUS
      <4> QED  BY <2>2, <2>7, <4>1
    <3>4. Len(todo') <= 8 /\ \A j \in 1..Len(todo') : todo'[j] = Setup[8 - Len(todo') + j]
      BY <2>2, <2>4
    <3> QED  BY <3>1, <3>2, <3>3, <3>4 DEF Remaining
  <2> QED  BY <1>1, <1>2, <2>1, <2>9 DEF LedInv, Starting
<1>3. CASE pc = "led"
  <2>1. CASE todo = <<Data(led_ctrl_byte)>> /\ Asked
    <3>1. command = "set_led"
      BY <1>1, <2>1, Kinds DEF Asked
    <3>2. inp' = Data(led_ctrl_byte') /\ todo' = <<>>
      BY <1>1, <2>1
    <3>3. Settled'
      BY <1>1, <3>1, <3>2 DEF Settled
    <3> QED  BY <1>1, <1>3, <3>2, <3>3 DEF LedInv, Starting
  <2>2. CASE todo = <<Command("set_led"), Data(led_ctrl_byte)>>
    <3>1. inp' = Command("set_led") /\ todo' = <<Data(led_ctrl_byte')>>
      BY <1>1, <2>2
    <3>2. Asked'
      BY <3>1 DEF Asked
    <3> QED  BY <1>1, <1>3, <3>1, <3>2 DEF LedInv, Starting
  <2> QED  BY <1>1, <1>3, <2>1, <2>2 DEF LedInv
<1> QED  BY <1>1, <1>2, <1>3

\* A toggled lock is toggled in led_ctrl_byte too.
LEMMA ToggleLed ==
  ASSUME TypeOK, out \notin {Empty, MouseByte}, led_ctrl_byte = modi \intersect LED
  PROVE  LET key == Decode(out)
         IN  SetLed(led_ctrl_byte, key.lock, key.lock \subseteq key.modi) = key.modi \intersect LED
<1> DEFINE code == out % BreakBit
           mod == Modifier(prefix, code)
           lock == Lock(modi, code)
           break == out >= BreakBit
           m == IF break THEN modi \ mod ELSE (modi \union mod \union lock) \ (modi \intersect lock)
           l == IF break \/ mod # {} THEN {} ELSE lock
<1>1. mod \intersect LED = {}
  BY DEF Modifier, Held, LED
<1>2. lock = {} \/ \E x \in LED : lock = {x}
  BY DEF Lock, LED
<1>3. mod # {} => lock = {}
  BY DEF Modifier, Lock
<1>4. CASE out \in {Prefix1, Prefix2}
  <2>1. Decode(out).lock = {} /\ Decode(out).modi = modi
    BY <1>4 DEF Decode
  <2> QED  BY <2>1 DEF SetLed
<1>5. CASE out \notin {Prefix1, Prefix2}
  <2> HIDE DEF mod, lock, break
  <2>1. Decode(out).modi = m /\ Decode(out).lock = l
    BY <1>5 DEF Decode, code, mod, lock, break
  <2>2. SetLed(modi \intersect LED, l, l \subseteq m) = m \intersect LED
    <3>1. CASE break \/ mod # {} \/ lock = {}
      BY <3>1, <1>1, <1>3 DEF SetLed
    <3>2. CASE ~break /\ mod = {} /\ lock # {}
      <4>1. PICK x \in LED : lock = {x}
        BY <3>2, <1>2
      <4>2. CASE x \in modi
        BY <3>2, <4>1, <4>2 DEF SetLed
      <4>3. CASE x \notin modi
        BY <3>2, <4>1, <4>3 DEF SetLed
      <4> QED  BY <4>2, <4>3
    <3> QED  BY <3>1, <3>2
  <2> QED  BY <2>1, <2>2
<1> QED  BY <1>4, <1>5

LEMMA KeyHitLed == TypeOK /\ LedInv /\ KeyHit => LedInv'
<1> SUFFICES ASSUME TypeOK, LedInv, KeyHit PROVE LedInv'
  OBVIOUS
<1>1. todo = <<>> /\ Settled
  BY DEF KeyHit, LedInv
<1>2. CASE out \in {Empty, MouseByte}
  <2>1. UNCHANGED <<inp, leds, command, todo, led_ctrl_byte, modi>> /\ pc' = "idle"
    BY <1>2 DEF KeyHit, device, decoder
  <2>2. Settled'
    BY <1>1, <2>1 DEF Settled
  <2> QED  BY <1>1, <2>1, <2>2 DEF LedInv, Starting
<1>3. CASE out \notin {Empty, MouseByte}
  <2> DEFINE key == Decode(out)
  <2>1. led_ctrl_byte' = modi' \intersect LED
    BY <1>3, ToggleLed DEF KeyHit, LedInv
  <2>2. /\ UNCHANGED <<inp, leds, command>>
        /\ todo' = IF key.lock = {} THEN <<>>
                   ELSE <<Command("set_led"), Data(led_ctrl_byte')>>
        /\ pc' = "led" <=> key.lock # {}
        /\ pc' \in {"led", "idle", "reboot"}
        /\ led_ctrl_byte' = SetLed(led_ctrl_byte, key.lock, key.lock \subseteq key.modi)
    BY <1>3 DEF KeyHit, device
  <2>3. CASE key.lock = {}
    <3>1. led_ctrl_byte' = led_ctrl_byte
      BY <2>2, <2>3 DEF SetLed
    <3>2. Settled' /\ todo' = <<>>
      BY <1>1, <2>2, <2>3, <3>1 DEF Settled
    <3> QED  BY <2>1, <2>2, <2>3, <3>2 DEF LedInv, Starting
  <2>4. CASE key.lock # {}
    BY <2>1, <2>2, <2>4 DEF LedInv, Starting
  <2> QED  BY <2>3, <2>4
<1> QED  BY <1>2, <1>3

LEMMA LedStep == TypeOK /\ LedInv /\ [Next]_vars => LedInv'
<1> SUFFICES ASSUME TypeOK, LedInv, [Next]_vars PROVE LedInv'
  OBVIOUS
<1>1. ASSUME UNCHANGED <<inp, leds, command, pc, todo, led_ctrl_byte, modi>> PROVE LedInv'
  BY <1>1 DEF LedInv, Settled, Asked, AskedSpeed, Remaining
<1>2. CASE \E k \in Key : Press(k) \/ Release(k)
  BY <1>1, <1>2 DEF Press, Release, Emit, ports, driver, decoder
<1>3. CASE HitPause \/ Load \/ MouseMoves
  BY <1>1, <1>3 DEF HitPause, Load, MouseMoves, Emit, ports, device, driver, decoder
<1>4. CASE Interrupt \/ UNCHANGED vars
  BY <1>1, <1>4 DEF Interrupt, vars, ports, device, driver, decoder
<1>5. ASSUME UNCHANGED <<inp, leds, command, todo, led_ctrl_byte, modi>> PROVE Settled => Settled'
  BY <1>5 DEF Settled
<1>6. CASE Drain
  <2>1. UNCHANGED <<inp, leds, command, todo, led_ctrl_byte, modi>>
    BY <1>6 DEF Drain, device, decoder
  <2>2. CASE pc' = pc
    BY <1>1, <2>1, <2>2
  <2>3. CASE pc = "drain" /\ pc' = "setup"
    <3>1. Len(todo') = 8 /\ \A j \in 1..8 : todo'[j] = Setup[8 - 8 + j]
      BY <2>1, <2>3, SetupItems DEF LedInv
    <3>2. Remaining'
      BY <3>1 DEF Remaining
    <3> QED  BY <2>1, <2>3, <3>2 DEF LedInv, Starting
  <2>4. CASE pc = "drain_again" /\ pc' = "main"
    BY <1>5, <2>1, <2>4 DEF LedInv, Starting
  <2> QED  BY <1>6, <2>2, <2>3, <2>4 DEF Drain
<1>7. CASE Sent
  <2>1. UNCHANGED <<inp, leds, command, todo, led_ctrl_byte, modi>> /\ todo = <<>>
    BY <1>7 DEF Sent, device, ports, decoder
  <2>2. Settled
    BY <1>7, <2>1 DEF Sent, LedInv, Remaining
  <2>3. CASE pc = "setup"
    <3>1. pc' = "drain_again"
      BY <1>7, <2>3 DEF Sent
    <3> QED  BY <1>5, <2>1, <2>2, <2>3, <3>1 DEF LedInv, Starting
  <2>4. CASE pc = "led"
    <3>1. pc' = "idle"
      BY <1>7, <2>4 DEF Sent
    <3> QED  BY <1>5, <2>1, <2>2, <2>4, <3>1 DEF LedInv, Starting
  <2> QED  BY <1>7, <2>3, <2>4 DEF Sent
<1>8. CASE Allow \/ BeginEpilogue
  <2>1. UNCHANGED <<inp, leds, command, todo, led_ctrl_byte, modi>>
    BY <1>8 DEF Allow, BeginEpilogue, device, ports, decoder
  <2>2. pc \in {"main", "idle"} /\ pc' \in {"idle", "epilogue"}
    BY <1>8 DEF Allow, BeginEpilogue
  <2> QED  BY <1>5, <2>1, <2>2 DEF LedInv, Starting
<1> QED  BY <1>2, <1>3, <1>4, <1>6, <1>7, <1>8, TakeLed, SendLed, KeyHitLed DEF Next, Device, Driver

\* After the start, and whenever the keyboard has taken what was sent, its LEDs are
\* the locks of the decoder, for any keys and any LEDs that the firmware left on.
THEOREM LEDsShowLocks == Spec => []LEDsMatch
<1>1. Init => LedInv
  BY DEF Init, LedInv, Starting
<1>2. Inv /\ LedInv /\ [Next]_vars => LedInv'
  BY LedStep DEF Inv
<1>3. LedInv => LEDsMatch
  BY Kinds DEF LedInv, LEDsMatch, Settled
<1> QED  BY <1>1, <1>2, <1>3, InitInv, InvStep, PTL DEF Spec
-----------------------------------------------------------------------------
(* The modifiers                                                           *)

Prefix == {0, Prefix1, Prefix2}
Code == 0..255

\* What decode(b) makes of the modifiers S after the prefix p, locks left out.
StepHeld(p, S, b) ==
  IF b \in {Prefix1, Prefix2} THEN S
  ELSE IF b >= BreakBit THEN S \ Modifier(p, b % BreakBit)
  ELSE S \union Modifier(p, b % BreakBit)

\* The prefixes ps and the modifiers hs between the bytes of B.
Replay(B, ps, hs) ==
  \A i \in 1..Len(B) : /\ ps[i] = NextPrefix(B[i])
                       /\ hs[i] = StepHeld(ps[i - 1], hs[i - 1], B[i])

\* The bytes of B, decoded after the prefix p with the modifiers S, lead to q and T.
Decodes(B, p, S, q, T) ==
  \E ps, hs : /\ Replay(B, ps, hs)
              /\ ps[0] = p /\ hs[0] = S
              /\ ps[Len(B)] = q /\ hs[Len(B)] = T

LEMMA DecodesNothing == \A p, S, q, T : Decodes(<<>>, p, S, q, T) <=> p = q /\ S = T
<1> SUFFICES ASSUME NEW p, NEW S, NEW q, NEW T
             PROVE  Decodes(<<>>, p, S, q, T) <=> p = q /\ S = T
  OBVIOUS
<1>1. Decodes(<<>>, p, S, q, T) => p = q /\ S = T
  BY DEF Decodes
<1>2. ASSUME p = q, S = T PROVE Decodes(<<>>, p, S, q, T)
  <2> DEFINE ps == [i \in {0} |-> p]
             hs == [i \in {0} |-> S]
  <2>1. Replay(<<>>, ps, hs)
    BY DEF Replay
  <2>2. ps[0] = p /\ hs[0] = S /\ Len(<<>>) = 0
    OBVIOUS
  <2> QED BY <1>2, <2>1, <2>2 DEF Decodes
<1> QED BY <1>1, <1>2

LEMMA DecodesOne ==
  ASSUME NEW b \in Byte, NEW p, NEW S
  PROVE  Decodes(<<b>>, p, S, NextPrefix(b), StepHeld(p, S, b))
<1> DEFINE ps == [i \in 0..1 |-> IF i = 0 THEN p ELSE NextPrefix(b)]
           hs == [i \in 0..1 |-> IF i = 0 THEN S ELSE StepHeld(p, S, b)]
<1>1. ps[0] = p /\ ps[1] = NextPrefix(b) /\ hs[0] = S /\ hs[1] = StepHeld(p, S, b)
  OBVIOUS
<1> HIDE DEF ps, hs
<1>2. Len(<<b>>) = 1 /\ <<b>>[1] = b
  OBVIOUS
<1>3. Replay(<<b>>, ps, hs)
  <2> SUFFICES ASSUME NEW i \in 1..1
               PROVE  /\ ps[i] = NextPrefix(<<b>>[i])
                      /\ hs[i] = StepHeld(ps[i - 1], hs[i - 1], <<b>>[i])
    BY <1>2 DEF Replay
  <2>1. i = 1 /\ i - 1 = 0
    OBVIOUS
  <2> QED BY <1>1, <1>2, <2>1
<1> QED BY <1>1, <1>2, <1>3 DEF Decodes

\* One sequence after the other.
LEMMA DecodesBoth ==
  ASSUME NEW B \in Seq(Byte), NEW C \in Seq(Byte),
         NEW p, NEW S, NEW q, NEW T, NEW r, NEW U,
         Decodes(B, p, S, q, T), Decodes(C, q, T, r, U)
  PROVE  Decodes(B \o C, p, S, r, U)
<1>1. PICK ps1, hs1 : /\ Replay(B, ps1, hs1)
                      /\ ps1[0] = p /\ hs1[0] = S /\ ps1[Len(B)] = q /\ hs1[Len(B)] = T
  BY DEF Decodes
<1>2. PICK ps2, hs2 : /\ Replay(C, ps2, hs2)
                      /\ ps2[0] = q /\ hs2[0] = T /\ ps2[Len(C)] = r /\ hs2[Len(C)] = U
  BY DEF Decodes
<1> DEFINE n == Len(B)
           m == Len(C)
           ps == [i \in 0..(n + m) |-> IF i <= n THEN ps1[i] ELSE ps2[i - n]]
           hs == [i \in 0..(n + m) |-> IF i <= n THEN hs1[i] ELSE hs2[i - n]]
<1>3. n \in Nat /\ m \in Nat
  BY LenProperties
<1>4. /\ Len(B \o C) = n + m
      /\ \A i \in 1..(n + m) : (B \o C)[i] = IF i <= n THEN B[i] ELSE C[i - n]
  BY ConcatProperties
<1> HIDE DEF n, m
<1>5. \A i \in 0..n : ps[i] = ps1[i] /\ hs[i] = hs1[i]
  BY <1>3
<1>6. \A i \in 0..m : ps[n + i] = ps2[i] /\ hs[n + i] = hs2[i]
  <2>1. ps1[n] = ps2[0] /\ hs1[n] = hs2[0]
    BY <1>1, <1>2 DEF n
  <2> SUFFICES ASSUME NEW i \in 0..m PROVE ps[n + i] = ps2[i] /\ hs[n + i] = hs2[i]
    OBVIOUS
  <2>2. CASE i = 0
    BY <1>3, <1>5, <2>1, <2>2
  <2>3. CASE i # 0
    <3>1. n + i \in 0..(n + m) /\ ~(n + i <= n) /\ (n + i) - n = i
      BY <1>3, <2>3
    <3> QED BY <3>1
  <2> QED BY <2>2, <2>3
<1> HIDE DEF ps, hs
<1>7. Replay(B \o C, ps, hs)
  <2> SUFFICES ASSUME NEW i \in 1..(n + m)
               PROVE  /\ ps[i] = NextPrefix((B \o C)[i])
                      /\ hs[i] = StepHeld(ps[i - 1], hs[i - 1], (B \o C)[i])
    BY <1>4 DEF Replay
  <2>1. CASE i <= n
    <3>1. i \in 1..n /\ i \in 0..n /\ i - 1 \in 0..n
      BY <1>3, <2>1
    <3>2. (B \o C)[i] = B[i]
      BY <1>4, <2>1
    <3>3. ps1[i] = NextPrefix(B[i]) /\ hs1[i] = StepHeld(ps1[i - 1], hs1[i - 1], B[i])
      BY <1>1, <3>1 DEF Replay, n
    <3> QED BY <1>5, <3>1, <3>2, <3>3
  <2>2. CASE ~(i <= n)
    <3>1. PICK j \in 1..m : i = n + j
      <4>1. i - n \in 1..m /\ i = n + (i - n)
        BY <1>3, <2>2
      <4> QED BY <4>1
    <3>2. j \in 0..m /\ j - 1 \in 0..m /\ i - 1 = n + (j - 1) /\ i - n = j
      BY <1>3, <3>1
    <3>3. (B \o C)[i] = C[j]
      BY <1>4, <2>2, <3>2
    <3>4. ps2[j] = NextPrefix(C[j]) /\ hs2[j] = StepHeld(ps2[j - 1], hs2[j - 1], C[j])
      BY <1>2, <3>1 DEF Replay, m
    <3>5. /\ ps[i] = ps2[j] /\ hs[i] = hs2[j]
          /\ ps[i - 1] = ps2[j - 1] /\ hs[i - 1] = hs2[j - 1]
      BY <1>6, <3>1, <3>2
    <3> QED BY <3>3, <3>4, <3>5
  <2> QED BY <2>1, <2>2
<1>8. ps[0] = p /\ hs[0] = S
  BY <1>1, <1>3, <1>5
<1>9. ps[n + m] = r /\ hs[n + m] = U
  BY <1>2, <1>3, <1>6 DEF m
<1> QED BY <1>4, <1>7, <1>8, <1>9 DEF Decodes

\* The first byte is decoded.
LEMMA DecodesRest ==
  ASSUME NEW b \in Byte, NEW C \in Seq(Byte), NEW p, NEW S, NEW q, NEW T,
         Decodes(<<b>> \o C, p, S, q, T)
  PROVE  Decodes(C, NextPrefix(b), StepHeld(p, S, b), q, T)
<1> DEFINE B == <<b>> \o C
           n == Len(C)
<1>1. n \in Nat /\ <<b>> \in Seq(Byte) /\ Len(<<b>>) = 1 /\ <<b>>[1] = b
  BY LenProperties
<1>2. /\ Len(B) = 1 + n
      /\ \A i \in 1..(1 + n) : B[i] = IF i <= 1 THEN <<b>>[i] ELSE C[i - 1]
  BY <1>1, ConcatProperties
<1>3. PICK ps, hs : /\ Replay(B, ps, hs)
                    /\ ps[0] = p /\ hs[0] = S /\ ps[Len(B)] = q /\ hs[Len(B)] = T
  BY DEF Decodes
<1> DEFINE qs == [i \in 0..n |-> ps[i + 1]]
           gs == [i \in 0..n |-> hs[i + 1]]
<1> HIDE DEF B, n
<1>4. \A i \in 0..n : qs[i] = ps[i + 1] /\ gs[i] = hs[i + 1]
  OBVIOUS
<1> HIDE DEF qs, gs
<1>5. Replay(C, qs, gs)
  <2> SUFFICES ASSUME NEW i \in 1..n
               PROVE  qs[i] = NextPrefix(C[i]) /\ gs[i] = StepHeld(qs[i - 1], gs[i - 1], C[i])
    BY DEF Replay, n
  <2>1. /\ i \in 0..n /\ i - 1 \in 0..n /\ i + 1 \in 1..(1 + n) /\ (i - 1) + 1 = i
        /\ (i + 1) - 1 = i /\ ~(i + 1 <= 1)
    BY <1>1
  <2>2. B[i + 1] = C[i]
    BY <1>2, <2>1
  <2>3. ps[i + 1] = NextPrefix(B[i + 1]) /\ hs[i + 1] = StepHeld(ps[i], hs[i], B[i + 1])
    BY <1>2, <1>3, <2>1 DEF Replay
  <2> QED BY <1>4, <2>1, <2>2, <2>3
<1>6. qs[0] = NextPrefix(b) /\ gs[0] = StepHeld(p, S, b)
  <2>1. 1 \in 1..(1 + n) /\ 0 \in 0..n /\ 1 - 1 = 0
    BY <1>1
  <2>2. B[1] = b
    BY <1>1, <1>2, <2>1
  <2>3. ps[1] = NextPrefix(b) /\ hs[1] = StepHeld(p, S, b)
    BY <1>2, <1>3, <2>1, <2>2 DEF Replay
  <2> QED BY <1>4, <2>1, <2>3
<1>7. qs[n] = q /\ gs[n] = T
  <2>1. n \in 0..n /\ n + 1 = 1 + n
    BY <1>1
  <2> QED BY <1>2, <1>3, <1>4, <2>1
<1> QED BY <1>5, <1>6, <1>7 DEF Decodes, n

\* What the decoder makes of the codes of a key.
LEMMA CodesDecoded ==
  ASSUME NEW k \in Key, NEW T
  PROVE  /\ Codes(k, 0) \in Seq(Code) /\ Codes(k, BreakBit) \in Seq(Code)
         /\ Decodes(Codes(k, 0), 0, T, 0, T \union Modifier(k[1], k[2]))
         /\ Decodes(Codes(k, BreakBit), 0, T, 0, T \ Modifier(k[1], k[2]))
<1>1. k[1] \in {0, Prefix1} /\ k[2] \in 1..88
  BY KeyAssumption
<1>2. ASSUME NEW b \in Code, NEW U, b \notin {Prefix1, Prefix2},
             StepHeld(k[1], T, b) = U
      PROVE  /\ (IF k[1] = 0 THEN <<>> ELSE <<k[1]>>) \o <<b>> \in Seq(Code)
             /\ Decodes((IF k[1] = 0 THEN <<>> ELSE <<k[1]>>) \o <<b>>, 0, T, 0, U)
  <2>1. b \in Byte /\ <<b>> \in Seq(Byte) /\ <<b>> \in Seq(Code) /\ NextPrefix(b) = 0
    BY <1>2 DEF Code, Byte, NextPrefix
  <2>2. CASE k[1] = 0
    <3>1. Decodes(<<b>>, 0, T, 0, U)
      BY <1>2, <2>1, <2>2, DecodesOne
    <3>2. <<>> \o <<b>> = <<b>>
      BY <2>1, ConcatEmptySeq
    <3> QED BY <2>1, <2>2, <3>1, <3>2
  <2>3. CASE k[1] = Prefix1
    <3>1. /\ Prefix1 \in Byte /\ <<Prefix1>> \in Seq(Byte) /\ <<Prefix1>> \in Seq(Code)
          /\ NextPrefix(Prefix1) = Prefix1 /\ StepHeld(0, T, Prefix1) = T /\ Prefix1 # 0
      BY DEF Prefix1, Byte, Code, NextPrefix, StepHeld
    <3>2. Decodes(<<Prefix1>>, 0, T, Prefix1, T)
      BY <3>1, DecodesOne
    <3>3. Decodes(<<b>>, Prefix1, T, 0, U)
      BY <1>2, <2>1, <2>3, DecodesOne
    <3>4. Decodes(<<Prefix1>> \o <<b>>, 0, T, 0, U)
      BY <2>1, <3>1, <3>2, <3>3, DecodesBoth
    <3>5. <<Prefix1>> \o <<b>> \in Seq(Code)
      BY <2>1, <3>1, ConcatProperties
    <3> QED BY <2>3, <3>1, <3>4, <3>5
  <2> QED BY <1>1, <2>2, <2>3
<1>3. /\ k[2] + 0 \in Code /\ k[2] + 0 \notin {Prefix1, Prefix2}
      /\ StepHeld(k[1], T, k[2] + 0) = T \union Modifier(k[1], k[2])
  <2>1. /\ k[2] + 0 = k[2] /\ k[2] \notin {Prefix1, Prefix2} /\ ~(k[2] >= BreakBit)
        /\ k[2] % BreakBit = k[2] /\ k[2] \in Code
    BY <1>1 DEF Prefix1, Prefix2, BreakBit, Code
  <2> QED BY <2>1 DEF StepHeld
<1>4. /\ k[2] + BreakBit \in Code /\ k[2] + BreakBit \notin {Prefix1, Prefix2}
      /\ StepHeld(k[1], T, k[2] + BreakBit) = T \ Modifier(k[1], k[2])
  <2>1. /\ k[2] + BreakBit \notin {Prefix1, Prefix2} /\ k[2] + BreakBit >= BreakBit
        /\ (k[2] + BreakBit) % BreakBit = k[2] /\ k[2] + BreakBit \in Code
    BY <1>1 DEF Prefix1, Prefix2, BreakBit, Code
  <2> QED BY <2>1 DEF StepHeld
<1> QED BY <1>2, <1>3, <1>4 DEF Codes

\* The codes of Pause set the left control key, and clear it again.
LEMMA PauseDecoded ==
  ASSUME NEW T
  PROVE  PauseCodes \in Seq(Code) /\ \E U \in SUBSET T : Decodes(PauseCodes, 0, T, 0, U)
<1> DEFINE M == Modifier(Prefix2, 29)
           N == Modifier(0, 69)
           U == (((T \union M) \union N) \ M) \ N
<1>2. /\ NextPrefix(Prefix2) = Prefix2 /\ NextPrefix(29) = 0 /\ NextPrefix(69) = 0
      /\ NextPrefix(29 + BreakBit) = 0 /\ NextPrefix(69 + BreakBit) = 0
  BY DEF NextPrefix, Prefix1, Prefix2, BreakBit
<1>3. \A p, S : /\ StepHeld(p, S, Prefix2) = S
                /\ StepHeld(p, S, 29) = S \union Modifier(p, 29)
                /\ StepHeld(p, S, 69) = S \union Modifier(p, 69)
                /\ StepHeld(p, S, 29 + BreakBit) = S \ Modifier(p, 29)
                /\ StepHeld(p, S, 69 + BreakBit) = S \ Modifier(p, 69)
  <2>1. /\ 29 % BreakBit = 29 /\ 69 % BreakBit = 69
        /\ (29 + BreakBit) % BreakBit = 29 /\ (69 + BreakBit) % BreakBit = 69
        /\ ~(29 >= BreakBit) /\ ~(69 >= BreakBit)
        /\ 29 + BreakBit >= BreakBit /\ 69 + BreakBit >= BreakBit
        /\ {29, 69, 29 + BreakBit, 69 + BreakBit} \intersect {Prefix1, Prefix2} = {}
    BY DEF Prefix1, Prefix2, BreakBit
  <2> QED BY <2>1 DEF StepHeld
<1> DEFINE S2 == T \union M
           S3 == S2 \union N
           S5 == S3 \ M
           ps == [i \in 0..6 |-> IF i \in {1, 4} THEN Prefix2 ELSE 0]
           hs == [i \in 0..6 |-> IF i <= 1 THEN T ELSE IF i = 2 THEN S2
                                 ELSE IF i <= 4 THEN S3 ELSE IF i = 5 THEN S5 ELSE U]
<1>4. /\ ps[0] = 0 /\ ps[1] = Prefix2 /\ ps[2] = 0 /\ ps[3] = 0 /\ ps[4] = Prefix2
      /\ ps[5] = 0 /\ ps[6] = 0
  OBVIOUS
<1>5. /\ hs[0] = T /\ hs[1] = T /\ hs[2] = S2 /\ hs[3] = S3 /\ hs[4] = S3
      /\ hs[5] = S5 /\ hs[6] = U
  OBVIOUS
<1>6. U \in SUBSET T
  OBVIOUS
<1>7. S2 = T \union M /\ S3 = S2 \union N /\ S5 = S3 \ M /\ U = S5 \ N
  OBVIOUS
<1>8. M = Modifier(Prefix2, 29) /\ N = Modifier(0, 69)
  OBVIOUS
<1> HIDE DEF M, N, U, S2, S3, S5, ps, hs
<1>9. Replay(PauseCodes, ps, hs)
  <2>1. /\ Len(PauseCodes) = 6
        /\ PauseCodes[1] = Prefix2 /\ PauseCodes[2] = 29 /\ PauseCodes[3] = 69
        /\ PauseCodes[4] = Prefix2 /\ PauseCodes[5] = 29 + BreakBit
        /\ PauseCodes[6] = 69 + BreakBit
    BY DEF PauseCodes
  <2> SUFFICES ASSUME NEW i \in 1..6
               PROVE  /\ ps[i] = NextPrefix(PauseCodes[i])
                      /\ hs[i] = StepHeld(ps[i - 1], hs[i - 1], PauseCodes[i])
    BY <2>1 DEF Replay
  <2>2. CASE i = 1
    BY <1>2, <1>3, <1>4, <1>5, <2>1, <2>2
  <2>3. CASE i = 2
    <3>1. StepHeld(Prefix2, T, 29) = S2
      BY <1>3, <1>7, <1>8
    <3> QED BY <1>2, <1>4, <1>5, <2>1, <2>3, <3>1
  <2>4. CASE i = 3
    <3>1. StepHeld(0, S2, 69) = S3
      BY <1>3, <1>7, <1>8
    <3> QED BY <1>2, <1>4, <1>5, <2>1, <2>4, <3>1
  <2>5. CASE i = 4
    BY <1>2, <1>3, <1>4, <1>5, <2>1, <2>5
  <2>6. CASE i = 5
    <3>1. StepHeld(Prefix2, S3, 29 + BreakBit) = S5
      BY <1>3, <1>7, <1>8
    <3> QED BY <1>2, <1>4, <1>5, <2>1, <2>6, <3>1
  <2>7. CASE i = 6
    <3>1. StepHeld(0, S5, 69 + BreakBit) = U
      BY <1>3, <1>7, <1>8
    <3> QED BY <1>2, <1>4, <1>5, <2>1, <2>7, <3>1
  <2>8. i \in {1, 2, 3, 4, 5, 6}
    OBVIOUS
  <2> QED BY <2>2, <2>3, <2>4, <2>5, <2>6, <2>7, <2>8
<1>10. Len(PauseCodes) = 6
  BY DEF PauseCodes
<1>11. Decodes(PauseCodes, 0, T, 0, U)
  BY <1>4, <1>5, <1>9, <1>10 DEF Decodes
<1>12. PauseCodes \in Seq(Code)
  BY DEF PauseCodes, Prefix2, BreakBit, Code
<1> QED BY <1>6, <1>11, <1>12

\* The keyboard's answer is the break code of no modifier.
LEMMA AckDecoded ==
  ASSUME NEW T
  PROVE  Ack \in Code /\ \E U \in SUBSET T : Decodes(<<Ack>>, 0, T, 0, U)
<1>1. /\ Ack \in Byte /\ Ack \in Code /\ Ack >= BreakBit
      /\ Ack \notin {Prefix1, Prefix2} /\ NextPrefix(Ack) = 0
  BY DEF Ack, Byte, Code, BreakBit, Prefix1, Prefix2, NextPrefix
<1>2. StepHeld(0, T, Ack) \in SUBSET T
  BY <1>1 DEF StepHeld
<1> QED BY <1>1, <1>2, DecodesOne

\* The bytes that the decoder has not seen.
Stream == (IF out = Empty THEN <<>> ELSE <<out>>) \o line

Pressed(T) == \A m \in T : \E k \in held : Modifier(k[1], k[2]) = {m}

\* Decoding the rest of the bytes leaves only modifiers whose keys are pressed.
HeldInv ==
  /\ ~mouse => out # MouseByte
  /\ line \in Seq(Code)
  /\ pc \in Starting => prefix = 0 /\ modi = {}
  /\ Clean => \E T \in SUBSET Held :
                Decodes(Stream, prefix, modi \intersect Held, 0, T) /\ Pressed(T)

LEMMA CodeIsByte == /\ \A B \in Seq(Code) : B \in Seq(Byte)
                    /\ MouseByte \notin Code /\ Empty \notin Code
<1>1. Code \subseteq Byte /\ MouseByte \notin Code /\ Empty \notin Code
  BY DEF Code, Byte, MouseByte, Empty
<1>2. ASSUME NEW B \in Seq(Code) PROVE B \in Seq(Byte)
  BY <1>1, SeqMonotonic
<1> QED BY <1>1, <1>2

LEMMA StreamTyped == TypeOK /\ line \in Seq(Code) => Stream \in Seq(Byte)
<1> SUFFICES ASSUME TypeOK, line \in Seq(Code) PROVE Stream \in Seq(Byte)
  OBVIOUS
<1>1. line \in Seq(Byte)
  BY DEF TypeOK
<1>2. (IF out = Empty THEN <<>> ELSE <<out>>) \in Seq(Byte)
  <2>1. CASE out = Empty
    BY <2>1
  <2>2. CASE out # Empty
    <3>1. out \in Byte
      BY <2>2 DEF TypeOK
    <3> QED BY <2>2, <3>1
  <2> QED BY <2>1, <2>2
<1> QED BY <1>1, <1>2, ConcatProperties DEF Stream

\* decode() does to the modifiers what StepHeld says, whatever the locks are.
LEMMA DecodeHeld ==
  ASSUME TypeOK, out \notin {Empty, MouseByte}
  PROVE  /\ Decode(out).prefix = NextPrefix(out)
         /\ Decode(out).modi \intersect Held = StepHeld(prefix, modi \intersect Held, out)
<1> DEFINE code == out % BreakBit
           mod == Modifier(prefix, code)
           lock == Lock(modi, code)
<1>1. mod \in SUBSET Held
  BY DEF Modifier
<1>2. lock \intersect Held = {}
  BY DEF Lock, LED, Held
<1>3. CASE out \in {Prefix1, Prefix2}
  BY <1>3 DEF Decode, StepHeld
<1>4. CASE out \notin {Prefix1, Prefix2}
  <2> DEFINE m == IF out >= BreakBit THEN modi \ mod
                  ELSE (modi \union mod \union lock) \ (modi \intersect lock)
  <2>1. Decode(out).prefix = NextPrefix(out) /\ Decode(out).modi = m
    BY <1>4 DEF Decode
  <2>2. StepHeld(prefix, modi \intersect Held, out)
          = IF out >= BreakBit THEN (modi \intersect Held) \ mod
            ELSE (modi \intersect Held) \union mod
    BY <1>4 DEF StepHeld
  <2> HIDE DEF mod, lock
  <2>3. m \intersect Held = IF out >= BreakBit THEN (modi \intersect Held) \ mod
                            ELSE (modi \intersect Held) \union mod
    BY <1>1, <1>2
  <2> HIDE DEF m
  <2> QED BY <2>1, <2>2, <2>3
<1> QED BY <1>3, <1>4

\* Bytes come in at the end of the line.
LEMMA AppendHeld ==
  ASSUME TypeOK, HeldInv, NEW codes \in Seq(Code), line' = line \o codes,
         UNCHANGED <<out, mouse, clean, pc, prefix, modi>>,
         \A T \in SUBSET Held :
           Pressed(T) => \E U \in SUBSET Held : Decodes(codes, 0, T, 0, U) /\ Pressed(U)'
  PROVE  HeldInv'
<1>1. line' \in Seq(Code)
  BY ConcatProperties DEF HeldInv
<1>2. ASSUME Clean'
      PROVE  \E U \in SUBSET Held :
               Decodes(Stream', prefix', modi' \intersect Held, 0, U) /\ Pressed(U)'
  <2>1. PICK T \in SUBSET Held :
          Decodes(Stream, prefix, modi \intersect Held, 0, T) /\ Pressed(T)
    BY <1>2 DEF Clean, HeldInv
  <2>2. PICK U \in SUBSET Held : Decodes(codes, 0, T, 0, U) /\ Pressed(U)'
    BY <2>1
  <2>3. Stream \in Seq(Byte) /\ codes \in Seq(Byte)
    BY StreamTyped, CodeIsByte DEF HeldInv
  <2>4. Decodes(Stream \o codes, prefix, modi \intersect Held, 0, U)
    BY <2>1, <2>2, <2>3, DecodesBoth
  <2>5. Stream' = Stream \o codes
    <3> DEFINE first == IF out = Empty THEN <<>> ELSE <<out>>
    <3>1. first \in Seq(Byte) /\ line \in Seq(Byte)
      <4>1. CASE out = Empty
        BY <4>1 DEF TypeOK
      <4>2. CASE out # Empty
        <5>1. out \in Byte
          BY <4>2 DEF TypeOK
        <5> QED BY <4>2, <5>1 DEF TypeOK
      <4> QED BY <4>1, <4>2
    <3>2. Stream = first \o line /\ Stream' = first \o (line \o codes)
      BY DEF Stream
    <3> HIDE DEF first
    <3>3. (first \o line) \o codes = first \o (line \o codes)
      BY <2>3, <3>1, ConcatAssociative
    <3> QED BY <3>2, <3>3
  <2> QED BY <2>2, <2>4, <2>5
<1> QED BY <1>1, <1>2 DEF HeldInv

\* Nothing that matters to the modifiers changes.
LEMMA HeldKept ==
  ASSUME HeldInv, UNCHANGED <<held, out, line, mouse, clean, prefix, modi>>,
         pc' \in Starting => pc \in Starting
  PROVE  HeldInv'
<1>1. UNCHANGED Stream /\ UNCHANGED Clean
  BY DEF Stream, Clean
<1>2. \A T : Pressed(T) <=> Pressed(T)'
  BY DEF Pressed
<1> QED BY <1>1, <1>2 DEF HeldInv

LEMMA HeldDevice == Inv /\ HeldInv /\ Device => HeldInv'
<1> SUFFICES ASSUME Inv, HeldInv, Device PROVE HeldInv'
  OBVIOUS
<1> USE DEF device, ports, interrupts, driver, decoder
<1>1. TypeOK
  BY DEF Inv
<1>2. ASSUME NEW k \in Key, Press(k) PROVE HeldInv'
  <2>1. /\ line' = line \o Codes(k, 0) /\ held' = held \union {k}
        /\ UNCHANGED <<out, mouse, clean, pc, prefix, modi>>
    BY <1>2 DEF Press, Emit
  <2>2. ASSUME NEW T \in SUBSET Held, Pressed(T)
        PROVE  \E U \in SUBSET Held : Decodes(Codes(k, 0), 0, T, 0, U) /\ Pressed(U)'
    <3> DEFINE U == T \union Modifier(k[1], k[2])
    <3>1. U \in SUBSET Held
      BY DEF Modifier
    <3>2. Decodes(Codes(k, 0), 0, T, 0, U)
      BY CodesDecoded
    <3>3. Pressed(U)'
      <4> SUFFICES ASSUME NEW m \in U
                   PROVE  \E x \in held' : Modifier(x[1], x[2]) = {m}
        BY DEF Pressed
      <4>1. CASE m \in T
        BY <2>1, <2>2, <4>1 DEF Pressed
      <4>2. CASE m \in Modifier(k[1], k[2])
        <5>1. Modifier(k[1], k[2]) = {m}
          BY <4>2 DEF Modifier
        <5> QED BY <2>1, <5>1
      <4> QED BY <4>1, <4>2
    <3> HIDE DEF U
    <3> QED BY <3>1, <3>2, <3>3
  <2> QED BY <1>1, <2>1, <2>2, CodesDecoded, AppendHeld
<1>3. ASSUME NEW k \in Key, Release(k) PROVE HeldInv'
  <2>1. /\ line' = line \o Codes(k, BreakBit) /\ held' = held \ {k}
        /\ UNCHANGED <<out, mouse, clean, pc, prefix, modi>>
    BY <1>3 DEF Release, Emit
  <2>2. ASSUME NEW T \in SUBSET Held, Pressed(T)
        PROVE  \E U \in SUBSET Held : Decodes(Codes(k, BreakBit), 0, T, 0, U) /\ Pressed(U)'
    <3> DEFINE U == T \ Modifier(k[1], k[2])
    <3>1. U \in SUBSET Held
      OBVIOUS
    <3>2. Decodes(Codes(k, BreakBit), 0, T, 0, U)
      BY CodesDecoded
    <3>3. Pressed(U)'
      <4> SUFFICES ASSUME NEW m \in U
                   PROVE  \E x \in held' : Modifier(x[1], x[2]) = {m}
        BY DEF Pressed
      <4>1. PICK x \in held : Modifier(x[1], x[2]) = {m}
        BY <2>2 DEF Pressed
      <4>2. x # k
        BY <4>1
      <4> QED BY <2>1, <4>1, <4>2
    <3> HIDE DEF U
    <3> QED BY <3>1, <3>2, <3>3
  <2> QED BY <1>1, <2>1, <2>2, CodesDecoded, AppendHeld
<1>4. CASE HitPause
  <2>1. /\ line' = line \o PauseCodes
        /\ UNCHANGED <<held, out, mouse, clean, pc, prefix, modi>>
    BY <1>4 DEF HitPause, Emit
  <2>2. ASSUME NEW T \in SUBSET Held, Pressed(T)
        PROVE  \E U \in SUBSET Held : Decodes(PauseCodes, 0, T, 0, U) /\ Pressed(U)'
    <3>1. PICK U \in SUBSET T : Decodes(PauseCodes, 0, T, 0, U)
      BY PauseDecoded
    <3>2. Pressed(U)' /\ U \in SUBSET Held
      BY <2>1, <2>2 DEF Pressed
    <3> QED BY <3>1, <3>2
  <2> QED BY <1>1, <2>1, <2>2, PauseDecoded, AppendHeld
<1>5. CASE Take
  <2>1. /\ line' = line \o <<Ack>>
        /\ UNCHANGED <<held, out, mouse, clean, pc, prefix, modi>>
    <3>1. line' = Append(line, Ack) /\ line \in Seq(Byte) /\ Ack \in Byte
      BY <1>1, <1>5, BytesTyped DEF Take, TypeOK
    <3> QED BY <1>5, <3>1, AppendIsConcat DEF Take
  <2>2. ASSUME NEW T \in SUBSET Held, Pressed(T)
        PROVE  \E U \in SUBSET Held : Decodes(<<Ack>>, 0, T, 0, U) /\ Pressed(U)'
    <3>1. PICK U \in SUBSET T : Decodes(<<Ack>>, 0, T, 0, U)
      BY AckDecoded
    <3>2. Pressed(U)' /\ U \in SUBSET Held
      BY <2>1, <2>2 DEF Pressed
    <3> QED BY <3>1, <3>2
  <2>3. <<Ack>> \in Seq(Code)
    BY AckDecoded
  <2> QED BY <1>1, <2>1, <2>2, <2>3, AppendHeld
<1>6. CASE Load
  <2>1. /\ out = Empty /\ out' = Head(line) /\ line # <<>> /\ line' = Tail(line)
        /\ UNCHANGED <<held, mouse, clean, pc, prefix, modi>>
    BY <1>6 DEF Load
  <2>2. Head(line) \in Code /\ Tail(line) \in Seq(Code) /\ line \in Seq(Code)
    BY <2>1 DEF HeldInv
  <2>3. out' # Empty /\ out' # MouseByte
    BY <2>1, <2>2, CodeIsByte
  <2>4. Stream' = Stream
    <3>1. Stream' = <<Head(line)>> \o Tail(line) /\ Stream = <<>> \o line
      BY <2>1, <2>3 DEF Stream
    <3>2. <<>> \o line = line
      BY <2>2, ConcatEmptySeq
    <3>3. <<Head(line)>> \o Tail(line) = line
      <4> DEFINE a == <<Head(line)>>
                 b == Tail(line)
      <4>1. a \in Seq(Code) /\ b \in Seq(Code) /\ Len(a) = 1 /\ a[1] = Head(line)
        BY <2>2
      <4>2. /\ Len(b) = Len(line) - 1 /\ Len(line) \in Nat \ {0} /\ Head(line) = line[1]
            /\ \A i \in 1..(Len(line) - 1) : b[i] = line[i + 1]
        BY <2>1, <2>2, HeadTailProperties, EmptySeq
      <4> HIDE DEF a, b
      <4>3. /\ a \o b \in Seq(Code) /\ Len(a \o b) = Len(a) + Len(b)
            /\ \A i \in 1..(Len(a) + Len(b)) :
                 (a \o b)[i] = IF i <= Len(a) THEN a[i] ELSE b[i - Len(a)]
        BY <4>1, ConcatProperties
      <4>4. Len(a \o b) = Len(line)
        BY <4>1, <4>2, <4>3
      <4>5. ASSUME NEW i \in 1..Len(line) PROVE (a \o b)[i] = line[i]
        <5>1. CASE i = 1
          BY <4>1, <4>2, <4>3, <5>1
        <5>2. CASE i # 1
          <6>1. i - 1 \in 1..(Len(line) - 1) /\ (i - 1) + 1 = i /\ ~(i <= 1)
            BY <4>2, <5>2
          <6> QED BY <4>1, <4>2, <4>3, <6>1
        <5> QED BY <5>1, <5>2
      <4>6. a \o b = line
        BY <2>2, <4>3, <4>4, <4>5, SeqEqual
      <4> QED BY <4>6 DEF a, b
    <3> QED BY <3>1, <3>2, <3>3
  <2>5. \A T : Pressed(T) <=> Pressed(T)'
    BY <2>1 DEF Pressed
  <2> QED BY <2>1, <2>2, <2>3, <2>4, <2>5 DEF HeldInv, Clean
<1>7. CASE MouseMoves
  BY <1>7 DEF MouseMoves, HeldInv, Clean
<1> QED BY <1>2, <1>3, <1>4, <1>5, <1>6, <1>7 DEF Device

LEMMA HeldDriver == Inv /\ HeldInv /\ Driver => HeldInv'
<1> SUFFICES ASSUME Inv, HeldInv, Driver PROVE HeldInv'
  OBVIOUS
<1> USE DEF device, ports, interrupts, driver, decoder
<1>1. TypeOK
  BY DEF Inv
<1>2. CASE Drain
  <2>1. pc \in Starting /\ ~clean /\ UNCHANGED <<line, mouse, clean, prefix, modi>> /\ out' = Empty
    BY <1>2 DEF Drain, Inv, Masked, Unmasked, Starting
  <2>2. ~Clean' /\ out' # MouseByte
    BY <2>1 DEF Clean, Empty, MouseByte
  <2> QED BY <2>1, <2>2 DEF HeldInv
<1>3. CASE SendByte \/ Sent \/ Interrupt \/ BeginEpilogue
  BY <1>3, HeldKept DEF SendByte, Sent, Interrupt, BeginEpilogue, Starting
<1>4. CASE Allow
  <2>1. /\ UNCHANGED <<held, out, line, mouse, prefix, modi>>
        /\ pc \in Starting /\ pc' \notin Starting
        /\ clean' => out = Empty /\ line = <<>>
    BY <1>4 DEF Allow, Starting
  <2>2. ASSUME Clean'
        PROVE  Decodes(Stream', prefix', modi' \intersect Held, 0, {}) /\ Pressed({})'
    <3>1. Stream' = <<>>
      <4>1. <<>> \o <<>> = <<>>
        BY ConcatEmptySeq, EmptySeq
      <4> QED BY <2>1, <2>2, <4>1 DEF Stream, Clean
    <3>2. prefix' = 0 /\ modi' \intersect Held = {}
      BY <2>1 DEF HeldInv
    <3> QED BY <3>1, <3>2, DecodesNothing DEF Pressed
  <2> QED BY <2>1, <2>2 DEF HeldInv
<1>5. CASE KeyHit
  <2>1. /\ pc = "epilogue" /\ out' = Empty /\ pc' \notin Starting
        /\ UNCHANGED <<held, line, mouse, clean>>
    BY <1>5 DEF KeyHit, Starting
  <2>2. out' # MouseByte
    BY <2>1 DEF Empty, MouseByte
  <2>3. ASSUME Clean'
        PROVE  \E T \in SUBSET Held :
                 Decodes(Stream', prefix', modi' \intersect Held, 0, T) /\ Pressed(T)'
    <3>1. Clean /\ ~mouse
      BY <2>1, <2>3 DEF Clean
    <3>2. out # Empty
      BY <1>1, <2>1, <3>1 DEF Inv, OneEpiloguePerByte, Count, TypeOK
    <3>3. out \notin {Empty, MouseByte} /\ out \in Byte
      BY <1>1, <3>1, <3>2 DEF HeldInv, TypeOK
    <3>4. prefix' = Decode(out).prefix /\ modi' = Decode(out).modi
      BY <1>5, <3>3 DEF KeyHit
    <3>5. /\ prefix' = NextPrefix(out)
          /\ modi' \intersect Held = StepHeld(prefix, modi \intersect Held, out)
      BY <1>1, <3>3, <3>4, DecodeHeld
    <3>6. PICK T \in SUBSET Held :
            Decodes(Stream, prefix, modi \intersect Held, 0, T) /\ Pressed(T)
      BY <3>1 DEF HeldInv
    <3>7. line \in Seq(Byte) /\ Stream = <<out>> \o line
      BY <1>1, <3>2 DEF Stream, TypeOK
    <3>8. Decodes(line, NextPrefix(out), StepHeld(prefix, modi \intersect Held, out), 0, T)
      BY <3>3, <3>6, <3>7, DecodesRest
    <3>9. Stream' = line
      <4>1. <<>> \o line = line
        BY <3>7, ConcatEmptySeq
      <4> QED BY <2>1, <4>1 DEF Stream
    <3>10. Pressed(T)'
      BY <2>1, <3>6 DEF Pressed
    <3> QED BY <3>5, <3>8, <3>9, <3>10
  <2> QED BY <2>1, <2>2, <2>3 DEF HeldInv
<1> QED BY <1>2, <1>3, <1>4, <1>5 DEF Driver

\* Whatever keys are pressed at the same time, with whatever answers of the keyboard
\* among their codes: when every byte has been decoded, no modifier is stuck
\* (keydecoder.cc 117-181).
THEOREM ModifiersRelease == Spec => []NoModifierStuck
<1>1. Init => HeldInv
  BY DEF Init, HeldInv, Clean, Empty, MouseByte
<1>2. Inv /\ HeldInv /\ [Next]_vars => HeldInv'
  <2>1. HeldInv /\ UNCHANGED vars => HeldInv'
    BY HeldKept DEF vars, device, ports, interrupts, driver, decoder
  <2> QED BY <2>1, HeldDevice, HeldDriver DEF Next
<1>3. HeldInv => NoModifierStuck
  <2> SUFFICES ASSUME HeldInv, Clean, out = Empty, line = <<>>,
                      NEW m \in modi \intersect Held
               PROVE  \E k \in held : Modifier(k[1], k[2]) = {m}
    BY DEF NoModifierStuck
  <2>1. Stream = <<>>
    <3>1. <<>> \o <<>> = <<>>
      BY ConcatEmptySeq, EmptySeq
    <3> QED BY <3>1 DEF Stream
  <2>2. PICK T \in SUBSET Held :
          Decodes(<<>>, prefix, modi \intersect Held, 0, T) /\ Pressed(T)
    BY <2>1 DEF HeldInv
  <2>3. T = modi \intersect Held
    BY <2>2, DecodesNothing
  <2> QED BY <2>2, <2>3 DEF Pressed
<1> QED BY <1>1, <1>2, <1>3, InitInv, InvStep, PTL DEF Spec
=============================================================================

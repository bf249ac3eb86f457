------------------------------- MODULE Routing -------------------------------
(***************************************************************************)
(* The way of a keyboard interrupt, from the start of the system on: the   *)
(* wire to a slot of the IO-APIC, the vector in its redirection table, the *)
(* gate that the plugbox has for the vector.  kernel_init() runs the       *)
(* constructors, then detectSystemType() (Detect), then main(), which      *)
(* programs the IO-APIC and the plugbox with interrupts disabled.  Keys    *)
(* may be pressed at any moment; the input is triggered by edges.          *)
(***************************************************************************)
EXTENDS Detect

VARIABLES step,       \* the next step of kernel_init() and main()
          kbd_slot,   \* the local variable of main()
          ioapicid,   \* the ID register of the IO-APIC
          redirect,   \* redirect[s]: the redirection table
          gateobjs,   \* gateobjs[v]: the gate that the plugbox has for a vector
          full,       \* is there a byte in the output buffer of the keyboard controller?
          early,      \* did it come before the slot was unmasked?
          pending     \* vectors that the IO-APIC has sent and no CPU has accepted

mainVars == <<step, kbd_slot>>
deviceVars == <<ioapicid, redirect, gateobjs>>
keyVars == <<full, early, pending>>
routingVars == <<detectVars, mainVars, deviceVars, keyVars>>

Keyboard == 1                          \* APICSystem::Device::keyboard
Vector == [timer |-> 32, keyboard |-> 33, none |-> 34, assassin |-> 100]
Vectors == {Vector.timer, Vector.keyboard, Vector.none, Vector.assassin}

ASSUME KeyboardAssumption == \A m \in Machine : Keyboard \in DOMAIN m.wiring

RInit == /\ DInit
         /\ step = "construct" /\ kbd_slot = 0
         /\ ioapicid = 0
         /\ redirect = [s \in Slot |-> [vector |-> 0, masked |-> TRUE, dest |-> 0]]
         /\ gateobjs = [v \in Vectors |-> "none"]
         /\ full \in BOOLEAN /\ early = full
         /\ pending = {}

Goto(from, to) == step = from /\ step' = to

-----------------------------------------------------------------------------
\* The constructors: the plugbox gets Panic for all vectors, and the driver of the
\* keyboard reads what is in the buffer.
Construct == /\ Goto("construct", "detect")
             /\ gateobjs' = [v \in Vectors |-> "panic"]
             /\ full' = FALSE /\ early' = FALSE
             /\ UNCHANGED <<detectVars, kbd_slot, ioapicid, redirect, pending>>

Detecting == /\ step = "detect"
             /\ detectSystemType
             /\ UNCHANGED <<mainVars, deviceVars, keyVars>>

\* Plugbox::assign()
assign(v, gate) == gateobjs' = [gateobjs EXCEPT ![v] = gate]

\* Plugbox::report()
report(v) == gateobjs[v]

\* IOAPIC::init(): all slots are masked, with a vector that has no handler, for
\* all CPUs.  Then main() asks for the slot of the keyboard.
IoapicInit == /\ pc = "detected" /\ Goto("detect", "config")
              /\ ioapicid' = conf[sys_conf].ioapic_id % 256
              /\ redirect' = [s \in Slot |-> [vector |-> Vector.none, masked |-> TRUE,
                                              dest |-> (2 ^ getNumberOfCPUs - 1) % 256]]
              /\ kbd_slot' = getIOAPICSlot(Keyboard)
              /\ UNCHANGED <<detectVars, gateobjs, keyVars>>

\* Mutant: the number of the line is taken for the slot.
MutantWriteSlot(s, field, value) == redirect' = [redirect EXCEPT ![Keyboard][field] = value]

\* A register of the IO-APIC beyond the table is not there.
WriteSlot(s, field, value) ==
  redirect' = IF s \in Slot THEN [redirect EXCEPT ![s][field] = value] ELSE redirect

\* IOAPIC::config(kbd_slot, Plugbox::keyboard)
Config == /\ Goto("config", "allow")
          /\ WriteSlot(kbd_slot, "vector", Vector.keyboard)
          /\ UNCHANGED <<detectVars, kbd_slot, ioapicid, gateobjs, keyVars>>

\* IOAPIC::allow(kbd_slot)
Allow == /\ Goto("allow", "plugin")
         /\ WriteSlot(kbd_slot, "masked", FALSE)
         /\ UNCHANGED <<detectVars, kbd_slot, ioapicid, gateobjs, keyVars>>

\* keyboard.plugin()
Plugin == /\ Goto("plugin", "hire")
          /\ assign(Vector.keyboard, "keyboard")
          /\ UNCHANGED <<detectVars, kbd_slot, ioapicid, redirect, keyVars>>

\* assassin.hire()
Hire == /\ Goto("hire", "windup")
        /\ assign(Vector.assassin, "assassin")
        /\ UNCHANGED <<detectVars, kbd_slot, ioapicid, redirect, keyVars>>

\* watch.windup() plugs the watch in.  Interrupts are disabled until the first
\* thread runs.
Windup == /\ Goto("windup", "run")
          /\ assign(Vector.timer, "watch")
          /\ UNCHANGED <<detectVars, kbd_slot, ioapicid, redirect, keyVars>>

main == IoapicInit \/ Config \/ Allow \/ Plugin \/ Hire \/ Windup

-----------------------------------------------------------------------------
\* A key is pressed: the byte comes when the buffer is free, with an edge, which a
\* masked slot forgets.
Press == /\ ~full
         /\ full' = TRUE
         /\ LET slot == redirect[machine.wiring[Keyboard]]
            IN  /\ early' = (step \in {"construct", "detect", "config", "allow"})
                /\ pending' = IF slot.masked THEN pending ELSE pending \cup {slot.vector}
         /\ UNCHANGED <<detectVars, mainVars, deviceVars>>

\* guardian(): the gate is called.  The keyboard reads the byte, Panic and the
\* others do nothing to it.
Guardian == /\ step = "run"
            /\ \E v \in pending : /\ pending' = pending \ {v}
                                /\ full' = (full /\ report(v) # "keyboard")
            /\ UNCHANGED <<detectVars, mainVars, deviceVars, early>>

RNext == Construct \/ Detecting \/ main \/ Press \/ Guardian

RSpec == RInit /\ [][RNext]_routingVars

(***************************************************************************)
(* The boot CPU goes on, and interrupts are accepted.                      *)
(***************************************************************************)
RFairSpec == RSpec /\ WF_routingVars(Construct \/ Detecting \/ main) /\ WF_routingVars(Guardian)

-----------------------------------------------------------------------------
\* The loops know all entries of the tables: readMPCT() does not go on otherwise.
KnownEntries == \A n \in DOMAIN machine.table.mps :
  machine.table.mps[n].type \in {"PROCESSOR", "IO_APIC", "IOINT", "BUS", "LINT"}

\* The system starts, and a byte of the keyboard is read, whatever the tables look
\* like, if they name its slot (main.cc 62-72, guardian.cc 16-45).  A byte that
\* came before the slot was unmasked is not read: its edge is lost, the buffer
\* stays full, and the keyboard raises no other edge.
KeysAreRead ==
  KnownEntries => /\ <>(step = "run")
                  /\ (full /\ ~early /\ SlotKnown(Keyboard)) ~> ~full
=============================================================================

------------------------------- MODULE Detect -------------------------------
(***************************************************************************)
(* APICSystem::detectSystemType(): the boot CPU searches the memory for the*)
(* tables of the MP specification and of ACPI, reads them entry by entry   *)
(* into two configurations, and picks the one with more processors.  The   *)
(* tables are sequences of records; a checksum is the sum of the bytes.    *)
(***************************************************************************)
EXTENDS Integers, Sequences, FiniteSets, SequencesExt

CONSTANTS Machine,  \* what the firmware may have left in memory
          CPU_MAX,  \* the entries of lapic_id
          Lines,    \* ISA interrupt lines, 16
          Slots     \* inputs of the IO-APIC, 24

\* The number of a slot is a byte.
ASSUME CountAssumption == CPU_MAX \in Nat \ {0} /\ Slots \in 3 .. 256 /\ Lines \in 3 .. Slots

VARIABLES machine,    \* the machine that the system runs on
          pc,         \* the step of detectSystemType()
          area,       \* the memory area that is searched
          rest,       \* the entries of the table that have not been read
          found_bsp,  \* has queryACPI() met a processor?
          conf,       \* mps_conf and acpi_conf
          sys_conf,   \* the one that is used
          system_type,
          PICs        \* are the PICs connected to the processor?

detectVars == <<machine, pc, area, rest, found_bsp, conf, sys_conf, system_type, PICs>>

Slot == 0 .. Slots - 1
Line == 0 .. Lines - 1
Areas == 5   \* EBDA, end of the base memory, 511K, 639K, ROM

Byte == 0 .. 255

\* The structures of the MP specification.  Of a checksum, the sum of the bytes is
\* given; a pointer is a sequence of length zero or one.  LINT entries have the
\* layout of IOINT entries; the code has no case for other types.
mpct_processor == [type : {"PROCESSOR"}, id : Byte, enabled : BOOLEAN, boot : BOOLEAN]
mpct_bus == [type : {"BUS"}]
mpct_ioapic == [type : {"IO_APIC"}, id : Byte]
mpct_int == [type : {"IOINT", "LINT"}, srcbus : Byte, srcbusirq : Byte, dstirq : Byte]
mpct_entry == mpct_processor \cup mpct_bus \cup mpct_ioapic \cup mpct_int \cup [type : {"OTHER"}]
mpct == Seq(mpct_entry)
mpcth == [signature : STRING, sum : Nat, entries : mpct]
mpfps == [length : Byte, sum : Nat, spec_rev : Byte, feature1 : Byte, feature2 : Byte,
          physptr : Seq(mpcth)]

\* The structures of ACPI.  An override names an ISA line and an input of the
\* IO-APIC; queryACPI() does not look whether there is one.
Local_APIC_Structure == [type : {"LOCAL_APIC"}, id : Byte, enabled : BOOLEAN]
IO_APIC_Structure == [type : {"IO_APIC"}, id : Byte]
Int_Source_Override_Structure == [type : {"SOURCE_OVERRIDE"}, bus : Byte, source : Line, gsi : Slot]
APIC_Structure == Local_APIC_Structure \cup IO_APIC_Structure
                    \cup Int_Source_Override_Structure \cup [type : {"EMPTY", "OTHER"}]
MADT == [type : {"MADT"}, PCAT_COMPAT : BOOLEAN, entries : Seq(APIC_Structure)]
RSDT == Seq(MADT \cup [type : STRING \ {"MADT"}])
RSDP == [revision : Byte, length : Nat, sum20 : Nat, sum : Nat, rsdt : RSDT]

\* The memory, and what is behind it: the wires of the devices, the tables that
\* describe the machine, and the processor that starts.
ASSUME MachineAssumption ==
  Machine \subseteq [mpfps : [1 .. Areas -> Seq(mpfps)], ebda : Seq(RSDP), bios : Seq(RSDP),
                     wiring : UNION {[D -> Slot] : D \in SUBSET Line},
                     table : [mps : mpct, acpi : Seq(APIC_Structure)], bsp : Byte]

SystemConfig == [cpu_count |-> 0, bsp_id |-> 0, ioapic_id |-> -1, disablePICs |-> FALSE,
                 ioapic_irqs |-> [i \in Slot |-> -1], slot_map |-> [d \in Line |-> -1],
                 lapic_id |-> [k \in 0 .. CPU_MAX - 1 |-> 0]]

DInit == /\ machine \in Machine
         /\ pc = "search" /\ area = 1 /\ rest = << >> /\ found_bsp = FALSE
         /\ conf = [mps |-> SystemConfig, acpi |-> SystemConfig]
         /\ sys_conf = "none"
         /\ system_type = "UNDETECTED"
         /\ PICs = TRUE

-----------------------------------------------------------------------------
\* The tables of the MP specification.

mpbChecksumOK(sum) == sum % 256 = 0

\* searchConfig() passes over a structure with another length, sum or version.
ValidMPFPS(s) == s.length = 1 /\ mpbChecksumOK(s.sum) /\ s.spec_rev \in {1, 4}

\* readMPCT() returns from a table with another signature or sum.
ValidMPCT(t) == t.signature = "PCMP" /\ mpbChecksumOK(t.sum)

LegacySlots == [d \in Line |-> CASE d = 0 -> 2 [] d = 2 -> -1 [] OTHER -> d]

\* The area has been searched in vain: the next one, then ACPI.
NextArea == /\ area' = area + 1
            /\ pc' = IF area = Areas THEN "acpi" ELSE "search"

\* searchConfig() takes the first valid structure of an area.
FoundMPFPS(m, a) == m.mpfps[a][SelectInSeq(m.mpfps[a], ValidMPFPS)]
HasMPFPS(m, a) == SelectInSeq(m.mpfps[a], ValidMPFPS) # 0

\* A table that physptr points to is read unless feature1 announces a standard
\* configuration.
Readable(s) == s.feature1 = 0 /\ s.physptr # << >> /\ ValidMPCT(Head(s.physptr))

searchConfig ==
  /\ pc = "search"
  /\ LET s == FoundMPFPS(machine, area)
     IN  IF ~HasMPFPS(machine, area)
         THEN NextArea /\ UNCHANGED <<rest, conf>>
         ELSE /\ conf' = [conf EXCEPT
                   !.mps.disablePICs = @ \/ s.feature2 >= 128,
                   !.mps.slot_map = IF Readable(s) THEN LegacySlots ELSE @]
              /\ rest' = IF Readable(s) THEN Head(s.physptr).entries ELSE << >>
              /\ pc' = "mpct"
              /\ UNCHANGED area
  /\ UNCHANGED <<machine, found_bsp, sys_conf, system_type, PICs>>

\* The next entry of a table: readMPCT(), or the loop of queryACPI().  A loop has
\* a case for the types it knows.
Entry(table, type) == pc = table /\ rest # << >> /\ Head(rest).type \in type

NextEntry(new) == /\ rest' = Tail(rest)
                  /\ conf' = new
                  /\ UNCHANGED <<machine, pc, area, sys_conf, system_type, PICs>>

\* MPCT_PROCESSOR: every enabled processor is counted, CPU_MAX of them are stored.
Processor ==
  /\ Entry("mpct", {"PROCESSOR"})
  /\ LET m == Head(rest)
         n == conf.mps.cpu_count
     IN  NextEntry(IF ~m.enabled THEN conf
                   ELSE [conf EXCEPT
                     !.mps.cpu_count = n + 1,
                     !.mps.bsp_id = IF m.boot THEN m.id ELSE @,
                     !.mps.lapic_id = IF n < CPU_MAX THEN [@ EXCEPT ![n] = m.id] ELSE @])
  /\ UNCHANGED found_bsp

\* MPCT_IOAPIC and APIC_Structure::IO_APIC: the last one remains.
IOApic(table, c) == /\ Entry(table, {"IO_APIC"})
                    /\ NextEntry([conf EXCEPT ![c].ioapic_id = Head(rest).id])
                    /\ UNCHANGED found_bsp

\* An entry for a line of the ISA bus
IsISA(m) == m.type = "IOINT" /\ m.srcbus = 0 /\ m.srcbusirq \in Line /\ m.dstirq \in Slot

\* MPCT_IOINT: an ISA line and the slot that it is wired to.
IOInterrupt ==
  /\ Entry("mpct", {"IOINT"})
  /\ LET m == Head(rest)
     IN  NextEntry(IF IsISA(m)
                   THEN [conf EXCEPT !.mps.ioapic_irqs[m.dstirq] = m.srcbusirq,
                                     !.mps.slot_map[m.srcbusirq] = m.dstirq]
                   ELSE conf)
  /\ UNCHANGED found_bsp

\* MPCT_BUS and MPCT_LINT
OtherEntry == Entry("mpct", {"BUS", "LINT"}) /\ NextEntry(conf) /\ UNCHANGED found_bsp

\* Mutant: the configuration that was found first is not used.
MutantMPCTRead == /\ pc = "mpct" /\ rest = << >>
                  /\ NextArea
                  /\ UNCHANGED <<machine, rest, found_bsp, conf, sys_conf, system_type, PICs>>

\* searchConfig() returns whether there are several processors; if not, the other
\* areas are searched as well, into the same configuration.
MPCTRead == /\ pc = "mpct" /\ rest = << >>
            /\ IF conf.mps.cpu_count > 1 THEN pc' = "acpi" /\ UNCHANGED area ELSE NextArea
            /\ UNCHANGED <<machine, rest, found_bsp, conf, sys_conf, system_type, PICs>>

-----------------------------------------------------------------------------
\* The tables of ACPI.

sums_to_zero(sum, len) == len # 0 /\ sum % 256 = 0

\* RSDP::check_sum(): the first 20 bytes for ACPI 1.0, else all of them.
check_sum(r) == IF r.revision = 0 THEN sums_to_zero(r.sum20, 20) ELSE sums_to_zero(r.sum, r.length)

IsMADT(t) == t.type = "MADT"

\* RSDP::find(): the first root pointer in the EBDA and the BIOS with a right sum.
Roots(m) == m.ebda \o m.bios
find(m) == SelectInSeq(Roots(m), check_sum)

\* The loop over the RSDT: the last MADT counts.
HasMADT(m) == find(m) # 0 /\ SelectLastInSeq(Roots(m)[find(m)].rsdt, IsMADT) # 0
FoundMADT(m) == LET rsdt == Roots(m)[find(m)].rsdt IN rsdt[SelectLastInSeq(rsdt, IsMADT)]

FindMADT ==
  /\ pc = "acpi"
  /\ LET madt == FoundMADT(machine)
     IN  IF ~HasMADT(machine)
         THEN pc' = "map" /\ UNCHANGED <<rest, conf>>
         ELSE /\ pc' = "madt"
              /\ rest' = madt.entries
              /\ conf' = [conf EXCEPT !.acpi.disablePICs = @ \/ madt.PCAT_COMPAT]
  /\ UNCHANGED <<machine, area, found_bsp, sys_conf, system_type, PICs>>

\* LOCAL_APIC: the first enabled processor is the boot processor.
LocalApic ==
  /\ Entry("madt", {"LOCAL_APIC"})
  /\ LET n == conf.acpi.cpu_count
         id == Head(rest).id
     IN  IF Head(rest).enabled /\ n # CPU_MAX
         THEN /\ NextEntry([conf EXCEPT !.acpi.cpu_count = n + 1,
                                        !.acpi.lapic_id[n] = id,
                                        !.acpi.bsp_id = IF found_bsp THEN @ ELSE id])
              /\ found_bsp' = TRUE
         ELSE NextEntry(conf) /\ UNCHANGED found_bsp

\* SOURCE_OVERRIDE of the ISA bus
IsOverride(s) == s.type = "SOURCE_OVERRIDE" /\ s.bus = 0

SourceOverride ==
  /\ Entry("madt", {"SOURCE_OVERRIDE"})
  /\ NextEntry(IF IsOverride(Head(rest))
               THEN [conf EXCEPT !.acpi.ioapic_irqs[Head(rest).gsi] = Head(rest).source]
               ELSE conf)
  /\ UNCHANGED found_bsp

\* Structures of other types are passed over.
OtherStructure == /\ pc = "madt" /\ rest # << >>
                  /\ Head(rest).type \notin {"LOCAL_APIC", "IO_APIC", "SOURCE_OVERRIDE", "EMPTY"}
                  /\ NextEntry(conf)
                  /\ UNCHANGED found_bsp

\* The end of the table, or a structure of length zero.
MADTRead == /\ pc = "madt"
            /\ ~(rest # << >> /\ Head(rest).type # "EMPTY")
            /\ pc' = "map" /\ rest' = << >>
            /\ UNCHANGED <<machine, area, found_bsp, conf, sys_conf, system_type, PICs>>

\* Mutant: the first slot of a line instead of the last one.
MutantLastSlot(irqs, d) == Min({i \in Slot : irqs[i] = d})

\* The assignment that remains from a loop over the slots.
LastSlot(irqs, d) == Max({i \in Slot : irqs[i] = d})

generateIRQMap ==
  /\ pc = "map"
  /\ LET old == conf.acpi.ioapic_irqs
         irqs == [i \in Slot |-> IF i \in Line /\ old[i] = -1 THEN i ELSE old[i]]
     IN  conf' = [conf EXCEPT
           !.acpi.ioapic_irqs = irqs,
           !.acpi.slot_map = [d \in Line |-> IF \E i \in Slot : irqs[i] = d
                                             THEN LastSlot(irqs, d) ELSE @[d]]]
  /\ pc' = "choose"
  /\ UNCHANGED <<machine, area, rest, found_bsp, sys_conf, system_type, PICs>>

-----------------------------------------------------------------------------
\* The configuration with more processors is used.  (A system that is not MP_APIC
\* is UP_APIC, even without an IO-APIC: line 80 overwrites UNDETECTED.)
Choose ==
  /\ pc = "choose"
  /\ sys_conf' = IF conf.acpi.cpu_count >= conf.mps.cpu_count THEN "acpi" ELSE "mps"
  /\ PICs' = (PICs /\ ~conf[sys_conf'].disablePICs)
  /\ system_type' = IF conf[sys_conf'].cpu_count > 1 THEN "MP_APIC" ELSE "UP_APIC"
  /\ conf' = IF system_type' = "MP_APIC" THEN conf
             ELSE [conf EXCEPT ![sys_conf'].cpu_count = 1]
  /\ pc' = "detected"
  /\ UNCHANGED <<machine, area, rest, found_bsp>>

detectSystemType ==
  \/ searchConfig \/ Processor \/ IOApic("mpct", "mps") \/ IOInterrupt \/ OtherEntry \/ MPCTRead
  \/ FindMADT \/ LocalApic \/ IOApic("madt", "acpi") \/ SourceOverride \/ OtherStructure
  \/ MADTRead \/ generateIRQMap \/ Choose

getNumberOfCPUs == conf[sys_conf].cpu_count

\* A char, returned as an unsigned char
getIOAPICSlot(device) == conf[sys_conf].slot_map[device] % 256

-----------------------------------------------------------------------------
\* The processors that a table describes, in its order: the one of entry n has the
\* number Processors(entries, n), counted from one.
Enabled(e) == e.type \in {"PROCESSOR", "LOCAL_APIC"} /\ e.enabled
Processors(entries, n) == Cardinality({k \in 1 .. n : Enabled(entries[k])})
Described(entries) == Processors(entries, Len(entries))

\* The sums, versions, copies and the search order do not matter when the firmware
\* has one sound table of each kind at most, perhaps next to broken ones.
SoundTables(m) ==
  /\ \A a \in 1 .. Areas : \A n \in DOMAIN m.mpfps[a] :
       LET s == m.mpfps[a][n]
       IN  ValidMPFPS(s) /\ Readable(s) => Head(s.physptr).entries = m.table.mps
  /\ m.table.mps # << >> => \E a \in 1 .. Areas : HasMPFPS(m, a) /\ Readable(FoundMPFPS(m, a))
  /\ \A n \in DOMAIN Roots(m) : check_sum(Roots(m)[n]) =>
       \A k \in DOMAIN Roots(m)[n].rsdt :
         LET t == Roots(m)[n].rsdt[k] IN IsMADT(t) => t.entries = m.table.acpi
  /\ m.table.acpi # << >> => HasMADT(m)

\* Nothing of interest follows a structure of length zero.
NothingBehind(m) ==
  \A k, n \in DOMAIN m.table.acpi : k < n /\ m.table.acpi[k].type = "EMPTY" =>
    ~Enabled(m.table.acpi[n]) /\ ~IsOverride(m.table.acpi[n])

\* The boot processor has a flag in the MP table and is the first one for ACPI.
BootProcessor(m) ==
  LET mps == m.table.mps
      acpi == m.table.acpi
  IN  /\ \A n \in DOMAIN mps : Enabled(mps[n]) /\ mps[n].boot => mps[n].id = m.bsp
      /\ Described(mps) > 0 => \E n \in DOMAIN mps : Enabled(mps[n]) /\ mps[n].boot
      /\ \A n \in DOMAIN acpi : Enabled(acpi[n]) /\ Processors(acpi, n) = 1 => acpi[n].id = m.bsp

\* An MP table names the slots of all devices, one of ACPI those that are not the
\* legacy ones, and both name no other line for such a slot.
Wires(m) ==
  \A d \in DOMAIN m.wiring :
    LET mps == m.table.mps
        acpi == m.table.acpi
    IN  /\ \A n \in DOMAIN mps : IsISA(mps[n]) /\ mps[n].srcbusirq = d
                                 => mps[n].dstirq = m.wiring[d]
        /\ mps # << >> => \E n \in DOMAIN mps : IsISA(mps[n]) /\ mps[n].srcbusirq = d
        /\ \A n \in DOMAIN acpi : IsOverride(acpi[n]) =>
             (acpi[n].source = d <=> acpi[n].gsi = m.wiring[d])
        /\ acpi # << >> /\ m.wiring[d] # d =>
             \E n \in DOMAIN acpi : IsOverride(acpi[n]) /\ acpi[n].source = d

\* The tables tell the truth.
ASSUME FirmwareAssumption ==
  \A m \in Machine : SoundTables(m) /\ NothingBehind(m) /\ BootProcessor(m) /\ Wires(m)

\* Is there a readable MP table in the area a?
TableIn(a) == HasMPFPS(machine, a) /\ Readable(FoundMPFPS(machine, a))

\* The search goes on behind a table of one processor; where the areas overlap, the
\* table is met again.
MetAgain == /\ Described(machine.table.mps) = 1
            /\ \E a, b \in 1 .. Areas : a # b /\ TableIn(a) /\ TableIn(b)

\* The processors that a table is worth.
Counted == [mps |-> IF MetAgain THEN 2 ELSE Described(machine.table.mps),
            acpi |-> IF Described(machine.table.acpi) > CPU_MAX
                     THEN CPU_MAX ELSE Described(machine.table.acpi)]

\* The system has the processors of the table that describes more, in the order of
\* that table, and starts as a single processor system exactly if there is one
\* (apicsystem.cc 43-47, 67-90, 353-356).  Two tables are worth another number than
\* they describe: one of ACPI counts CPU_MAX at most (line 198), and one of the MP
\* specification with a single processor counts twice when it is found in two areas
\* (lines 43-47, 356).  Nothing bounds the number of an MP table (line 412): a system
\* that is started with it may have more than CPU_MAX processors, but the IDs of the
\* first CPU_MAX only (line 419).
ProcessorsAsDescribed ==
  pc = "detected" =>
    LET used == IF Counted["acpi"] >= Counted["mps"] THEN "acpi" ELSE "mps"
        table == machine.table[used]
        n == Counted[used]
    IN  /\ getNumberOfCPUs = IF n = 0 THEN 1 ELSE n
        /\ \A k \in DOMAIN table : Enabled(table[k]) /\ Processors(table, k) <= CPU_MAX =>
             conf[sys_conf].lapic_id[Processors(table, k) - 1] = table[k].id
        /\ n > 0 => conf[sys_conf].bsp_id = machine.bsp
        /\ (system_type = "MP_APIC") <=> n > 1

\* The tables name the slot of a device, or it is the legacy one.  A line that ACPI
\* moves to a slot below its number is not found, because the slot with its
\* number, which ACPI does not mention, is taken for its legacy slot.
SlotKnown(d) ==
  IF machine.table[sys_conf] = << >> THEN machine.wiring[d] = d
                                     ELSE sys_conf = "mps" \/ machine.wiring[d] >= d

\* The slot of a device is the one that it is wired to, whichever table was used
\* (apicsystem.h 130-133).
SlotsAsWired ==
  pc = "detected" => \A d \in DOMAIN machine.wiring :
                       SlotKnown(d) => getIOAPICSlot(d) = machine.wiring[d]
=============================================================================

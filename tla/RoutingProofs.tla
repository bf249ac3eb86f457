---------------------------- MODULE RoutingProofs ----------------------------
(***************************************************************************)
(* What the detection makes of the tables of any firmware that tells the   *)
(* truth, and the way of a keyboard interrupt, for any number of lines,    *)
(* slots and processors.                                                   *)
(***************************************************************************)
EXTENDS Routing, FiniteSetTheorems, SequenceTheorems, TLAPS

MPS == machine.table.mps
ACPI == machine.table.acpi

Steps == {"search", "mpct", "acpi", "madt", "map", "choose", "detected"}

Configuration == [cpu_count : Nat, bsp_id : Byte, ioapic_id : Byte \cup {-1}, disablePICs : BOOLEAN,
            ioapic_irqs : [Slot -> Line \cup {-1}], slot_map : [Line -> Slot \cup {-1}],
            lapic_id : [0 .. CPU_MAX - 1 -> Byte]]

\* The table that is read: how far, and that the rest is the rest of it.
Read(entries) == Len(entries) - Len(rest)
IsRest(r, entries) == /\ Len(entries) - Len(r) \in Nat
                      /\ \A k \in DOMAIN r : r[k] = entries[Len(entries) - Len(r) + k]
RestOf(entries) == IsRest(rest, entries)

ReadingMPS == /\ rest \in Seq(mpct_entry)
              /\ HasMPFPS(machine, area)
              /\ IF TableIn(area) THEN RestOf(MPS) ELSE rest = << >>

ReadingACPI == rest \in Seq(APIC_Structure) /\ RestOf(ACPI)

Configurations == [mps : Configuration, acpi : Configuration]

DetectTypes ==
  /\ machine \in Machine
  /\ pc \in Steps
  /\ area \in Nat \ {0}
  /\ pc \in {"search", "mpct"} => area <= Areas
  /\ found_bsp \in BOOLEAN
  /\ conf \in Configurations
  /\ sys_conf \in {"none", "mps", "acpi"}
  /\ pc = "detected" <=> sys_conf # "none"
  /\ pc = "mpct" => ReadingMPS
  /\ pc = "madt" => ReadingACPI

-----------------------------------------------------------------------------
(* The MP configuration when the first n entries have been read            *)

\* The processors are stored by their numbers.
Stored(c, entries, n) ==
  /\ \A k \in 1 .. n : Enabled(entries[k]) /\ Processors(entries, k) <= CPU_MAX
                       => c.lapic_id[Processors(entries, k) - 1] = entries[k].id

MPSKnown(n) ==
  /\ Stored(conf.mps, MPS, n)
  /\ (\E k \in 1 .. n : Enabled(MPS[k]) /\ MPS[k].boot) => conf.mps.bsp_id = machine.bsp

MPSProcessors(n) == conf.mps.cpu_count = Processors(MPS, n) /\ MPSKnown(n)

\* The same, when the table of one processor has been read to its end before.
MPSAgain(n) == /\ Described(MPS) = 1
               /\ conf.mps.cpu_count = Processors(MPS, n) + 1
               /\ MPSKnown(Len(MPS))

MPSSlots(n) ==
  \A d \in DOMAIN machine.wiring : \A k \in 1 .. n :
    IsISA(MPS[k]) /\ MPS[k].srcbusirq = d => conf.mps.slot_map[d] = machine.wiring[d]

\* Every processor has been counted before the slots are used.
SlotsRead ==
  /\ pc = "mpct" /\ TableIn(area) => MPSSlots(Read(MPS))
  /\ ~(pc = "mpct" /\ TableIn(area)) /\ conf.mps.cpu_count > 0 => MPSSlots(Len(MPS))
  /\ conf.mps.cpu_count > 0 => MPS # << >>

\* Areas below a have a table, or only one of them has.
Met(a) == \E b \in 1 .. Areas : b < a /\ TableIn(b)
MetOnce(a) == \E b \in 1 .. Areas : /\ b < a /\ TableIn(b)
                                    /\ \A c \in 1 .. Areas : c < a /\ TableIn(c) => c = b

\* Areas from a on are searched: the table has not been met, or it has been read
\* once, because it has one processor, or as often as it was met, because it has none.
Before(a) ==
  \/ conf.mps.cpu_count = 0 /\ ~Met(a)
  \/ MPSProcessors(Len(MPS)) /\ Described(MPS) = 0
  \/ MPSProcessors(Len(MPS)) /\ Described(MPS) = 1 /\ MetOnce(a)

\* The table of the area is read for the first time, for the second time, or it is
\* one without processors.
Reading ==
  \/ MPSProcessors(Read(MPS)) /\ (Described(MPS) = 0 \/ ~Met(area))
  \/ MPSAgain(Read(MPS)) /\ Met(area)

MPSCounted == conf.mps.cpu_count = Counted["mps"] /\ MPSKnown(Len(MPS))

ProcessorsRead ==
  /\ pc = "search" => Before(area)
  /\ pc = "mpct" => IF TableIn(area) THEN Reading ELSE Before(area + 1)
  /\ pc \in {"acpi", "madt", "map", "choose"} => MPSCounted

-----------------------------------------------------------------------------
(* The configuration of ACPI when the first n entries have been read       *)

ACPIProcessors(n) ==
  /\ conf.acpi.cpu_count = IF Processors(ACPI, n) > CPU_MAX THEN CPU_MAX ELSE Processors(ACPI, n)
  /\ Stored(conf.acpi, ACPI, n)
  /\ conf.acpi.cpu_count > 0 => conf.acpi.bsp_id = machine.bsp

\* Lines are at the slots that they are wired to; those that are named are.
ACPILines(n) ==
  LET irqs == conf.acpi.ioapic_irqs
  IN  \A d \in DOMAIN machine.wiring :
        /\ \A i \in Slot : irqs[i] = d => i = machine.wiring[d]
        /\ irqs[machine.wiring[d]] \in {-1, d}
        /\ (\E k \in 1 .. n : IsOverride(ACPI[k]) /\ ACPI[k].source = d)
             => irqs[machine.wiring[d]] = d

ACPIRead(n) == ACPIProcessors(n) /\ ACPILines(n) /\ (found_bsp <=> conf.acpi.cpu_count > 0)

ACPIState ==
  /\ pc \in {"search", "mpct", "acpi"} => ACPIRead(0)
  /\ pc = "madt" => ACPIRead(Read(ACPI))
  /\ pc = "map" => ACPIRead(Len(ACPI))
  /\ pc = "choose" => ACPIProcessors(Len(ACPI))
  /\ pc \in {"choose", "detected"} =>
       \A d \in DOMAIN machine.wiring :
         (IF ACPI = << >> THEN machine.wiring[d] = d ELSE machine.wiring[d] >= d)
           => conf.acpi.slot_map[d] = machine.wiring[d]

SlotInv == DetectTypes /\ SlotsRead /\ ACPIState /\ SlotsAsWired
DetectInv == SlotInv /\ ProcessorsRead /\ ProcessorsAsDescribed

-----------------------------------------------------------------------------
(* Facts about the tables                                                  *)

LEMMA Wiring ==
  ASSUME NEW m \in Machine
  PROVE  /\ DOMAIN m.wiring \subseteq Line
         /\ \A d \in DOMAIN m.wiring : m.wiring[d] \in Slot
<1>1. m.wiring \in UNION {[D -> Slot] : D \in SUBSET Line}
  BY MachineAssumption
<1>2. PICK D \in SUBSET Line : m.wiring \in [D -> Slot]
  BY <1>1
<1> QED BY <1>2

LEMMA Tables ==
  ASSUME NEW m \in Machine
  PROVE  /\ m.mpfps \in [1 .. Areas -> Seq(mpfps)]
         /\ m.table.mps \in Seq(mpct_entry)
         /\ m.table.acpi \in Seq(APIC_Structure)
         /\ Roots(m) \in Seq(RSDP)
         /\ m.bsp \in Byte
<1>1. /\ m.mpfps \in [1 .. Areas -> Seq(mpfps)]
      /\ m.ebda \in Seq(RSDP) /\ m.bios \in Seq(RSDP)
      /\ m.table \in [mps : mpct, acpi : Seq(APIC_Structure)]
      /\ m.bsp \in Byte
  BY MachineAssumption
<1>2. Roots(m) \in Seq(RSDP)
  BY <1>1, ConcatProperties DEF Roots
<1> QED BY <1>1, <1>2 DEF mpct

LEMMA MPEntryTypes ==
  ASSUME NEW e \in mpct_entry
  PROVE  /\ e.type = "PROCESSOR" => e.id \in Byte /\ e.enabled \in BOOLEAN /\ e.boot \in BOOLEAN
         /\ e.type = "IO_APIC" => e.id \in Byte
         /\ e.type # "LOCAL_APIC"
BY DEF mpct_entry, mpct_processor, mpct_bus, mpct_ioapic, mpct_int

LEMMA StructureTypes ==
  ASSUME NEW e \in APIC_Structure
  PROVE  /\ e.type = "LOCAL_APIC" => e.id \in Byte /\ e.enabled \in BOOLEAN
         /\ e.type = "IO_APIC" => e.id \in Byte
         /\ e.type = "SOURCE_OVERRIDE" => e.source \in Line /\ e.gsi \in Slot
         /\ e.type # "PROCESSOR"
BY DEF APIC_Structure, Local_APIC_Structure, IO_APIC_Structure, Int_Source_Override_Structure

\* Some natural numbers have a least one.
LEMMA LeastNumber ==
  ASSUME NEW I \in SUBSET Nat, I # {}
  PROVE  \E x \in I : \A y \in I : x <= y
<1>1. PICK x \in I : \A y \in I : ~ (<<y, x>> \in OpToRel(<, Nat))
  BY NatLessThanWellFounded, WFMin
<1>2. \A y \in I : ~ (y < x)
  BY <1>1 DEF OpToRel
<1> QED BY <1>2

\* Min and Max of some numbers up to n
LEMMA MinMax ==
  ASSUME NEW n \in Nat, NEW I \in SUBSET (0 .. n), I # {}
  PROVE  /\ Min(I) \in I /\ \A y \in I : Min(I) <= y
         /\ Max(I) \in I /\ \A y \in I : Max(I) >= y
<1>1. \E x \in I : \A y \in I : x <= y
  BY LeastNumber, I \subseteq Nat
<1>2. \E x \in I : \A y \in I : x >= y
  <2> DEFINE J == {n - x : x \in I}
  <2>1. J \subseteq Nat /\ J # {}
    <3>1. \A x \in I : n - x \in Nat
      BY \A x \in I : x \in 0 .. n
    <3>2. PICK x \in I : TRUE
      OBVIOUS
    <3>3. n - x \in J
      OBVIOUS
    <3> QED BY <3>1, <3>3
  <2> HIDE DEF J
  <2>2. PICK j \in J : \A y \in J : j <= y
    BY <2>1, LeastNumber
  <2>3. PICK x \in I : j = n - x
    BY <2>2 DEF J
  <2>4. ASSUME NEW y \in I PROVE x >= y
    <3>1. n - y \in J
      BY DEF J
    <3>2. n - x <= n - y
      BY <2>2, <2>3, <3>1
    <3> QED BY <3>2
  <2> QED BY <2>4
<1> QED BY <1>1, <1>2 DEF Min, Max

\* What searchConfig() takes is the first valid structure.
LEMMA FoundInArea ==
  ASSUME NEW m \in Machine, NEW a \in 1 .. Areas, HasMPFPS(m, a)
  PROVE  /\ FoundMPFPS(m, a) \in mpfps
         /\ Readable(FoundMPFPS(m, a)) => Head(FoundMPFPS(m, a).physptr).entries = m.table.mps
         /\ m.mpfps[a] # << >>
<1> DEFINE s == m.mpfps[a]
           I == {k \in 1 .. Len(s) : ValidMPFPS(s[k])}
<1>1. s \in Seq(mpfps) /\ Len(s) \in Nat
  <2>1. m.mpfps \in [1 .. Areas -> Seq(mpfps)]
    BY Tables
  <2> QED BY <2>1 DEF Areas
<1>2. SelectInSeq(s, ValidMPFPS) = IF I # {} THEN Min(I) ELSE 0
  BY DEF SelectInSeq
<1>3. I # {} /\ FoundMPFPS(m, a) = s[Min(I)]
  BY <1>2 DEF HasMPFPS, FoundMPFPS
<1>4. Min(I) \in I
  <2>1. I \in SUBSET (0 .. Len(s)) /\ I # {}
    BY <1>1, <1>3
  <2> HIDE DEF I
  <2> QED BY <1>1, <2>1, MinMax
<1>5. Min(I) \in DOMAIN s /\ ValidMPFPS(s[Min(I)])
  BY <1>1, <1>4
<1>6. SoundTables(m)
  BY FirmwareAssumption
<1>7. Readable(s[Min(I)]) => Head(s[Min(I)].physptr).entries = m.table.mps
  BY <1>5, <1>6, Zenon DEF SoundTables
<1> HIDE DEF I
<1>8. s # << >>
  BY <1>5
<1>9. s[Min(I)] \in mpfps
  BY <1>1, <1>5
<1> QED BY <1>3, <1>7, <1>8, <1>9

\* FindMADT takes the last MADT of the first root pointer.
LEMMA FoundInRSDT ==
  ASSUME NEW m \in Machine, HasMADT(m)
  PROVE  /\ FoundMADT(m).entries = m.table.acpi
         /\ FoundMADT(m).PCAT_COMPAT \in BOOLEAN
<1> DEFINE s == Roots(m)
           I == {k \in 1 .. Len(s) : check_sum(s[k])}
<1>1. s \in Seq(RSDP) /\ Len(s) \in Nat
  BY Tables
<1>2. find(m) = IF I # {} THEN Min(I) ELSE 0
  BY DEF SelectInSeq, find
<1>3. I # {} /\ find(m) = Min(I)
  BY <1>2 DEF HasMADT
<1>4. find(m) \in I
  <2>1. I \in SUBSET (0 .. Len(s)) /\ I # {}
    BY <1>1, <1>3
  <2> HIDE DEF I
  <2> QED BY <1>1, <1>3, <2>1, MinMax
<1>5. find(m) \in DOMAIN s /\ check_sum(s[find(m)])
  BY <1>1, <1>4
<1> DEFINE r == s[find(m)].rsdt
           J == {k \in 1 .. Len(r) : IsMADT(r[k])}
<1>6. r \in RSDT
  <2>1. s[find(m)] \in RSDP
    BY <1>1, <1>5
  <2> QED BY <2>1 DEF RSDP
<1>7. r \in Seq(MADT \cup [type : STRING \ {"MADT"}]) /\ Len(r) \in Nat
  BY <1>6 DEF RSDT
<1>8. SelectLastInSeq(r, IsMADT) = IF J # {} THEN Max(J) ELSE 0
  BY DEF SelectLastInSeq
<1>9. J # {} /\ FoundMADT(m) = r[Max(J)]
  BY <1>8 DEF HasMADT, FoundMADT
<1>10. Max(J) \in J
  <2>1. J \in SUBSET (0 .. Len(r)) /\ J # {}
    BY <1>7, <1>9
  <2> HIDE DEF J
  <2> QED BY <1>7, <2>1, MinMax
<1>11. Max(J) \in DOMAIN r /\ IsMADT(r[Max(J)])
  BY <1>7, <1>10
<1>12. SoundTables(m)
  BY FirmwareAssumption
<1>13. r[Max(J)].entries = m.table.acpi
  BY <1>5, <1>11, <1>12, Zenon DEF SoundTables
<1>14. r[Max(J)] \in MADT
  <2>1. r[Max(J)] \in MADT \cup [type : STRING \ {"MADT"}]
    <3> HIDE DEF J, r
    <3> QED BY <1>7, <1>11
  <2>2. ASSUME NEW t \in MADT \cup [type : STRING \ {"MADT"}], t.type = "MADT" PROVE t \in MADT
    BY <2>2
  <2> QED BY <1>11, <2>1, <2>2 DEF IsMADT
<1> QED BY <1>9, <1>13, <1>14 DEF MADT

-----------------------------------------------------------------------------
(* Reading a table and counting its processors                             *)

\* The next entry of a table, and what is left then
LEMMA NextOfTable ==
  ASSUME NEW S, NEW t \in Seq(S), NEW r \in Seq(S), r # << >>, IsRest(r, t)
  PROVE  LET n == Len(t) - Len(r)
         IN  /\ n \in Nat /\ n + 1 \in DOMAIN t
             /\ Head(r) \in S /\ Head(r) = t[n + 1]
             /\ Tail(r) \in Seq(S) /\ IsRest(Tail(r), t)
             /\ Len(t) - Len(Tail(r)) = n + 1
<1> DEFINE n == Len(t) - Len(r)
<1>1. Len(t) \in Nat /\ Len(r) \in Nat /\ Len(r) # 0 /\ DOMAIN r = 1 .. Len(r)
      /\ DOMAIN t = 1 .. Len(t) /\ Head(r) = r[1] /\ Head(r) \in S
      /\ Tail(r) \in Seq(S) /\ Len(Tail(r)) = Len(r) - 1
      /\ DOMAIN Tail(r) = 1 .. Len(r) - 1
      /\ \A k \in 1 .. Len(r) - 1 : Tail(r)[k] = r[k + 1]
  OBVIOUS
<1>2. n \in Nat /\ \A k \in 1 .. Len(r) : r[k] = t[n + k]
  BY <1>1 DEF IsRest
<1>3. n + 1 \in DOMAIN t /\ Head(r) = t[n + 1] /\ Len(t) - Len(Tail(r)) = n + 1
  BY <1>1, <1>2
<1>4. ASSUME NEW k \in 1 .. Len(r) - 1
      PROVE  Tail(r)[k] = t[n + 1 + k]
  <2>1. k + 1 \in 1 .. Len(r) /\ n + (k + 1) = n + 1 + k
    BY <1>1, <1>2
  <2>2. r[k + 1] = t[n + (k + 1)]
    BY <1>2, <2>1
  <2> QED BY <1>1, <2>1, <2>2
<1>5. IsRest(Tail(r), t)
  BY <1>1, <1>2, <1>3, <1>4 DEF IsRest
<1> QED BY <1>1, <1>2, <1>3, <1>5

LEMMA CountNext ==
  ASSUME NEW t, NEW n \in Nat
  PROVE  /\ Processors(t, n) \in Nat
         /\ Processors(t, 0) = 0
         /\ Processors(t, n + 1) = IF Enabled(t[n + 1]) THEN Processors(t, n) + 1
                                                       ELSE Processors(t, n)
<1> DEFINE P(i_) == {k \in 1 .. i_ : Enabled(t[k])}
<1>1. IsFiniteSet(P(n)) /\ Cardinality(P(n)) \in Nat
  <2>1. IsFiniteSet(1 .. n) /\ P(n) \in SUBSET (1 .. n)
    BY FS_Interval
  <2>2. IsFiniteSet(P(n))
    BY <2>1, FS_Subset
  <2> QED BY <2>2, FS_CardinalityType
<1>2. P(0) = {}
  OBVIOUS
<1>3. P(n + 1) = IF Enabled(t[n + 1]) THEN P(n) \cup {n + 1} ELSE P(n)
  <2>1. 1 .. n + 1 = (1 .. n) \cup {n + 1}
    OBVIOUS
  <2> QED BY <2>1
<1>4. n + 1 \notin P(n)
  OBVIOUS
<1> HIDE DEF P
<1>5. Cardinality(P(n) \cup {n + 1}) = Cardinality(P(n)) + 1
  BY <1>1, <1>4, FS_AddElement
<1>6. Cardinality(P(0)) = 0
  BY <1>2, FS_EmptySet
<1>7. \A l : Processors(t, l) = Cardinality(P(l))
  BY DEF Processors, P
<1> QED BY <1>1, <1>3, <1>5, <1>6, <1>7

\* An earlier number is not greater, and numbers start with one.
LEMMA CountUp ==
  ASSUME NEW t, NEW n \in Nat, NEW k \in 0 .. n
  PROVE  /\ Processors(t, k) \in Nat /\ Processors(t, n) \in Nat
         /\ Processors(t, k) <= Processors(t, n)
         /\ k > 0 /\ Enabled(t[k]) => Processors(t, k) > 0
         /\ (\A j \in k + 1 .. n : ~Enabled(t[j])) => Processors(t, n) = Processors(t, k)
<1> DEFINE P(i_) == {j \in 1 .. i_ : Enabled(t[j])}
<1>1. IsFiniteSet(P(n)) /\ P(k) \in SUBSET P(n)
  <2>1. IsFiniteSet(1 .. n) /\ P(n) \in SUBSET (1 .. n)
    BY FS_Interval
  <2>2. IsFiniteSet(P(n))
    BY <2>1, FS_Subset
  <2> QED BY <2>2
<1>2. (\A j \in k + 1 .. n : ~Enabled(t[j])) => P(n) = P(k)
  OBVIOUS
<1>3. k > 0 /\ Enabled(t[k]) => k \in P(k)
  OBVIOUS
<1> HIDE DEF P
<1>4. IsFiniteSet(P(k)) /\ Cardinality(P(k)) <= Cardinality(P(n))
  BY <1>1, FS_Subset
<1>5. Cardinality(P(k)) \in Nat /\ Cardinality(P(n)) \in Nat
  BY <1>1, <1>4, FS_CardinalityType
<1>6. P(k) # {} => Cardinality(P(k)) # 0
  BY <1>4, FS_EmptySet
<1>7. \A l : Processors(t, l) = Cardinality(P(l))
  BY DEF Processors, P
<1> QED BY <1>2, <1>3, <1>4, <1>5, <1>6, <1>7

\* The next processor does not take the place of another.
LEMMA StoreNext ==
  ASSUME NEW t, NEW n \in Nat, NEW c, NEW d,
         c.lapic_id \in [0 .. CPU_MAX - 1 -> Byte], Stored(c, t, n),
         d.lapic_id = IF Enabled(t[n + 1]) /\ Processors(t, n) < CPU_MAX
                      THEN [c.lapic_id EXCEPT ![Processors(t, n)] = t[n + 1].id]
                      ELSE c.lapic_id
  PROVE  Stored(d, t, n + 1)
<1> SUFFICES ASSUME NEW k \in 1 .. n + 1, Enabled(t[k]), Processors(t, k) <= CPU_MAX
             PROVE  d.lapic_id[Processors(t, k) - 1] = t[k].id
  BY DEF Stored
<1>1. CPU_MAX \in Nat \ {0}
  BY CountAssumption
<1>2. /\ Processors(t, n) \in Nat
      /\ Processors(t, n + 1) = IF Enabled(t[n + 1]) THEN Processors(t, n) + 1
                                                    ELSE Processors(t, n)
  BY CountNext
<1>3. CASE k = n + 1
  BY <1>1, <1>2, <1>3
<1>4. CASE k # n + 1
  <2>1. k \in 0 .. n /\ k > 0 /\ k \in 1 .. n
    BY <1>4
  <2>2. Processors(t, k) \in Nat \ {0} /\ Processors(t, k) <= Processors(t, n)
    BY <2>1, CountUp
  <2>3. c.lapic_id[Processors(t, k) - 1] = t[k].id
    BY <2>1 DEF Stored
  <2>4. Processors(t, k) - 1 # Processors(t, n) /\ Processors(t, k) - 1 \in 0 .. CPU_MAX - 1
    BY <1>1, <1>2, <2>2
  <2> QED BY <2>3, <2>4
<1> QED BY <1>3, <1>4

-----------------------------------------------------------------------------
(* Types                                                                   *)

LEMMA InitTypes == DInit => DetectTypes
<1> SUFFICES ASSUME DInit PROVE DetectTypes
  OBVIOUS
<1>1. SystemConfig \in Configuration
  <2>1. CPU_MAX \in Nat \ {0}
    BY CountAssumption
  <2> QED BY <2>1 DEF SystemConfig, Configuration, Byte
<1>2. conf \in Configurations
  BY <1>1 DEF DInit, Configurations
<1>3. pc = "search" /\ area = 1 /\ found_bsp = FALSE /\ sys_conf = "none" /\ machine \in Machine
  BY DEF DInit
<1>4. area \in Nat \ {0} /\ area <= Areas
  BY <1>3 DEF Areas
<1>5. pc \in Steps /\ pc # "mpct" /\ pc # "madt" /\ (pc = "detected" <=> sys_conf # "none")
      /\ found_bsp \in BOOLEAN /\ sys_conf \in {"none", "mps", "acpi"}
  BY <1>3 DEF Steps
<1> QED BY <1>2, <1>3, <1>4, <1>5 DEF DetectTypes

LEMMA LegacyTypes == LegacySlots \in [Line -> Slot \cup {-1}]
<1>1. Lines \in 3 .. Slots /\ Slots \in 3 .. 256
  BY CountAssumption
<1> QED BY <1>1 DEF LegacySlots, Line, Slot

\* What a loop that reads a table of the MP specification keeps
LEMMA MPEntry ==
  ASSUME DetectTypes, pc = "mpct", rest # << >>
  PROVE  /\ TableIn(area)
         /\ Head(rest) \in mpct_entry
         /\ Read(MPS) \in Nat /\ Read(MPS) + 1 \in DOMAIN MPS
         /\ Head(rest) = MPS[Read(MPS) + 1]
         /\ rest' = Tail(rest) /\ machine' = machine =>
              rest' \in Seq(mpct_entry) /\ RestOf(MPS)' /\ Read(MPS)' = Read(MPS) + 1
<1>1. TableIn(area) /\ RestOf(MPS) /\ rest \in Seq(mpct_entry) /\ MPS \in Seq(mpct_entry)
  BY Tables DEF DetectTypes, ReadingMPS, MPS
<1>2. LET n == Len(MPS) - Len(rest)
      IN  /\ n \in Nat /\ n + 1 \in DOMAIN MPS
          /\ Head(rest) \in mpct_entry /\ Head(rest) = MPS[n + 1]
          /\ Tail(rest) \in Seq(mpct_entry) /\ IsRest(Tail(rest), MPS)
          /\ Len(MPS) - Len(Tail(rest)) = n + 1
  BY <1>1, NextOfTable DEF RestOf
<1>3. ASSUME rest' = Tail(rest), machine' = machine
      PROVE  rest' \in Seq(mpct_entry) /\ RestOf(MPS)' /\ Read(MPS)' = Read(MPS) + 1
  <2>1. MPS' = MPS
    BY <1>3 DEF MPS
  <2> QED BY <1>2, <1>3, <2>1 DEF RestOf, Read
<1> QED BY <1>1, <1>2, <1>3 DEF Read

LEMMA ACPIEntry ==
  ASSUME DetectTypes, pc = "madt", rest # << >>
  PROVE  /\ Head(rest) \in APIC_Structure
         /\ Read(ACPI) \in Nat /\ Read(ACPI) + 1 \in DOMAIN ACPI
         /\ Head(rest) = ACPI[Read(ACPI) + 1]
         /\ rest' = Tail(rest) /\ machine' = machine =>
              rest' \in Seq(APIC_Structure) /\ RestOf(ACPI)' /\ Read(ACPI)' = Read(ACPI) + 1
<1>1. RestOf(ACPI) /\ rest \in Seq(APIC_Structure) /\ ACPI \in Seq(APIC_Structure)
  BY Tables DEF DetectTypes, ReadingACPI, ACPI
<1>2. LET n == Len(ACPI) - Len(rest)
      IN  /\ n \in Nat /\ n + 1 \in DOMAIN ACPI
          /\ Head(rest) \in APIC_Structure /\ Head(rest) = ACPI[n + 1]
          /\ Tail(rest) \in Seq(APIC_Structure) /\ IsRest(Tail(rest), ACPI)
          /\ Len(ACPI) - Len(Tail(rest)) = n + 1
  BY <1>1, NextOfTable DEF RestOf
<1>3. ASSUME rest' = Tail(rest), machine' = machine
      PROVE  rest' \in Seq(APIC_Structure) /\ RestOf(ACPI)' /\ Read(ACPI)' = Read(ACPI) + 1
  <2>1. ACPI' = ACPI
    BY <1>3 DEF ACPI
  <2> QED BY <1>2, <1>3, <2>1 DEF RestOf, Read
<1> QED BY <1>1, <1>2, <1>3 DEF Read

\* A table is read from its start.
LEMMA RestAtStart ==
  ASSUME NEW S, NEW t \in Seq(S)
  PROVE  IsRest(t, t) /\ Len(t) - Len(t) = 0
BY DEF IsRest

\* After an entry, it is the configuration that needs a look.
LEMMA MPEntryKeeps ==
  ASSUME DetectTypes, pc = "mpct", rest # << >>, rest' = Tail(rest),
         UNCHANGED <<machine, pc, area, sys_conf>>, found_bsp' \in BOOLEAN,
         conf' \in Configurations
  PROVE  DetectTypes'
<1>1. TableIn(area) /\ rest' \in Seq(mpct_entry) /\ RestOf(MPS)'
  BY MPEntry
<1>2. TableIn(area)' /\ HasMPFPS(machine, area)'
  BY <1>1 DEF TableIn
<1>3. ReadingMPS'
  BY <1>1, <1>2 DEF ReadingMPS
<1> QED BY <1>3 DEF DetectTypes

LEMMA ACPIEntryKeeps ==
  ASSUME DetectTypes, pc = "madt", rest # << >>, rest' = Tail(rest),
         UNCHANGED <<machine, pc, area, sys_conf>>, found_bsp' \in BOOLEAN,
         conf' \in Configurations
  PROVE  DetectTypes'
<1>1. rest' \in Seq(APIC_Structure) /\ RestOf(ACPI)'
  BY ACPIEntry
<1>3. ReadingACPI'
  BY <1>1 DEF ReadingACPI
<1> QED BY <1>3 DEF DetectTypes

\* The slot that remains for a line
LEMMA SlotOfLine ==
  ASSUME NEW irqs, NEW d, \E s \in Slot : irqs[s] = d
  PROVE  /\ LastSlot(irqs, d) \in Slot /\ irqs[LastSlot(irqs, d)] = d
         /\ \A s \in Slot : irqs[s] = d => s <= LastSlot(irqs, d)
<1> DEFINE I == {s \in Slot : irqs[s] = d}
<1>1. Slots \in Nat /\ I \in SUBSET (0 .. Slots) /\ I # {}
  BY CountAssumption DEF Slot
<1>2. LastSlot(irqs, d) = Max(I)
  BY DEF LastSlot
<1>3. \A s : s \in I <=> s \in Slot /\ irqs[s] = d
  OBVIOUS
<1> HIDE DEF I
<1>4. Max(I) \in I /\ \A y \in I : Max(I) >= y
  BY <1>1, MinMax
<1>5. \A x \in I : Max(I) >= x <=> x <= Max(I)
  <2>1. \A x \in I : x \in 0 .. Slots
    BY <1>1
  <2>2. \A x \in I : x \in Int
    BY <2>1
  <2> QED BY <1>4, <2>2
<1> QED BY <1>2, <1>3, <1>4, <1>5

\* Each action keeps the types.
LEMMA TypesKept == DetectTypes /\ detectSystemType => DetectTypes'
<1> SUFFICES ASSUME DetectTypes, detectSystemType PROVE DetectTypes'
  OBVIOUS
<1>c. CPU_MAX \in Nat \ {0}
  BY CountAssumption
<1>t. /\ machine \in Machine /\ conf \in Configurations /\ area \in Nat \ {0} /\ pc \in Steps
      /\ found_bsp \in BOOLEAN /\ sys_conf \in {"none", "mps", "acpi"}
      /\ pc \in {"search", "mpct"} => area <= Areas
      /\ (pc = "detected" <=> sys_conf # "none")
  BY DEF DetectTypes
<1>a. ASSUME NextArea PROVE area' = area + 1 /\ pc' \in {"search", "acpi"} /\ (pc' = "search" => area # Areas)
  BY <1>a DEF NextArea
<1>1. CASE searchConfig
  <2>1. pc = "search" /\ area \in 1 .. Areas /\ UNCHANGED <<machine, found_bsp, sys_conf>>
    BY <1>1, <1>t DEF searchConfig, Areas
  <2>2. CASE ~HasMPFPS(machine, area)
    <3>1. NextArea /\ UNCHANGED <<rest, conf>>
      BY <1>1, <2>2 DEF searchConfig
    <3> QED BY <1>a, <1>t, <2>1, <3>1 DEF DetectTypes, Steps, Areas
  <2>3. CASE HasMPFPS(machine, area)
    <3> DEFINE s == FoundMPFPS(machine, area)
    <3>1. s \in mpfps /\ (Readable(s) => Head(s.physptr).entries = MPS)
      BY <1>t, <2>1, <2>3, FoundInArea DEF MPS
    <3>2. /\ conf' = [conf EXCEPT !.mps.disablePICs = @ \/ s.feature2 >= 128,
                                  !.mps.slot_map = IF Readable(s) THEN LegacySlots ELSE @]
          /\ rest' = IF Readable(s) THEN Head(s.physptr).entries ELSE << >>
          /\ pc' = "mpct" /\ area' = area
      BY <1>1, <2>3 DEF searchConfig
    <3>3. (s.feature2 >= 128) \in BOOLEAN
      OBVIOUS
    <3> HIDE DEF s
    <3>4. conf' \in Configurations
      BY <1>t, <3>2, <3>3, LegacyTypes DEF Configurations, Configuration
    <3>5. MPS \in Seq(mpct_entry) /\ MPS' = MPS
      BY <1>t, <2>1, Tables DEF MPS
    <3>6. ReadingMPS'
      <4>1. TableIn(area)' <=> Readable(s)
        BY <2>1, <2>3, <3>2 DEF TableIn, s
      <4>2. HasMPFPS(machine, area)'
        BY <2>1, <2>3, <3>2
      <4>3. CASE Readable(s)
        <5>1. rest' = MPS
          BY <3>1, <3>2, <4>3
        <5>2. IsRest(MPS, MPS)
          BY <3>5, RestAtStart
        <5>3. RestOf(MPS)'
          BY <3>5, <5>1, <5>2 DEF RestOf
        <5> QED BY <3>5, <4>1, <4>2, <4>3, <5>1, <5>3 DEF ReadingMPS
      <4>4. CASE ~Readable(s)
        BY <3>2, <4>1, <4>2, <4>4 DEF ReadingMPS
      <4> QED BY <4>3, <4>4
    <3> QED BY <1>t, <2>1, <3>2, <3>4, <3>6 DEF DetectTypes, Steps
  <2> QED BY <2>2, <2>3
<1>2. CASE Processor
  <2>1. pc = "mpct" /\ rest # << >> /\ Head(rest).type = "PROCESSOR"
    BY <1>2 DEF Processor, Entry
  <2>2. Head(rest).id \in Byte /\ Head(rest).enabled \in BOOLEAN
    BY <2>1, MPEntry, MPEntryTypes
  <2> DEFINE m == Head(rest)
             n == conf.mps.cpu_count
             new == IF ~m.enabled THEN conf
                    ELSE [conf EXCEPT
                      !.mps.cpu_count = n + 1,
                      !.mps.bsp_id = IF m.boot THEN m.id ELSE @,
                      !.mps.lapic_id = IF n < CPU_MAX THEN [@ EXCEPT ![n] = m.id] ELSE @]
  <2>3. NextEntry(new) /\ UNCHANGED found_bsp
    BY <1>2 DEF Processor
  <2>4. new \in Configurations
    <3> DEFINE b == IF m.boot THEN m.id ELSE conf.mps.bsp_id
               l == IF n < CPU_MAX THEN [conf.mps.lapic_id EXCEPT ![n] = m.id] ELSE conf.mps.lapic_id
    <3>1. n \in Nat /\ conf.mps.bsp_id \in Byte /\ conf.mps.lapic_id \in [0 .. CPU_MAX - 1 -> Byte]
      BY <1>t DEF Configurations, Configuration
    <3>2. b \in Byte /\ l \in [0 .. CPU_MAX - 1 -> Byte]
      BY <2>2, <3>1
    <3>3. new = IF ~m.enabled THEN conf ELSE
                [conf EXCEPT !.mps.cpu_count = n + 1, !.mps.bsp_id = b, !.mps.lapic_id = l]
      BY <1>t DEF Configurations, Configuration
    <3> HIDE DEF m, new, b, l
    <3>4. n + 1 \in Nat
      BY <3>1
    <3> HIDE DEF n
    <3> QED BY <1>t, <3>2, <3>3, <3>4 DEF Configurations, Configuration
  <2> HIDE DEF new
  <2> QED BY <1>t, <2>1, <2>3, <2>4, MPEntryKeeps DEF NextEntry
<1>3. CASE IOApic("mpct", "mps")
  <2>1. pc = "mpct" /\ rest # << >> /\ Head(rest).type = "IO_APIC"
    BY <1>3 DEF IOApic, Entry
  <2>2. Head(rest).id \in Byte
    BY <2>1, MPEntry, MPEntryTypes
  <2>3. NextEntry([conf EXCEPT !.mps.ioapic_id = Head(rest).id]) /\ UNCHANGED found_bsp
    BY <1>3 DEF IOApic
  <2>4. [conf EXCEPT !.mps.ioapic_id = Head(rest).id] \in Configurations
    BY <1>t, <2>2 DEF Configurations, Configuration
  <2> QED BY <1>t, <2>1, <2>3, <2>4, MPEntryKeeps DEF NextEntry
<1>4. CASE IOInterrupt
  <2>1. pc = "mpct" /\ rest # << >>
    BY <1>4 DEF IOInterrupt, Entry
  <2> DEFINE m == Head(rest)
             new == IF IsISA(m)
                    THEN [conf EXCEPT !.mps.ioapic_irqs[m.dstirq] = m.srcbusirq,
                                      !.mps.slot_map[m.srcbusirq] = m.dstirq]
                    ELSE conf
  <2>3. NextEntry(new) /\ UNCHANGED found_bsp
    BY <1>4 DEF IOInterrupt
  <2>4. new \in Configurations
    BY <1>t DEF Configurations, Configuration, IsISA
  <2> HIDE DEF new
  <2> QED BY <1>t, <2>1, <2>3, <2>4, MPEntryKeeps DEF NextEntry
<1>5. CASE OtherEntry
  <2>1. pc = "mpct" /\ rest # << >> /\ NextEntry(conf) /\ UNCHANGED found_bsp
    BY <1>5 DEF OtherEntry, Entry
  <2> QED BY <1>t, <2>1, MPEntryKeeps DEF NextEntry
<1>6. CASE MPCTRead
  <2>1. pc = "mpct" /\ UNCHANGED <<machine, found_bsp, conf, sys_conf>>
    BY <1>6 DEF MPCTRead
  <2>2. CASE conf.mps.cpu_count > 1
    <3>1. pc' = "acpi" /\ area' = area
      BY <1>6, <2>2 DEF MPCTRead
    <3> QED BY <1>t, <2>1, <3>1 DEF DetectTypes, Steps
  <2>3. CASE ~(conf.mps.cpu_count > 1)
    <3>1. NextArea
      BY <1>6, <2>3 DEF MPCTRead
    <3> QED BY <1>a, <1>t, <2>1, <3>1 DEF DetectTypes, Steps, Areas
  <2> QED BY <2>2, <2>3
<1>7. CASE FindMADT
  <2>1. pc = "acpi" /\ UNCHANGED <<machine, area, found_bsp, sys_conf>>
    BY <1>7 DEF FindMADT
  <2>2. CASE ~HasMADT(machine)
    <3>1. pc' = "map" /\ UNCHANGED conf
      BY <1>7, <2>2 DEF FindMADT
    <3> QED BY <1>t, <2>1, <3>1 DEF DetectTypes, Steps
  <2>3. CASE HasMADT(machine)
    <3> DEFINE madt == FoundMADT(machine)
    <3>1. madt.entries = ACPI /\ madt.PCAT_COMPAT \in BOOLEAN
      BY <1>t, <2>3, FoundInRSDT DEF ACPI
    <3>2. /\ pc' = "madt" /\ rest' = madt.entries
          /\ conf' = [conf EXCEPT !.acpi.disablePICs = @ \/ madt.PCAT_COMPAT]
      BY <1>7, <2>3 DEF FindMADT
    <3>3. conf' \in Configurations
      BY <1>t, <3>1, <3>2 DEF Configurations, Configuration
    <3>4. ReadingACPI'
      <4>1. ACPI \in Seq(APIC_Structure) /\ ACPI' = ACPI
        BY <1>t, <2>1, Tables DEF ACPI
      <4>2. IsRest(ACPI, ACPI)
        BY <4>1, RestAtStart
      <4> QED BY <3>1, <3>2, <4>1, <4>2 DEF ReadingACPI, RestOf
    <3> QED BY <1>t, <2>1, <3>2, <3>3, <3>4 DEF DetectTypes, Steps
  <2> QED BY <2>2, <2>3
<1>8. CASE LocalApic
  <2>1. pc = "madt" /\ rest # << >> /\ Head(rest).type = "LOCAL_APIC"
    BY <1>8 DEF LocalApic, Entry
  <2>2. Head(rest).id \in Byte
    BY <2>1, ACPIEntry, StructureTypes
  <2>3. CASE Head(rest).enabled /\ conf.acpi.cpu_count # CPU_MAX
    <3> DEFINE n == conf.acpi.cpu_count
               id == Head(rest).id
               new == [conf EXCEPT !.acpi.cpu_count = n + 1,
                                   !.acpi.lapic_id[n] = id,
                                   !.acpi.bsp_id = IF found_bsp THEN @ ELSE id]
    <3>1. NextEntry(new) /\ found_bsp' = TRUE
      BY <1>8, <2>3 DEF LocalApic
    <3>2. new \in Configurations
      <4> DEFINE b == IF found_bsp THEN conf.acpi.bsp_id ELSE id
                 l == [conf.acpi.lapic_id EXCEPT ![n] = id]
      <4>1. n \in Nat /\ conf.acpi.bsp_id \in Byte /\ conf.acpi.lapic_id \in [0 .. CPU_MAX - 1 -> Byte]
        BY <1>t DEF Configurations, Configuration
      <4>2. b \in Byte /\ l \in [0 .. CPU_MAX - 1 -> Byte]
        BY <2>2, <4>1
      <4>3. new = [conf EXCEPT !.acpi.cpu_count = n + 1, !.acpi.lapic_id = l, !.acpi.bsp_id = b]
        BY <1>t DEF Configurations, Configuration
      <4>4. n + 1 \in Nat
        BY <4>1
      <4> HIDE DEF id, new, b, l, n
      <4> QED BY <1>t, <4>2, <4>3, <4>4 DEF Configurations, Configuration
    <3> HIDE DEF new
    <3> QED BY <1>t, <2>1, <3>1, <3>2, ACPIEntryKeeps DEF NextEntry
  <2>4. CASE ~(Head(rest).enabled /\ conf.acpi.cpu_count # CPU_MAX)
    <3>1. NextEntry(conf) /\ UNCHANGED found_bsp
      BY <1>8, <2>4 DEF LocalApic
    <3> QED BY <1>t, <2>1, <3>1, ACPIEntryKeeps DEF NextEntry
  <2> QED BY <2>3, <2>4
<1>9. CASE IOApic("madt", "acpi")
  <2>1. pc = "madt" /\ rest # << >> /\ Head(rest).type = "IO_APIC"
    BY <1>9 DEF IOApic, Entry
  <2>2. Head(rest).id \in Byte
    BY <2>1, ACPIEntry, StructureTypes
  <2>3. NextEntry([conf EXCEPT !.acpi.ioapic_id = Head(rest).id]) /\ UNCHANGED found_bsp
    BY <1>9 DEF IOApic
  <2>4. [conf EXCEPT !.acpi.ioapic_id = Head(rest).id] \in Configurations
    BY <1>t, <2>2 DEF Configurations, Configuration
  <2> QED BY <1>t, <2>1, <2>3, <2>4, ACPIEntryKeeps DEF NextEntry
<1>10. CASE SourceOverride
  <2>1. pc = "madt" /\ rest # << >> /\ Head(rest).type = "SOURCE_OVERRIDE"
    BY <1>10 DEF SourceOverride, Entry
  <2>2. Head(rest).source \in Line /\ Head(rest).gsi \in Slot
    BY <2>1, ACPIEntry, StructureTypes
  <2> DEFINE new == IF IsOverride(Head(rest))
                    THEN [conf EXCEPT !.acpi.ioapic_irqs[Head(rest).gsi] = Head(rest).source]
                    ELSE conf
  <2>3. NextEntry(new) /\ UNCHANGED found_bsp
    BY <1>10 DEF SourceOverride
  <2>4. new \in Configurations
    BY <1>t, <2>2 DEF Configurations, Configuration
  <2> HIDE DEF new
  <2> QED BY <1>t, <2>1, <2>3, <2>4, ACPIEntryKeeps DEF NextEntry
<1>11. CASE OtherStructure
  <2>1. pc = "madt" /\ rest # << >> /\ NextEntry(conf) /\ UNCHANGED found_bsp
    BY <1>11 DEF OtherStructure
  <2> QED BY <1>t, <2>1, ACPIEntryKeeps DEF NextEntry
<1>12. CASE MADTRead
  BY <1>12, <1>t DEF MADTRead, DetectTypes, Steps
<1>13. CASE generateIRQMap
  <2> DEFINE old == conf.acpi.ioapic_irqs
             irqs == [i \in Slot |-> IF i \in Line /\ old[i] = -1 THEN i ELSE old[i]]
             slots == [d \in Line |-> IF \E i \in Slot : irqs[i] = d
                                      THEN LastSlot(irqs, d) ELSE conf.acpi.slot_map[d]]
  <2>1. conf' = [conf EXCEPT !.acpi.ioapic_irqs = irqs, !.acpi.slot_map = slots]
    BY <1>13, <1>t DEF generateIRQMap, Configurations, Configuration
  <2>2. old \in [Slot -> Line \cup {-1}] /\ conf.acpi.slot_map \in [Line -> Slot \cup {-1}]
    BY <1>t DEF Configurations, Configuration
  <2>3. irqs \in [Slot -> Line \cup {-1}]
    BY <2>2
  <2> HIDE DEF irqs
  <2>4. ASSUME NEW d \in Line, \E i \in Slot : irqs[i] = d PROVE LastSlot(irqs, d) \in Slot
    BY <2>4, SlotOfLine
  <2>5. slots \in [Line -> Slot \cup {-1}]
    BY <2>2, <2>4
  <2> HIDE DEF slots
  <2>6. conf' \in Configurations
    BY <1>t, <2>1, <2>3, <2>5 DEF Configurations, Configuration
  <2>7. pc = "map" /\ pc' = "choose" /\ UNCHANGED <<machine, area, found_bsp, sys_conf>>
    BY <1>13 DEF generateIRQMap
  <2> QED BY <1>t, <2>6, <2>7 DEF DetectTypes, Steps
<1>14. CASE Choose
  <2>1. /\ sys_conf' \in {"mps", "acpi"} /\ pc' = "detected" /\ UNCHANGED <<machine, area, found_bsp>>
        /\ conf' = conf \/ conf' = [conf EXCEPT ![sys_conf'].cpu_count = 1]
    BY <1>14 DEF Choose
  <2>2. conf' \in Configurations
    BY <1>t, <2>1 DEF Configurations, Configuration
  <2> QED BY <1>t, <2>1, <2>2 DEF DetectTypes, Steps
<1> QED BY <1>1, <1>2, <1>3, <1>4, <1>5, <1>6, <1>7, <1>8, <1>9, <1>10, <1>11, <1>12, <1>13, <1>14
        DEF detectSystemType

\* An area with a valid structure: its table is going to be read, if there is one.
LEMMA AreaSearched ==
  ASSUME DetectTypes, searchConfig, HasMPFPS(machine, area)
  PROVE  /\ pc = "search" /\ area \in 1 .. Areas
         /\ pc' = "mpct" /\ UNCHANGED <<machine, area>>
         /\ conf'.mps.cpu_count = conf.mps.cpu_count
         /\ conf'.mps.bsp_id = conf.mps.bsp_id
         /\ conf'.mps.lapic_id = conf.mps.lapic_id
         /\ ~TableIn(area) => conf'.mps.slot_map = conf.mps.slot_map
         /\ TableIn(area) => rest' = MPS /\ Read(MPS)' = 0
         /\ TableIn(area)' <=> TableIn(area)
<1> DEFINE s == FoundMPFPS(machine, area)
           x == conf.mps.disablePICs \/ s.feature2 >= 128
           y == IF Readable(s) THEN LegacySlots ELSE conf.mps.slot_map
<1>1. /\ machine \in Machine /\ conf \in Configurations
      /\ pc = "search" /\ area \in 1 .. Areas
      /\ pc' = "mpct" /\ UNCHANGED <<machine, area>>
  BY DEF searchConfig, DetectTypes, Areas
<1>2. conf' = [conf EXCEPT !.mps.disablePICs = x, !.mps.slot_map = y]
  BY <1>1 DEF searchConfig, Configurations, Configuration
<1>3. TableIn(area) <=> Readable(s)
  BY DEF TableIn
<1>4. TableIn(area)' <=> TableIn(area)
  BY <1>1 DEF TableIn
<1>5. ASSUME TableIn(area) PROVE rest' = MPS /\ Read(MPS)' = 0
  <2>1. rest' = Head(s.physptr).entries
    BY <1>3, <1>5 DEF searchConfig
  <2>2. rest' = MPS
    BY <1>1, <1>3, <1>5, <2>1, FoundInArea DEF MPS
  <2>3. MPS \in Seq(mpct_entry) /\ MPS' = MPS
    BY <1>1, Tables DEF MPS
  <2> QED BY <2>2, <2>3, RestAtStart DEF Read
<1>6. ~TableIn(area) => y = conf.mps.slot_map
  BY <1>3
<1> HIDE DEF x, y
<1>7. /\ conf'.mps.cpu_count = conf.mps.cpu_count
      /\ conf'.mps.bsp_id = conf.mps.bsp_id
      /\ conf'.mps.lapic_id = conf.mps.lapic_id
      /\ conf'.mps.slot_map = y
  BY <1>1, <1>2 DEF Configurations, Configuration
<1> QED BY <1>1, <1>4, <1>5, <1>6, <1>7

\* The readers of one kind of tables leave the other configuration alone.
LEMMA Apart ==
  ASSUME DetectTypes, detectSystemType
  PROVE  /\ machine' = machine
         /\ pc \in {"search", "mpct"} =>
              /\ conf'.acpi = conf.acpi /\ UNCHANGED <<found_bsp, sys_conf>>
              /\ pc' \in {"search", "mpct", "acpi"}
         /\ pc \in {"acpi", "madt", "map"} =>
              /\ conf'.mps = conf.mps /\ UNCHANGED sys_conf
              /\ pc' \in {"madt", "map", "choose"}
         /\ pc # "detected"
<1>t. conf \in Configurations
  BY DEF DetectTypes
<1> USE <1>t DEF Configurations, Configuration
<1>1. CASE searchConfig
  <2>1. CASE HasMPFPS(machine, area)
    BY <1>1, <2>1 DEF searchConfig
  <2>2. CASE ~HasMPFPS(machine, area)
    BY <1>1, <2>2 DEF searchConfig, NextArea
  <2> QED BY <2>1, <2>2
<1>2. CASE Processor
  BY <1>2 DEF Processor, Entry, NextEntry
<1>3. CASE IOApic("mpct", "mps")
  BY <1>3 DEF IOApic, Entry, NextEntry
<1>4. CASE IOInterrupt
  BY <1>4 DEF IOInterrupt, Entry, NextEntry
<1>5. CASE OtherEntry
  BY <1>5 DEF OtherEntry, Entry, NextEntry
<1>6. CASE MPCTRead
  BY <1>6 DEF MPCTRead, NextArea
<1>7. CASE FindMADT
  BY <1>7 DEF FindMADT
<1>8. CASE LocalApic
  <2>1. pc = "madt" /\ pc' = pc /\ UNCHANGED <<machine, sys_conf>>
    BY <1>8 DEF LocalApic, Entry, NextEntry
  <2>2. conf'.mps = conf.mps
    <3>1. CASE Head(rest).enabled /\ conf.acpi.cpu_count # CPU_MAX
      BY <1>8, <3>1 DEF LocalApic, NextEntry
    <3>2. CASE ~(Head(rest).enabled /\ conf.acpi.cpu_count # CPU_MAX)
      BY <1>8, <3>2 DEF LocalApic, NextEntry
    <3> QED BY <3>1, <3>2
  <2> QED BY <2>1, <2>2
<1>9. CASE IOApic("madt", "acpi")
  BY <1>9 DEF IOApic, Entry, NextEntry
<1>10. CASE SourceOverride
  BY <1>10 DEF SourceOverride, Entry, NextEntry
<1>11. CASE OtherStructure
  BY <1>11 DEF OtherStructure, NextEntry
<1>12. CASE MADTRead
  BY <1>12 DEF MADTRead
<1>13. CASE generateIRQMap
  BY <1>13 DEF generateIRQMap
<1>14. CASE Choose
  BY <1>14 DEF Choose
<1> QED BY <1>1, <1>2, <1>3, <1>4, <1>5, <1>6, <1>7, <1>8, <1>9, <1>10, <1>11, <1>12, <1>13, <1>14
        DEF detectSystemType

-----------------------------------------------------------------------------
(* The slots of the MP table                                               *)

\* An entry that was not for the ISA bus, or that was stored
LEMMA NextSlot ==
  ASSUME DetectTypes, SlotsRead, pc = "mpct", rest # << >>, rest' = Tail(rest),
         UNCHANGED <<machine, pc, area>>,
         conf'.mps.slot_map = IF IsISA(Head(rest))
                              THEN [conf.mps.slot_map EXCEPT ![Head(rest).srcbusirq] = Head(rest).dstirq]
                              ELSE conf.mps.slot_map
  PROVE  SlotsRead'
<1>1. /\ TableIn(area) /\ Read(MPS) \in Nat /\ Read(MPS) + 1 \in DOMAIN MPS
      /\ Head(rest) = MPS[Read(MPS) + 1] /\ Read(MPS)' = Read(MPS) + 1
  BY MPEntry
<1>2. /\ TableIn(area)' /\ MPS' = MPS /\ MPSSlots(Read(MPS))
  BY <1>1 DEF TableIn, MPS, SlotsRead
<1>3. /\ machine \in Machine /\ DOMAIN machine.wiring \subseteq Line /\ Wires(machine)
      /\ conf.mps.slot_map \in [Line -> Slot \cup {-1}]
  BY Wiring, FirmwareAssumption DEF DetectTypes, Configurations, Configuration
<1> DEFINE n == Read(MPS)
           e == MPS[n + 1]
<1>4. ASSUME NEW d \in DOMAIN machine.wiring, IsISA(e), e.srcbusirq = d
      PROVE  e.dstirq = machine.wiring[d]
  BY <1>1, <1>3, <1>4 DEF Wires, MPS
<1>5. ASSUME NEW d \in DOMAIN machine.wiring, NEW k \in 1 .. n + 1,
             IsISA(MPS[k]), MPS[k].srcbusirq = d
      PROVE  conf'.mps.slot_map[d] = machine.wiring[d]
  <2>1. CASE k = n + 1
    BY <1>1, <1>3, <1>4, <1>5, <2>1
  <2>2. CASE k # n + 1
    <3>1. k \in 1 .. n
      BY <1>1, <2>2
    <3>2. conf.mps.slot_map[d] = machine.wiring[d]
      BY <1>2, <1>5, <3>1 DEF MPSSlots
    <3>3. IsISA(e) /\ e.srcbusirq = d => conf'.mps.slot_map[d] = machine.wiring[d]
      BY <1>1, <1>3, <1>4
    <3> QED BY <1>1, <1>3, <3>2, <3>3
  <2> QED BY <2>1, <2>2
<1>6. MPS # << >>
  BY <1>1
<1>7. MPSSlots(Read(MPS))'
  BY <1>1, <1>2, <1>5 DEF MPSSlots
<1>8. MPS' # << >>
  BY <1>2, <1>6
<1> QED BY <1>2, <1>7, <1>8 DEF SlotsRead

LEMMA SlotsReadKept == DetectTypes /\ SlotsRead /\ detectSystemType => SlotsRead'
<1> SUFFICES ASSUME DetectTypes, SlotsRead, detectSystemType PROVE SlotsRead'
  OBVIOUS
<1>t. /\ machine \in Machine /\ conf \in Configurations /\ area \in Nat \ {0}
      /\ pc \in {"search", "mpct"} => area <= Areas
  BY DEF DetectTypes
<1>u. machine' = machine /\ MPS' = MPS
  BY Apart DEF MPS
\* When no table is being read, afterwards or before
<1>a. ASSUME ~(pc = "mpct" /\ TableIn(area)), ~(pc' = "mpct" /\ TableIn(area)'),
             conf'.mps.cpu_count > 0 => conf.mps.cpu_count > 0,
             conf'.mps.slot_map = conf.mps.slot_map
      PROVE  SlotsRead'
  <2>1. conf.mps.cpu_count > 0 => MPSSlots(Len(MPS)) /\ MPS # << >>
    BY <1>a DEF SlotsRead
  <2>2. MPSSlots(Len(MPS)) => MPSSlots(Len(MPS))'
    BY <1>a, <1>u DEF MPSSlots
  <2> QED BY <1>a, <1>u, <2>1, <2>2 DEF SlotsRead
<1>1. CASE searchConfig
  <2>1. pc = "search" /\ area \in 1 .. Areas
    BY <1>1, <1>t DEF searchConfig, Areas
  <2>2. CASE ~HasMPFPS(machine, area)
    <3>1. pc' # "mpct" /\ conf' = conf
      BY <1>1, <2>2 DEF searchConfig, NextArea
    <3> QED BY <1>a, <2>1, <3>1
  <2>3. CASE HasMPFPS(machine, area) /\ TableIn(area)
    <3>1. pc' = "mpct" /\ TableIn(area)' /\ Read(MPS)' = 0 /\ conf'.mps.cpu_count = conf.mps.cpu_count
      BY <1>1, <2>3, AreaSearched
    <3>2. MPSSlots(Read(MPS))'
      BY <3>1 DEF MPSSlots
    <3> QED BY <1>u, <3>1, <3>2 DEF SlotsRead
  <2>4. CASE HasMPFPS(machine, area) /\ ~TableIn(area)
    <3>1. /\ ~TableIn(area)'
          /\ conf'.mps.cpu_count = conf.mps.cpu_count
          /\ conf'.mps.slot_map = conf.mps.slot_map
      BY <1>1, <2>4, AreaSearched
    <3> QED BY <1>a, <2>1, <3>1
  <2> QED BY <2>2, <2>3, <2>4
<1>2. CASE Processor
  <2>1. /\ pc = "mpct" /\ rest # << >> /\ ~IsISA(Head(rest)) /\ rest' = Tail(rest)
        /\ UNCHANGED <<machine, pc, area>>
    BY <1>2 DEF Processor, Entry, NextEntry, IsISA
  <2>2. conf'.mps.slot_map = conf.mps.slot_map
    BY <1>2, <1>t DEF Processor, NextEntry, Configurations, Configuration
  <2> QED BY <2>1, <2>2, NextSlot
<1>3. CASE IOApic("mpct", "mps")
  <2>1. /\ pc = "mpct" /\ rest # << >> /\ ~IsISA(Head(rest)) /\ rest' = Tail(rest)
        /\ UNCHANGED <<machine, pc, area>>
    BY <1>3 DEF IOApic, Entry, NextEntry, IsISA
  <2>2. conf'.mps.slot_map = conf.mps.slot_map
    BY <1>3, <1>t DEF IOApic, NextEntry, Configurations, Configuration
  <2> QED BY <2>1, <2>2, NextSlot
<1>4. CASE IOInterrupt
  <2>1. pc = "mpct" /\ rest # << >> /\ rest' = Tail(rest) /\ UNCHANGED <<machine, pc, area>>
    BY <1>4 DEF IOInterrupt, Entry, NextEntry
  <2>2. conf'.mps.slot_map = IF IsISA(Head(rest))
                              THEN [conf.mps.slot_map EXCEPT ![Head(rest).srcbusirq] = Head(rest).dstirq]
                              ELSE conf.mps.slot_map
    BY <1>4, <1>t DEF IOInterrupt, NextEntry, Configurations, Configuration
  <2> QED BY <2>1, <2>2, NextSlot
<1>5. CASE OtherEntry
  <2>1. /\ pc = "mpct" /\ rest # << >> /\ ~IsISA(Head(rest)) /\ rest' = Tail(rest)
        /\ UNCHANGED <<machine, pc, area>> /\ conf' = conf
    BY <1>5 DEF OtherEntry, Entry, NextEntry, IsISA
  <2> QED BY <2>1, NextSlot
<1>6. CASE MPCTRead
  <2>1. pc = "mpct" /\ rest = << >> /\ conf' = conf /\ pc' # "mpct"
    BY <1>6 DEF MPCTRead, NextArea
  <2>2. CASE ~TableIn(area)
    BY <1>a, <2>1, <2>2
  <2>3. CASE TableIn(area)
    <3>1. Read(MPS) = Len(MPS)
      <4>1. MPS \in Seq(mpct_entry)
        BY <1>t, Tables DEF MPS
      <4> QED BY <2>1, <4>1 DEF Read
    <3>2. MPSSlots(Len(MPS))
      BY <2>1, <2>3, <3>1 DEF SlotsRead
    <3>3. MPSSlots(Len(MPS))'
      BY <1>u, <2>1, <3>2 DEF MPSSlots
    <3>4. conf.mps.cpu_count > 0 => MPS # << >>
      BY DEF SlotsRead
    <3> QED BY <1>u, <2>1, <3>3, <3>4 DEF SlotsRead
  <2> QED BY <2>2, <2>3
<1>7. CASE pc \in {"acpi", "madt", "map"}
  <2>1. conf'.mps = conf.mps /\ pc' # "mpct"
    BY <1>7, Apart
  <2> QED BY <1>7, <1>a, <2>1
<1>8. CASE Choose
  <2>1. pc = "choose" /\ pc' = "detected"
    BY <1>8 DEF Choose
  <2>2. /\ conf'.mps.slot_map = conf.mps.slot_map
        /\ conf'.mps.cpu_count > 0 => conf.mps.cpu_count > 0
    <3>1. /\ sys_conf' = IF conf.acpi.cpu_count >= conf.mps.cpu_count THEN "acpi" ELSE "mps"
          /\ conf' = conf \/ conf' = [conf EXCEPT ![sys_conf'].cpu_count = 1]
      BY <1>8 DEF Choose
    <3>2. conf.acpi.cpu_count \in Nat /\ conf.mps.cpu_count \in Nat
      BY <1>t DEF Configurations, Configuration
    <3>3. sys_conf' = "mps" => conf.mps.cpu_count > 0
      BY <3>1, <3>2
    <3> QED BY <1>t, <3>1, <3>3 DEF Configurations, Configuration
  <2> QED BY <1>a, <2>1, <2>2
<1>9. pc \in {"acpi", "madt", "map"} \/ searchConfig \/ Processor \/ IOApic("mpct", "mps")
        \/ IOInterrupt \/ OtherEntry \/ MPCTRead \/ Choose
  BY DEF detectSystemType, FindMADT, LocalApic, IOApic, SourceOverride, OtherStructure, MADTRead,
         generateIRQMap, Entry
<1> QED BY <1>1, <1>2, <1>3, <1>4, <1>5, <1>6, <1>7, <1>8, <1>9

-----------------------------------------------------------------------------
(* The tables of ACPI                                                      *)

LEMMA ACPIStart == DInit => ACPIState
<1> SUFFICES ASSUME DInit PROVE ACPIRead(0) /\ pc = "search"
  BY DEF ACPIState, DInit
<1>1. /\ conf.acpi.cpu_count = 0 /\ found_bsp = FALSE /\ pc = "search" /\ machine \in Machine
      /\ conf.acpi.ioapic_irqs = [s \in Slot |-> -1]
  BY DEF DInit, SystemConfig
<1>2. Processors(ACPI, 0) = 0 /\ CPU_MAX \in Nat \ {0}
  BY CountNext, CountAssumption
<1>3. ACPIProcessors(0)
  BY <1>1, <1>2 DEF ACPIProcessors, Stored
<1>4. ACPILines(0)
  <2>1. /\ \A d \in DOMAIN machine.wiring : d \in Line /\ machine.wiring[d] \in Slot
        /\ \A d \in Line : d # -1
    BY <1>1, Wiring, CountAssumption DEF Line
  <2> QED BY <1>1, <2>1 DEF ACPILines
<1> QED BY <1>1, <1>3, <1>4 DEF ACPIRead

\* The processors after one more structure
LEMMA NextLocalApic ==
  ASSUME NEW n \in Nat, n + 1 \in DOMAIN ACPI, machine \in Machine, machine' = machine,
         conf \in Configurations,
         ACPIProcessors(n), found_bsp <=> conf.acpi.cpu_count > 0,
         IF Enabled(ACPI[n + 1]) /\ conf.acpi.cpu_count # CPU_MAX
         THEN /\ conf'.acpi.cpu_count = conf.acpi.cpu_count + 1
              /\ conf'.acpi.lapic_id = [conf.acpi.lapic_id EXCEPT ![conf.acpi.cpu_count] = ACPI[n + 1].id]
              /\ conf'.acpi.bsp_id = IF found_bsp THEN conf.acpi.bsp_id ELSE ACPI[n + 1].id
              /\ found_bsp' = TRUE
         ELSE /\ conf'.acpi.cpu_count = conf.acpi.cpu_count
              /\ conf'.acpi.lapic_id = conf.acpi.lapic_id
              /\ conf'.acpi.bsp_id = conf.acpi.bsp_id
              /\ found_bsp' = found_bsp
  PROVE  ACPIProcessors(n + 1)' /\ (found_bsp' <=> conf'.acpi.cpu_count > 0)
<1> DEFINE p == Processors(ACPI, n)
           q == Processors(ACPI, n + 1)
           e == ACPI[n + 1]
<1>1. /\ CPU_MAX \in Nat \ {0}
      /\ p \in Nat /\ q = IF Enabled(e) THEN p + 1 ELSE p
      /\ ACPI' = ACPI
  BY CountNext, CountAssumption DEF ACPI
<1>2. /\ conf.acpi.cpu_count = IF p > CPU_MAX THEN CPU_MAX ELSE p
      /\ Stored(conf.acpi, ACPI, n)
      /\ conf.acpi.cpu_count > 0 => conf.acpi.bsp_id = machine.bsp
  BY DEF ACPIProcessors
<1>3. conf.acpi.lapic_id \in [0 .. CPU_MAX - 1 -> Byte]
  BY DEF Configurations, Configuration
<1>4. Enabled(e) /\ q = 1 => e.id = machine.bsp
  BY FirmwareAssumption DEF BootProcessor, ACPI
<1> HIDE DEF p, q, e
<1>5. Enabled(e) /\ conf.acpi.cpu_count # CPU_MAX <=> Enabled(e) /\ p < CPU_MAX
  BY <1>1, <1>2
<1>6. conf'.acpi.cpu_count = IF q > CPU_MAX THEN CPU_MAX ELSE q
  BY <1>1, <1>2, <1>5 DEF e
<1>7. conf'.acpi.lapic_id = IF Enabled(e) /\ p < CPU_MAX
                            THEN [conf.acpi.lapic_id EXCEPT ![p] = e.id]
                            ELSE conf.acpi.lapic_id
  BY <1>1, <1>2, <1>5 DEF e
<1>8. Stored(conf'.acpi, ACPI, n + 1)
  BY <1>2, <1>3, <1>7, StoreNext DEF p, e
<1>9. found_bsp' <=> conf'.acpi.cpu_count > 0
  BY <1>1, <1>2, <1>5 DEF e
<1>10. conf'.acpi.cpu_count > 0 => conf'.acpi.bsp_id = machine.bsp
  BY <1>1, <1>2, <1>4, <1>5 DEF e
<1> QED BY <1>1, <1>6, <1>8, <1>9, <1>10 DEF ACPIProcessors, q

\* The lines after one more structure
LEMMA NextOverride ==
  ASSUME NEW n \in Nat, n + 1 \in DOMAIN ACPI, machine \in Machine, machine' = machine,
         conf \in Configurations, ACPILines(n),
         conf'.acpi.ioapic_irqs = IF IsOverride(ACPI[n + 1])
                                  THEN [conf.acpi.ioapic_irqs EXCEPT ![ACPI[n + 1].gsi] = ACPI[n + 1].source]
                                  ELSE conf.acpi.ioapic_irqs
  PROVE  ACPILines(n + 1)'
<1> DEFINE irqs == conf.acpi.ioapic_irqs
           e == ACPI[n + 1]
<1>1. /\ irqs \in [Slot -> Line \cup {-1}] /\ ACPI' = ACPI
      /\ \A d \in DOMAIN machine.wiring : machine.wiring[d] \in Slot
  BY Wiring DEF Configurations, Configuration, ACPI
<1> SUFFICES ASSUME NEW d \in DOMAIN machine.wiring
             PROVE  LET new == conf'.acpi.ioapic_irqs
                    IN  /\ \A s \in Slot : new[s] = d => s = machine.wiring[d]
                        /\ new[machine.wiring[d]] \in {-1, d}
                        /\ (\E k \in 1 .. n + 1 : IsOverride(ACPI[k]) /\ ACPI[k].source = d)
                             => new[machine.wiring[d]] = d
  BY <1>1 DEF ACPILines
<1>2. /\ \A s \in Slot : irqs[s] = d => s = machine.wiring[d]
      /\ irqs[machine.wiring[d]] \in {-1, d}
      /\ (\E k \in 1 .. n : IsOverride(ACPI[k]) /\ ACPI[k].source = d)
           => irqs[machine.wiring[d]] = d
  BY DEF ACPILines
<1>3. IsOverride(e) => (e.source = d <=> e.gsi = machine.wiring[d])
  BY FirmwareAssumption DEF Wires, ACPI
<1>4. \A k \in 1 .. n + 1 : k = n + 1 \/ k \in 1 .. n
  OBVIOUS
<1> HIDE DEF e
<1>5. CASE IsOverride(e)
  <2>1. conf'.acpi.ioapic_irqs = [irqs EXCEPT ![e.gsi] = e.source]
    BY <1>5 DEF e
  <2> QED BY <1>1, <1>2, <1>3, <1>4, <1>5, <2>1 DEF e
<1>6. CASE ~IsOverride(e)
  <2>1. conf'.acpi.ioapic_irqs = irqs
    BY <1>6 DEF e
  <2> QED BY <1>1, <1>2, <1>4, <1>6, <2>1 DEF e
<1> QED BY <1>5, <1>6

\* What has been read is told by the number of structures.
LEMMA ACPIReadUpTo ==
  ASSUME NEW n, Read(ACPI)' = n, ACPIProcessors(n)', ACPILines(n)',
         (found_bsp <=> conf.acpi.cpu_count > 0)'
  PROVE  ACPIRead(Read(ACPI))'
BY DEF ACPIRead, ACPIProcessors, ACPILines, Stored

\* One more structure of the MADT
LEMMA NextStructure ==
  ASSUME DetectTypes, ACPIRead(Read(ACPI)), pc = "madt", rest # << >>,
         LocalApic \/ IOApic("madt", "acpi") \/ SourceOverride \/ OtherStructure
  PROVE  ACPIRead(Read(ACPI))' /\ pc' = "madt"
<1>1. PICK n \in Nat : n = Read(ACPI)
  BY ACPIEntry
<1>2. /\ machine \in Machine /\ conf \in Configurations
      /\ machine' = machine /\ pc' = pc /\ rest' = Tail(rest)
  BY DEF DetectTypes, LocalApic, IOApic, SourceOverride, OtherStructure, NextEntry
<1>3. /\ n + 1 \in DOMAIN ACPI /\ Head(rest) = ACPI[n + 1] /\ Read(ACPI)' = n + 1
      /\ Head(rest) \in APIC_Structure
  BY <1>1, <1>2, ACPIEntry
<1>4. ACPIProcessors(n) /\ ACPILines(n) /\ (found_bsp <=> conf.acpi.cpu_count > 0)
  BY <1>1 DEF ACPIRead
<1> DEFINE e == ACPI[n + 1]
<1>5. ASSUME e.type # "LOCAL_APIC" PROVE ~Enabled(e)
  BY <1>3, <1>5, StructureTypes DEF Enabled
<1>6. ASSUME conf'.acpi.ioapic_irqs = IF IsOverride(e)
                                      THEN [conf.acpi.ioapic_irqs EXCEPT ![e.gsi] = e.source]
                                      ELSE conf.acpi.ioapic_irqs,
             IF Enabled(e) /\ conf.acpi.cpu_count # CPU_MAX
             THEN /\ conf'.acpi.cpu_count = conf.acpi.cpu_count + 1
                  /\ conf'.acpi.lapic_id = [conf.acpi.lapic_id EXCEPT ![conf.acpi.cpu_count] = e.id]
                  /\ conf'.acpi.bsp_id = IF found_bsp THEN conf.acpi.bsp_id ELSE e.id
                  /\ found_bsp' = TRUE
             ELSE /\ conf'.acpi.cpu_count = conf.acpi.cpu_count
                  /\ conf'.acpi.lapic_id = conf.acpi.lapic_id
                  /\ conf'.acpi.bsp_id = conf.acpi.bsp_id
                  /\ found_bsp' = found_bsp
      PROVE  ACPIRead(Read(ACPI))'
  <2>1. ACPIProcessors(n + 1)' /\ (found_bsp' <=> conf'.acpi.cpu_count > 0)
    BY <1>2, <1>3, <1>4, <1>6, NextLocalApic
  <2>2. ACPILines(n + 1)'
    BY <1>2, <1>3, <1>4, <1>6, NextOverride
  <2> QED BY <1>3, <2>1, <2>2, ACPIReadUpTo
<1>7. CASE LocalApic
  <2>1. e.type = "LOCAL_APIC" /\ ~IsOverride(e) /\ (Enabled(e) <=> e.enabled)
    BY <1>3, <1>7 DEF LocalApic, Entry, IsOverride, Enabled
  <2>2. CASE Enabled(e) /\ conf.acpi.cpu_count # CPU_MAX
    <3>1. /\ conf' = [conf EXCEPT !.acpi.cpu_count = @ + 1,
                                  !.acpi.lapic_id[conf.acpi.cpu_count] = e.id,
                                  !.acpi.bsp_id = IF found_bsp THEN @ ELSE e.id]
          /\ found_bsp' = TRUE
      BY <1>2, <1>3, <1>7, <2>1, <2>2 DEF LocalApic, NextEntry, Configurations, Configuration
    <3> HIDE DEF e
    <3>2. /\ conf'.acpi.cpu_count = conf.acpi.cpu_count + 1
          /\ conf'.acpi.lapic_id = [conf.acpi.lapic_id EXCEPT ![conf.acpi.cpu_count] = e.id]
          /\ conf'.acpi.bsp_id = IF found_bsp THEN conf.acpi.bsp_id ELSE e.id
          /\ conf'.acpi.ioapic_irqs = conf.acpi.ioapic_irqs
      BY <1>2, <3>1 DEF Configurations, Configuration
    <3> QED BY <1>2, <1>6, <2>1, <2>2, <3>1, <3>2
  <2>3. CASE ~(Enabled(e) /\ conf.acpi.cpu_count # CPU_MAX)
    <3>1. conf' = conf /\ found_bsp' = found_bsp
      BY <1>3, <1>7, <2>1, <2>3 DEF LocalApic, NextEntry
    <3> QED BY <1>2, <1>6, <2>1, <2>3, <3>1
  <2> QED BY <2>2, <2>3
<1>8. CASE IOApic("madt", "acpi")
  <2>1. /\ e.type = "IO_APIC" /\ ~IsOverride(e) /\ found_bsp' = found_bsp
        /\ conf' = [conf EXCEPT !.acpi.ioapic_id = Head(rest).id]
    BY <1>3, <1>8 DEF IOApic, Entry, IsOverride, NextEntry
  <2>2. /\ conf'.acpi.cpu_count = conf.acpi.cpu_count
        /\ conf'.acpi.lapic_id = conf.acpi.lapic_id
        /\ conf'.acpi.bsp_id = conf.acpi.bsp_id
        /\ conf'.acpi.ioapic_irqs = conf.acpi.ioapic_irqs
    BY <1>2, <2>1 DEF Configurations, Configuration
  <2> QED BY <1>2, <1>5, <1>6, <2>1, <2>2
<1>9. CASE SourceOverride
  <2>1. /\ e.type = "SOURCE_OVERRIDE" /\ found_bsp' = found_bsp
        /\ conf' = IF IsOverride(e) THEN [conf EXCEPT !.acpi.ioapic_irqs[e.gsi] = e.source] ELSE conf
    BY <1>3, <1>9 DEF SourceOverride, Entry, NextEntry
  <2>2. ~Enabled(e)
    BY <1>5, <2>1
  <2> HIDE DEF e
  <2>3. /\ conf'.acpi.cpu_count = conf.acpi.cpu_count
        /\ conf'.acpi.lapic_id = conf.acpi.lapic_id
        /\ conf'.acpi.bsp_id = conf.acpi.bsp_id
        /\ conf'.acpi.ioapic_irqs = IF IsOverride(e)
                                    THEN [conf.acpi.ioapic_irqs EXCEPT ![e.gsi] = e.source]
                                    ELSE conf.acpi.ioapic_irqs
    BY <1>2, <2>1 DEF Configurations, Configuration
  <2> QED BY <1>2, <1>6, <2>1, <2>2, <2>3
<1>10. CASE OtherStructure
  <2>1. /\ e.type \notin {"LOCAL_APIC", "SOURCE_OVERRIDE"} /\ ~IsOverride(e)
        /\ found_bsp' = found_bsp /\ conf' = conf
    BY <1>3, <1>10 DEF OtherStructure, IsOverride, NextEntry
  <2> QED BY <1>2, <1>5, <1>6, <2>1
<1> QED BY <1>2, <1>7, <1>8, <1>9, <1>10

\* What follows a structure of length zero does not matter.
LEMMA EndOfMADT ==
  ASSUME DetectTypes, ACPIRead(Read(ACPI)), MADTRead
  PROVE  ACPIRead(Len(ACPI))' /\ pc' = "map"
<1>1. /\ pc = "madt" /\ ~(rest # << >> /\ Head(rest).type # "EMPTY") /\ pc' = "map"
      /\ UNCHANGED <<machine, found_bsp, conf>> /\ machine \in Machine
      /\ ACPI \in Seq(APIC_Structure) /\ RestOf(ACPI) /\ rest \in Seq(APIC_Structure)
  BY Tables DEF MADTRead, DetectTypes, ReadingACPI, ACPI
<1>2. PICK n \in 0 .. Len(ACPI) : n = Read(ACPI)
  BY <1>1 DEF RestOf, IsRest, Read
<1>3. ASSUME NEW k \in n + 1 .. Len(ACPI)
      PROVE  ~Enabled(ACPI[k]) /\ ~IsOverride(ACPI[k])
  <2>1. rest # << >>
    <3>1. n # Len(ACPI)
      BY <1>2, <1>3
    <3> QED BY <1>1, <1>2, <3>1 DEF Read
  <2>2. n + 1 \in DOMAIN ACPI /\ Head(rest) = ACPI[n + 1] /\ Head(rest) \in APIC_Structure
    BY <1>1, <1>2, <2>1, ACPIEntry
  <2>3. ACPI[n + 1].type = "EMPTY"
    BY <1>1, <2>1, <2>2
  <2>4. CASE k = n + 1
    BY <2>3, <2>4 DEF Enabled, IsOverride
  <2>5. CASE k # n + 1
    <3>1. k \in DOMAIN ACPI /\ n + 1 < k
      BY <1>1, <1>2, <1>3, <2>5
    <3>2. NothingBehind(machine)
      BY <1>1, FirmwareAssumption
    <3> QED BY <2>2, <2>3, <3>1, <3>2 DEF NothingBehind, ACPI
  <2> QED BY <2>4, <2>5
<1>4. Len(ACPI) \in Nat /\ ACPI' = ACPI
  BY <1>1 DEF ACPI
<1>5. Processors(ACPI, Len(ACPI)) = Processors(ACPI, n)
  BY <1>2, <1>3, <1>4, CountUp
<1>6. \A k \in 1 .. Len(ACPI) : k \in 1 .. n \/ k \in n + 1 .. Len(ACPI)
  BY <1>2, <1>4
<1>7. ACPIProcessors(n) /\ ACPILines(n) /\ (found_bsp <=> conf.acpi.cpu_count > 0)
  BY <1>2 DEF ACPIRead
<1>8. ACPIProcessors(Len(ACPI))
  BY <1>3, <1>5, <1>6, <1>7 DEF ACPIProcessors, Stored
<1>9. ACPILines(Len(ACPI))
  BY <1>3, <1>6, <1>7 DEF ACPILines
<1>10. ACPIRead(Len(ACPI))
  BY <1>7, <1>8, <1>9 DEF ACPIRead
<1> QED BY <1>1, <1>4, <1>10 DEF ACPIRead, ACPIProcessors, ACPILines, Stored

LEMMA MADTFound ==
  ASSUME DetectTypes, ACPIRead(0), FindMADT
  PROVE  \/ pc' = "madt" /\ ACPIRead(Read(ACPI))'
         \/ pc' = "map" /\ ACPIRead(Len(ACPI))'
<1>1. /\ machine \in Machine /\ conf \in Configurations /\ machine' = machine
      /\ ACPI' = ACPI /\ found_bsp' = found_bsp /\ ACPI \in Seq(APIC_Structure)
  BY Tables DEF FindMADT, DetectTypes, ACPI
<1>2. CASE ~HasMADT(machine)
  <2>1. pc' = "map" /\ conf' = conf
    BY <1>2 DEF FindMADT
  <2>2. Len(ACPI) = 0
    BY <1>1, <1>2, FirmwareAssumption DEF SoundTables, ACPI
  <2> QED BY <1>1, <2>1, <2>2 DEF ACPIRead, ACPIProcessors, ACPILines, Stored
<1>3. CASE HasMADT(machine)
  <2> DEFINE x == conf.acpi.disablePICs \/ FoundMADT(machine).PCAT_COMPAT
  <2>1. pc' = "madt" /\ rest' = FoundMADT(machine).entries
        /\ conf' = [conf EXCEPT !.acpi.disablePICs = x]
    BY <1>1, <1>3 DEF FindMADT, Configurations, Configuration
  <2>2. rest' = ACPI
    BY <1>1, <1>3, <2>1, FoundInRSDT DEF ACPI
  <2>3. Read(ACPI)' = 0
    BY <1>1, <2>2, RestAtStart DEF Read
  <2> HIDE DEF x
  <2>4. /\ conf'.acpi.cpu_count = conf.acpi.cpu_count
        /\ conf'.acpi.lapic_id = conf.acpi.lapic_id
        /\ conf'.acpi.bsp_id = conf.acpi.bsp_id
        /\ conf'.acpi.ioapic_irqs = conf.acpi.ioapic_irqs
    BY <1>1, <2>1 DEF Configurations, Configuration
  <2> QED BY <1>1, <2>1, <2>3, <2>4 DEF ACPIRead, ACPIProcessors, ACPILines, Stored
<1> QED BY <1>2, <1>3

\* Lines that no override names have their legacy slots; the last slot of a line
\* is the one that it is wired to.
LEMMA MapGenerated ==
  ASSUME DetectTypes, ACPIRead(Len(ACPI)), generateIRQMap
  PROVE  /\ ACPIProcessors(Len(ACPI))' /\ pc' = "choose"
         /\ \A d \in DOMAIN machine.wiring :
              (IF ACPI = << >> THEN machine.wiring[d] = d ELSE machine.wiring[d] >= d)
                => conf'.acpi.slot_map[d] = machine.wiring[d]
<1>1. /\ machine \in Machine /\ conf \in Configurations /\ machine' = machine /\ pc' = "choose"
      /\ ACPI' = ACPI /\ ACPI \in Seq(APIC_Structure) /\ Wires(machine)
  BY Tables, FirmwareAssumption DEF generateIRQMap, DetectTypes, ACPI
<1> DEFINE old == conf.acpi.ioapic_irqs
           irqs == [s \in Slot |-> IF s \in Line /\ old[s] = -1 THEN s ELSE old[s]]
           slots == [d \in Line |-> IF \E s \in Slot : irqs[s] = d
                                    THEN LastSlot(irqs, d) ELSE conf.acpi.slot_map[d]]
<1>2. conf' = [conf EXCEPT !.acpi.ioapic_irqs = irqs, !.acpi.slot_map = slots]
  BY <1>1 DEF generateIRQMap, Configurations, Configuration
<1>3. old \in [Slot -> Line \cup {-1}] /\ ACPILines(Len(ACPI))
  BY <1>1 DEF Configurations, Configuration, ACPIRead
<1>4. ASSUME NEW d \in DOMAIN machine.wiring,
             IF ACPI = << >> THEN machine.wiring[d] = d ELSE machine.wiring[d] >= d
      PROVE  slots[d] = machine.wiring[d]
  <2> DEFINE w == machine.wiring[d]
  <2>1. d \in Line /\ w \in Slot /\ Line \subseteq Slot /\ (\A s \in Slot : s \in Nat)
    BY <1>1, Wiring, CountAssumption DEF Line, Slot
  <2>2. /\ \A s \in Slot : old[s] = d => s = w
        /\ old[w] \in {-1, d}
        /\ (\E k \in 1 .. Len(ACPI) : IsOverride(ACPI[k]) /\ ACPI[k].source = d) => old[w] = d
    BY <1>3 DEF ACPILines
  <2>3. ACPI # << >> /\ w # d =>
          \E k \in 1 .. Len(ACPI) : IsOverride(ACPI[k]) /\ ACPI[k].source = d
    <3>1. ACPI # << >> /\ w # d =>
          \E k \in DOMAIN ACPI : IsOverride(ACPI[k]) /\ ACPI[k].source = d
      BY <1>1 DEF Wires, ACPI
    <3> QED BY <1>1, <3>1
  <2>4. w >= d
    BY <1>4, <2>1
  <2> HIDE DEF w
  <2>5. irqs[w] = d
    <3>1. CASE old[w] = d
      BY <2>1, <3>1
    <3>2. CASE old[w] # d
      <4>1. w = d
        BY <1>4, <2>2, <2>3, <3>2 DEF w
      <4> QED BY <2>1, <2>2, <3>2, <4>1
    <3> QED BY <3>1, <3>2
  <2>6. ASSUME NEW s \in Slot, irqs[s] = d PROVE s <= w
    <3>1. s = d \/ old[s] = d
      BY <2>6
    <3> QED BY <2>1, <2>2, <2>4, <3>1
  <2> HIDE DEF irqs
  <2>7. /\ LastSlot(irqs, d) \in Slot /\ irqs[LastSlot(irqs, d)] = d
        /\ \A s \in Slot : irqs[s] = d => s <= LastSlot(irqs, d)
    BY <2>1, <2>5, SlotOfLine
  <2>8. LastSlot(irqs, d) <= w /\ w <= LastSlot(irqs, d)
    BY <2>1, <2>5, <2>6, <2>7
  <2>9. LastSlot(irqs, d) = w
    BY <2>1, <2>7, <2>8
  <2> QED BY <2>1, <2>5, <2>9 DEF w
<1> HIDE DEF irqs, slots
<1>5. /\ conf'.acpi.cpu_count = conf.acpi.cpu_count
      /\ conf'.acpi.lapic_id = conf.acpi.lapic_id
      /\ conf'.acpi.bsp_id = conf.acpi.bsp_id
      /\ conf'.acpi.slot_map = slots
  BY <1>1, <1>2 DEF Configurations, Configuration
<1>6. ACPIProcessors(Len(ACPI))'
  BY <1>1, <1>5 DEF ACPIRead, ACPIProcessors, Stored
<1> QED BY <1>1, <1>4, <1>5, <1>6

LEMMA ACPIStateKept == DetectTypes /\ ACPIState /\ detectSystemType => ACPIState'
<1> SUFFICES ASSUME DetectTypes, ACPIState, detectSystemType PROVE ACPIState'
  OBVIOUS
<1>t. /\ machine' = machine /\ machine \in Machine /\ conf \in Configurations
      /\ ACPI' = ACPI
  BY Apart DEF DetectTypes, ACPI
<1>1. CASE pc \in {"search", "mpct"}
  <2>1. /\ conf'.acpi = conf.acpi /\ found_bsp' = found_bsp /\ pc' \in {"search", "mpct", "acpi"}
        /\ ACPIRead(0)
    BY <1>1, Apart DEF ACPIState
  <2>2. ACPIRead(0)'
    BY <1>t, <2>1 DEF ACPIRead, ACPIProcessors, ACPILines, Stored
  <2> QED BY <2>1, <2>2 DEF ACPIState
<1>2. CASE FindMADT
  <2>1. ACPIRead(0)
    BY <1>2 DEF FindMADT, ACPIState
  <2> QED BY <1>2, <2>1, MADTFound DEF ACPIState
<1>3. CASE pc = "madt" /\ rest # << >> /\ ~MADTRead
  <2>1. LocalApic \/ IOApic("madt", "acpi") \/ SourceOverride \/ OtherStructure
    BY <1>3 DEF detectSystemType, searchConfig, Processor, IOApic, IOInterrupt, OtherEntry, MPCTRead,
                FindMADT, generateIRQMap, Choose, Entry
  <2>2. ACPIRead(Read(ACPI))
    BY <1>3 DEF ACPIState
  <2> QED BY <1>3, <2>1, <2>2, NextStructure DEF ACPIState
<1>4. CASE MADTRead
  <2>1. ACPIRead(Read(ACPI))
    BY <1>4 DEF MADTRead, ACPIState
  <2> QED BY <1>4, <2>1, EndOfMADT DEF ACPIState
<1>5. CASE generateIRQMap
  <2>1. ACPIRead(Len(ACPI))
    BY <1>5 DEF generateIRQMap, ACPIState
  <2> QED BY <1>5, <1>t, <2>1, MapGenerated DEF ACPIState
<1>6. CASE Choose
  <2>1. /\ pc = "choose" /\ pc' = "detected"
        /\ conf' = conf \/ conf' = [conf EXCEPT ![sys_conf'].cpu_count = 1]
        /\ sys_conf' \in {"mps", "acpi"}
    BY <1>6 DEF Choose
  <2>2. conf'.acpi.slot_map = conf.acpi.slot_map
    BY <1>t, <2>1 DEF Configurations, Configuration
  <2> QED BY <1>t, <2>1, <2>2 DEF ACPIState
<1> QED BY <1>1, <1>2, <1>3, <1>4, <1>5, <1>6
        DEF detectSystemType, searchConfig, Processor, IOApic, IOInterrupt, OtherEntry, MPCTRead,
            LocalApic, SourceOverride, OtherStructure, Entry

-----------------------------------------------------------------------------
(* The slots of the devices                                                *)

\* The configuration that is chosen has the slots of its table.
LEMMA SlotsChosen ==
  ASSUME DetectTypes, SlotsRead, ACPIState, Choose
  PROVE  SlotsAsWired'
<1>1. /\ machine \in Machine /\ conf \in Configurations /\ machine' = machine /\ pc = "choose"
      /\ Wires(machine) /\ MPS \in Seq(mpct_entry)
  BY Tables, FirmwareAssumption DEF Choose, DetectTypes, MPS
<1>2. /\ sys_conf' = IF conf.acpi.cpu_count >= conf.mps.cpu_count THEN "acpi" ELSE "mps"
      /\ conf' = conf \/ conf' = [conf EXCEPT ![sys_conf'].cpu_count = 1]
  BY DEF Choose
<1> SUFFICES ASSUME NEW d \in DOMAIN machine.wiring, SlotKnown(d)'
             PROVE  (getIOAPICSlot(d) = machine.wiring[d])'
  BY <1>1 DEF SlotsAsWired
<1>3. d \in Line /\ machine.wiring[d] \in Slot /\ machine.wiring[d] % 256 = machine.wiring[d]
  <2>1. d \in Line /\ machine.wiring[d] \in Slot
    BY <1>1, Wiring
  <2>2. machine.wiring[d] \in 0 .. 255
    BY <2>1, CountAssumption DEF Slot
  <2> QED BY <2>1, <2>2
<1>4. CASE sys_conf' = "acpi"
  <2>1. conf'.acpi.slot_map = conf.acpi.slot_map
    BY <1>1, <1>2, <1>4 DEF Configurations, Configuration
  <2>2. IF ACPI = << >> THEN machine.wiring[d] = d ELSE machine.wiring[d] >= d
    BY <1>1, <1>4 DEF SlotKnown, ACPI
  <2>3. conf.acpi.slot_map[d] = machine.wiring[d]
    BY <1>1, <2>2 DEF ACPIState
  <2> QED BY <1>1, <1>3, <1>4, <2>1, <2>3 DEF getIOAPICSlot
<1>5. CASE sys_conf' = "mps"
  <2>1. conf'.mps.slot_map = conf.mps.slot_map
    BY <1>1, <1>2, <1>5 DEF Configurations, Configuration
  <2>2. conf.mps.cpu_count > 0
    <3>1. conf.mps.cpu_count \in Nat /\ conf.acpi.cpu_count \in Nat
      BY <1>1 DEF Configurations, Configuration
    <3> QED BY <1>2, <1>5, <3>1
  <2>3. MPSSlots(Len(MPS)) /\ MPS # << >>
    BY <1>1, <2>2 DEF SlotsRead
  <2>4. PICK k \in DOMAIN MPS : IsISA(MPS[k]) /\ MPS[k].srcbusirq = d
    BY <1>1, <2>3 DEF Wires, MPS
  <2>5. conf.mps.slot_map[d] = machine.wiring[d]
    BY <1>1, <2>3, <2>4 DEF MPSSlots
  <2> QED BY <1>1, <1>3, <1>5, <2>1, <2>5 DEF getIOAPICSlot
<1> QED BY <1>2, <1>4, <1>5

LEMMA SlotsStart == DInit => SlotsRead /\ SlotsAsWired
<1> SUFFICES ASSUME DInit PROVE SlotsRead /\ SlotsAsWired
  OBVIOUS
<1>1. pc = "search" /\ conf.mps.cpu_count = 0
  BY DEF DInit, SystemConfig
<1> QED BY <1>1 DEF SlotsRead, SlotsAsWired

LEMMA SlotInvariant == SlotInv /\ detectSystemType => SlotInv'
<1> SUFFICES ASSUME SlotInv, detectSystemType PROVE SlotInv'
  OBVIOUS
<1>1. DetectTypes' /\ SlotsRead' /\ ACPIState'
  BY TypesKept, SlotsReadKept, ACPIStateKept DEF SlotInv
<1>2. SlotsAsWired'
  <2>1. CASE Choose
    BY <2>1, SlotsChosen DEF SlotInv
  <2>2. CASE ~Choose
    <3>1. pc' # "detected"
      BY <2>2, Apart DEF SlotInv, detectSystemType, searchConfig, Processor, IOApic, IOInterrupt,
         OtherEntry, MPCTRead, FindMADT, LocalApic, SourceOverride, OtherStructure, MADTRead,
         generateIRQMap, Entry
    <3> QED BY <3>1 DEF SlotsAsWired
  <2> QED BY <2>1, <2>2
<1> QED BY <1>1, <1>2 DEF SlotInv

-----------------------------------------------------------------------------
(* The processors of the MP table                                          *)

\* What an entry of the MP table changes in the processors
Counts(e) ==
  IF Enabled(e)
  THEN /\ conf'.mps.cpu_count = conf.mps.cpu_count + 1
       /\ conf'.mps.bsp_id = IF e.boot THEN e.id ELSE conf.mps.bsp_id
       /\ conf'.mps.lapic_id = IF conf.mps.cpu_count < CPU_MAX
            THEN [conf.mps.lapic_id EXCEPT ![conf.mps.cpu_count] = e.id]
            ELSE conf.mps.lapic_id
  ELSE /\ conf'.mps.cpu_count = conf.mps.cpu_count
       /\ conf'.mps.lapic_id = conf.mps.lapic_id
       /\ conf'.mps.bsp_id = conf.mps.bsp_id

\* The processors after one more entry
LEMMA NextProcessor ==
  ASSUME NEW n \in Nat, n + 1 \in DOMAIN MPS, machine \in Machine, machine' = machine,
         conf \in Configurations, MPSProcessors(n), Counts(MPS[n + 1])
  PROVE  MPSProcessors(n + 1)'
<1> DEFINE p == Processors(MPS, n)
           q == Processors(MPS, n + 1)
           e == MPS[n + 1]
<1>1. /\ p \in Nat /\ q = IF Enabled(e) THEN p + 1 ELSE p
      /\ MPS' = MPS
  BY CountNext DEF MPS
<1>2. /\ conf.mps.cpu_count = p
      /\ Stored(conf.mps, MPS, n)
      /\ (\E k \in 1 .. n : Enabled(MPS[k]) /\ MPS[k].boot) => conf.mps.bsp_id = machine.bsp
  BY DEF MPSProcessors, MPSKnown
<1>3. conf.mps.lapic_id \in [0 .. CPU_MAX - 1 -> Byte]
  BY DEF Configurations, Configuration
<1>4. Enabled(e) /\ e.boot => e.id = machine.bsp
  BY FirmwareAssumption DEF BootProcessor, MPS
<1>5. conf'.mps.cpu_count = q
  BY <1>1, <1>2 DEF Counts
<1>6. conf'.mps.lapic_id = IF Enabled(e) /\ p < CPU_MAX
                           THEN [conf.mps.lapic_id EXCEPT ![p] = e.id]
                           ELSE conf.mps.lapic_id
  BY <1>2 DEF Counts
<1> HIDE DEF p, q
<1>7. Stored(conf'.mps, MPS, n + 1)
  BY <1>2, <1>3, <1>6, StoreNext DEF p
<1>8. (\E k \in 1 .. n + 1 : Enabled(MPS[k]) /\ MPS[k].boot) => conf'.mps.bsp_id = machine.bsp
  <2>1. \A k \in 1 .. n + 1 : k = n + 1 \/ k \in 1 .. n
    OBVIOUS
  <2> HIDE DEF e
  <2>2. Enabled(e) => conf'.mps.bsp_id = IF e.boot THEN e.id ELSE conf.mps.bsp_id
    BY DEF e, Counts
  <2>3. ~Enabled(e) => conf'.mps.bsp_id = conf.mps.bsp_id
    BY DEF e, Counts
  <2> QED BY <1>2, <1>4, <2>1, <2>2, <2>3 DEF e
<1> QED BY <1>1, <1>5, <1>7, <1>8 DEF MPSProcessors, MPSKnown, q

\* When the table of one processor is read again, the processor keeps its place.
LEMMA NextAgain ==
  ASSUME NEW n \in Nat, n + 1 \in DOMAIN MPS, machine \in Machine, machine' = machine,
         conf \in Configurations, MPSAgain(n), Counts(MPS[n + 1])
  PROVE  MPSAgain(n + 1)'
<1> DEFINE p == Processors(MPS, n)
           q == Processors(MPS, n + 1)
           e == MPS[n + 1]
           l == conf.mps.lapic_id
<1>1. /\ p \in Nat /\ q = IF Enabled(e) THEN p + 1 ELSE p
      /\ MPS' = MPS /\ MPS \in Seq(mpct_entry)
  BY CountNext, Tables DEF MPS
<1>2. /\ Described(MPS) = 1 /\ conf.mps.cpu_count = p + 1
      /\ Stored(conf.mps, MPS, Len(MPS))
      /\ (\E k \in 1 .. Len(MPS) : Enabled(MPS[k]) /\ MPS[k].boot) => conf.mps.bsp_id = machine.bsp
  BY DEF MPSAgain, MPSKnown
<1>3. l \in [0 .. CPU_MAX - 1 -> Byte] /\ Len(MPS) \in Nat
  BY <1>1 DEF Configurations, Configuration
<1>4. Enabled(e) /\ e.boot => e.id = machine.bsp
  BY FirmwareAssumption DEF BootProcessor, MPS
<1>5. conf'.mps.cpu_count = q + 1
  BY <1>1, <1>2 DEF Counts
<1>6. \/ conf'.mps.lapic_id = l
      \/ conf'.mps.lapic_id = [l EXCEPT ![p + 1] = e.id]
  BY <1>2 DEF Counts
<1>7. \/ conf'.mps.bsp_id = conf.mps.bsp_id
      \/ Enabled(e) /\ e.boot /\ conf'.mps.bsp_id = e.id
  BY DEF Counts
<1> HIDE DEF p, q, e, l
<1>8. Stored(conf'.mps, MPS, Len(MPS))
  <2> SUFFICES ASSUME NEW k \in 1 .. Len(MPS), Enabled(MPS[k]), Processors(MPS, k) <= CPU_MAX
               PROVE  conf'.mps.lapic_id[Processors(MPS, k) - 1] = MPS[k].id
    BY DEF Stored
  <2>1. /\ Processors(MPS, k) \in Nat /\ Processors(MPS, k) <= 1 /\ Processors(MPS, k) > 0
    BY <1>2, <1>3, CountUp, k \in 0 .. Len(MPS) DEF Described
  <2>2. Processors(MPS, k) = 1
    BY <2>1
  <2>3. l[0] = MPS[k].id /\ 0 \in 0 .. CPU_MAX - 1
    BY <1>2, <2>2, CountAssumption DEF Stored, l
  <2>4. conf'.mps.lapic_id[0] = l[0]
    <3>1. p + 1 \in Nat /\ p + 1 # 0
      BY <1>1
    <3>2. CASE conf'.mps.lapic_id = l
      BY <3>2
    <3>3. CASE conf'.mps.lapic_id = [l EXCEPT ![p + 1] = e.id]
      <4> DEFINE r == p + 1
      <4> HIDE DEF r
      <4>1. r # 0 /\ conf'.mps.lapic_id = [l EXCEPT ![r] = e.id]
        BY <3>1, <3>3 DEF r
      <4> QED BY <1>3, <2>3, <4>1
    <3> QED BY <1>6, <3>2, <3>3
  <2> QED BY <2>2, <2>3, <2>4
<1>9. (\E k \in 1 .. Len(MPS) : Enabled(MPS[k]) /\ MPS[k].boot) => conf'.mps.bsp_id = machine.bsp
  BY <1>2, <1>4, <1>7
<1> QED BY <1>1, <1>2, <1>5, <1>8, <1>9 DEF MPSAgain, MPSKnown, q

\* One more entry of the MP table
LEMMA EntryOfMPS ==
  ASSUME DetectTypes, NEW n \in Nat, n = Read(MPS), pc = "mpct", rest # << >>,
         Processor \/ IOApic("mpct", "mps") \/ IOInterrupt \/ OtherEntry
  PROVE  /\ machine \in Machine /\ conf \in Configurations
         /\ pc' = "mpct" /\ UNCHANGED <<machine, area>> /\ TableIn(area) /\ TableIn(area)'
         /\ n + 1 \in DOMAIN MPS /\ Read(MPS)' = n + 1
         /\ Counts(MPS[n + 1])
<1>1. /\ machine \in Machine /\ conf \in Configurations
      /\ machine' = machine /\ pc' = pc /\ area' = area /\ rest' = Tail(rest)
  BY DEF DetectTypes, Processor, IOApic, IOInterrupt, OtherEntry, NextEntry
<1>2. /\ n + 1 \in DOMAIN MPS /\ Head(rest) = MPS[n + 1] /\ Read(MPS)' = n + 1
      /\ Head(rest) \in mpct_entry /\ TableIn(area)
  BY <1>1, MPEntry
<1>3. TableIn(area)'
  BY <1>1, <1>2 DEF TableIn
<1> DEFINE e == MPS[n + 1]
<1> SUFFICES Counts(e)
  BY <1>1, <1>2, <1>3
<1>4. ASSUME e.type # "PROCESSOR" PROVE ~Enabled(e)
  BY <1>2, <1>4, MPEntryTypes DEF Enabled
<1>5. ASSUME ~Enabled(e),
             conf'.mps.cpu_count = conf.mps.cpu_count,
             conf'.mps.lapic_id = conf.mps.lapic_id,
             conf'.mps.bsp_id = conf.mps.bsp_id
      PROVE  Counts(e)
  BY <1>5 DEF Counts
<1>6. CASE Processor
  <2>1. e.type = "PROCESSOR" /\ (Enabled(e) <=> e.enabled)
    BY <1>2, <1>6 DEF Processor, Entry, Enabled
  <2>2. CASE Enabled(e)
    <3> DEFINE b == IF e.boot THEN e.id ELSE conf.mps.bsp_id
               l == IF conf.mps.cpu_count < CPU_MAX
                    THEN [conf.mps.lapic_id EXCEPT ![conf.mps.cpu_count] = e.id]
                    ELSE conf.mps.lapic_id
    <3>1. conf' = [conf EXCEPT !.mps.cpu_count = @ + 1, !.mps.bsp_id = b, !.mps.lapic_id = l]
      BY <1>1, <1>2, <1>6, <2>1, <2>2 DEF Processor, NextEntry, Configurations, Configuration
    <3> HIDE DEF b, l
    <3>2. /\ conf'.mps.cpu_count = conf.mps.cpu_count + 1
          /\ conf'.mps.bsp_id = b /\ conf'.mps.lapic_id = l
      BY <1>1, <3>1 DEF Configurations, Configuration
    <3> QED BY <2>2, <3>2 DEF Counts, b, l
  <2>3. CASE ~Enabled(e)
    <3>1. conf' = conf
      BY <1>2, <1>6, <2>1, <2>3 DEF Processor, NextEntry
    <3> QED BY <1>5, <2>3, <3>1
  <2> QED BY <2>2, <2>3
<1>7. CASE IOApic("mpct", "mps")
  <2>1. e.type = "IO_APIC" /\ conf' = [conf EXCEPT !.mps.ioapic_id = Head(rest).id]
    BY <1>2, <1>7 DEF IOApic, Entry, NextEntry
  <2>2. /\ conf'.mps.cpu_count = conf.mps.cpu_count
        /\ conf'.mps.lapic_id = conf.mps.lapic_id
        /\ conf'.mps.bsp_id = conf.mps.bsp_id
    BY <1>1, <2>1 DEF Configurations, Configuration
  <2> QED BY <1>4, <1>5, <2>1, <2>2
<1>8. CASE IOInterrupt
  <2>1. /\ e.type = "IOINT"
        /\ conf' = IF IsISA(e) THEN [conf EXCEPT !.mps.ioapic_irqs[e.dstirq] = e.srcbusirq,
                                                 !.mps.slot_map[e.srcbusirq] = e.dstirq] ELSE conf
    BY <1>2, <1>8 DEF IOInterrupt, Entry, NextEntry
  <2>2. ~Enabled(e)
    BY <1>4, <2>1
  <2> HIDE DEF e
  <2>3. /\ conf'.mps.cpu_count = conf.mps.cpu_count
        /\ conf'.mps.lapic_id = conf.mps.lapic_id
        /\ conf'.mps.bsp_id = conf.mps.bsp_id
    BY <1>1, <2>1 DEF Configurations, Configuration
  <2> QED BY <1>5, <2>2, <2>3
<1>9. CASE OtherEntry
  <2>1. e.type # "PROCESSOR" /\ conf' = conf
    BY <1>2, <1>9 DEF OtherEntry, Entry, NextEntry
  <2> QED BY <1>4, <1>5, <2>1
<1> QED BY <1>6, <1>7, <1>8, <1>9

LEMMA NextOfMPS ==
  ASSUME DetectTypes, Reading, pc = "mpct", rest # << >>,
         Processor \/ IOApic("mpct", "mps") \/ IOInterrupt \/ OtherEntry
  PROVE  Reading' /\ pc' = "mpct" /\ TableIn(area)'
<1>1. PICK n \in Nat : n = Read(MPS)
  BY MPEntry
<1>2. /\ machine \in Machine /\ conf \in Configurations
      /\ pc' = "mpct" /\ UNCHANGED <<machine, area>> /\ TableIn(area)'
      /\ n + 1 \in DOMAIN MPS /\ Read(MPS)' = n + 1
      /\ Counts(MPS[n + 1])
  BY <1>1, EntryOfMPS
<1>3. /\ Described(MPS)' = Described(MPS)
      /\ Met(area)' <=> Met(area)
  BY <1>2 DEF MPS, Met, TableIn
<1>4. CASE MPSProcessors(Read(MPS)) /\ (Described(MPS) = 0 \/ ~Met(area))
  <2>1. MPSProcessors(n)
    BY <1>1, <1>4
  <2>2. MPSProcessors(n + 1)'
    BY <1>2, <2>1, NextProcessor
  <2>3. MPSProcessors(Read(MPS))'
    BY <1>2, <2>2 DEF MPSProcessors, MPSKnown, Stored
  <2> QED BY <1>2, <1>3, <1>4, <2>3 DEF Reading
<1>5. CASE MPSAgain(Read(MPS)) /\ Met(area)
  <2>1. MPSAgain(n)
    BY <1>1, <1>5
  <2>2. MPSAgain(n + 1)'
    BY <1>2, <2>1, NextAgain
  <2>3. MPSAgain(Read(MPS))'
    BY <1>2, <2>2 DEF MPSAgain
  <2> QED BY <1>2, <1>3, <1>5, <2>3 DEF Reading
<1> QED BY <1>4, <1>5 DEF Reading

\* What the boot CPU has counted depends on the machine and the processors only.
LEMMA CountStays ==
  ASSUME machine' = machine,
         conf'.mps.cpu_count = conf.mps.cpu_count,
         conf'.mps.bsp_id = conf.mps.bsp_id,
         conf'.mps.lapic_id = conf.mps.lapic_id
  PROVE  /\ MPS' = MPS /\ Described(MPS)' = Described(MPS)
         /\ \A b : TableIn(b)' <=> TableIn(b)
         /\ \A a : (Met(a)' <=> Met(a)) /\ (Before(a)' <=> Before(a))
         /\ \A n : MPSKnown(n)' <=> MPSKnown(n)
         /\ MPSCounted' <=> MPSCounted
<1>1. MPS' = MPS /\ Described(MPS)' = Described(MPS)
  BY DEF MPS
<1>2. \A b : TableIn(b)' <=> TableIn(b)
  BY DEF TableIn
<1>3. \A n : MPSKnown(n)' <=> MPSKnown(n)
  BY <1>1 DEF MPSKnown, Stored
<1>4. MPSKnown(Len(MPS))' <=> MPSKnown(Len(MPS))
  BY <1>1 DEF MPSKnown, Stored
<1>5. \A a : (Met(a)' <=> Met(a)) /\ (MetOnce(a)' <=> MetOnce(a))
  BY <1>2 DEF Met, MetOnce
<1>6. Counted' = Counted
  BY <1>2 DEF Counted, MetAgain
<1>7. MPSProcessors(Len(MPS))' <=> MPSProcessors(Len(MPS))
  BY <1>1, <1>4 DEF MPSProcessors
<1>8. \A a : Before(a)' <=> Before(a)
  BY <1>1, <1>5, <1>7 DEF Before
<1>9. MPSCounted' <=> MPSCounted
  BY <1>4, <1>6 DEF MPSCounted
<1> QED BY <1>1, <1>2, <1>3, <1>5, <1>8, <1>9

\* The tables and the processors that they describe are counted in numbers.
LEMMA Numbers ==
  ASSUME machine \in Machine
  PROVE  /\ MPS \in Seq(mpct_entry) /\ Len(MPS) \in Nat /\ Described(MPS) \in Nat
         /\ ACPI \in Seq(APIC_Structure) /\ Len(ACPI) \in Nat /\ Described(ACPI) \in Nat
         /\ MPSProcessors(Len(MPS)) => conf.mps.cpu_count = Described(MPS)
<1>1. MPS \in Seq(mpct_entry) /\ ACPI \in Seq(APIC_Structure)
  BY Tables DEF MPS, ACPI
<1>2. Len(MPS) \in Nat /\ Len(ACPI) \in Nat
  BY <1>1
<1> QED BY <1>1, <1>2, CountNext DEF Described, MPSProcessors

\* When all areas have been searched, the table has been met, or there is none.
LEMMA BeforeEnd ==
  ASSUME DetectTypes, Before(Areas + 1)
  PROVE  MPSCounted
<1>1. machine \in Machine /\ SoundTables(machine)
  BY FirmwareAssumption DEF DetectTypes
<1>2. \A b \in 1 .. Areas : b < Areas + 1
  BY DEF Areas
<1>3. Counted["mps"] = IF MetAgain THEN 2 ELSE Described(MPS)
  BY DEF Counted, MPS
<1>4. MetAgain => /\ Described(MPS) = 1
                  /\ \E a, b \in 1 .. Areas : a # b /\ TableIn(a) /\ TableIn(b)
  BY DEF MetAgain, MPS
<1>5. CASE conf.mps.cpu_count = 0 /\ ~Met(Areas + 1)
  <2>1. \A b \in 1 .. Areas : ~TableIn(b)
    BY <1>2, <1>5 DEF Met
  <2>2. MPS = << >>
    BY <1>1, <2>1 DEF SoundTables, TableIn, MPS
  <2>3. Len(MPS) = 0
    BY <2>2
  <2>4. Described(MPS) = 0
    BY <2>3, CountNext DEF Described
  <2>5. 1 .. 0 = {}
    OBVIOUS
  <2>6. MPSKnown(Len(MPS))
    BY <2>3, <2>5 DEF MPSKnown, Stored
  <2> QED BY <1>3, <1>4, <1>5, <2>4, <2>6 DEF MPSCounted
<1>6. CASE MPSProcessors(Len(MPS)) /\ Described(MPS) = 0
  BY <1>1, <1>3, <1>4, <1>6, Numbers DEF MPSCounted, MPSProcessors
<1>7. CASE MPSProcessors(Len(MPS)) /\ Described(MPS) = 1 /\ MetOnce(Areas + 1)
  <2>1. ~MetAgain
    BY <1>2, <1>4, <1>7 DEF MetOnce
  <2> QED BY <1>1, <1>3, <1>7, <2>1, Numbers DEF MPSCounted, MPSProcessors
<1> QED BY <1>5, <1>6, <1>7 DEF Before

\* The next area is searched.
LEMMA SearchOn ==
  ASSUME DetectTypes, pc \in {"search", "mpct"}, NextArea,
         machine' = machine, conf' = conf, NEW a \in Nat, a = area + 1, Before(a)
  PROVE  ProcessorsRead'
<1>1. area \in 1 .. Areas /\ area' = a /\ Before(a)'
  BY CountStays DEF DetectTypes, NextArea, Areas
<1>2. CASE area = Areas
  <2>1. pc' = "acpi" /\ a = Areas + 1
    BY <1>2 DEF NextArea
  <2>2. MPSCounted
    BY <2>1, BeforeEnd
  <2>3. MPSCounted'
    BY <2>2, CountStays
  <2> QED BY <2>1, <2>3 DEF ProcessorsRead
<1>3. CASE area # Areas
  <2>1. pc' = "search"
    BY <1>3 DEF NextArea
  <2>2. Before(area)'
    BY <1>1 DEF Before, Met, MetOnce
  <2> QED BY <2>1, <2>2 DEF ProcessorsRead
<1> QED BY <1>2, <1>3

\* An area without a table does not change what has been met.
LEMMA NotMet ==
  ASSUME NEW a \in 1 .. Areas, ~TableIn(a), Before(a)
  PROVE  Before(a + 1)
<1>1. \A b \in 1 .. Areas : b < a + 1 /\ TableIn(b) <=> b < a /\ TableIn(b)
  BY DEF Areas
<1>2. (Met(a + 1) <=> Met(a)) /\ (MetOnce(a + 1) <=> MetOnce(a))
  BY <1>1 DEF Met, MetOnce
<1> QED BY <1>2 DEF Before

\* A valid structure of the MP specification is found.
LEMMA FoundMPS ==
  ASSUME DetectTypes, ProcessorsRead, searchConfig, HasMPFPS(machine, area)
  PROVE  ProcessorsRead'
<1>1. /\ pc = "search" /\ area \in 1 .. Areas /\ pc' = "mpct" /\ UNCHANGED <<machine, area>>
      /\ conf'.mps.cpu_count = conf.mps.cpu_count
      /\ conf'.mps.bsp_id = conf.mps.bsp_id
      /\ conf'.mps.lapic_id = conf.mps.lapic_id
      /\ TableIn(area)' <=> TableIn(area)
      /\ machine \in Machine
  BY AreaSearched DEF DetectTypes
<1>2. Before(area)
  BY <1>1 DEF ProcessorsRead
<1>3. /\ MPS' = MPS /\ Described(MPS)' = Described(MPS)
      /\ \A a : (Met(a)' <=> Met(a)) /\ (Before(a)' <=> Before(a))
      /\ \A n : MPSKnown(n)' <=> MPSKnown(n)
  BY <1>1, CountStays
<1>4. CASE TableIn(area)
  <2>1. Read(MPS)' = 0
    BY <1>4, AreaSearched
  <2>2. Processors(MPS, 0) = 0 /\ 1 .. 0 = {} /\ (Met(area)' <=> Met(area))
    BY <1>1, CountNext DEF Met, TableIn
  <2>3. CASE conf.mps.cpu_count = 0 /\ (Described(MPS) = 0 \/ ~Met(area))
    <3>1. MPSProcessors(Read(MPS))'
      BY <1>1, <1>3, <2>1, <2>2, <2>3 DEF MPSProcessors, MPSKnown, Stored
    <3> QED BY <1>1, <1>3, <1>4, <2>2, <2>3, <3>1 DEF ProcessorsRead, Reading
  <2>4. CASE MPSProcessors(Len(MPS)) /\ Described(MPS) = 1 /\ MetOnce(area)
    <3>1. conf.mps.cpu_count = 1 /\ Met(area)
      BY <1>1, <2>4, Numbers DEF MetOnce, Met
    <3>2. MPSKnown(Len(MPS))'
      BY <1>1, <1>3, <2>4 DEF MPSProcessors, MPSKnown, Stored
    <3>3. MPSAgain(Read(MPS))'
      BY <1>1, <1>3, <2>1, <2>2, <2>4, <3>1, <3>2 DEF MPSAgain
    <3> QED BY <1>1, <1>4, <2>2, <3>1, <3>3 DEF ProcessorsRead, Reading
  <2>5. MPSProcessors(Len(MPS)) => conf.mps.cpu_count = Described(MPS)
    BY <1>1, Numbers
  <2> QED BY <1>2, <2>3, <2>4, <2>5 DEF Before
<1>5. CASE ~TableIn(area)
  <2>1. Before(area + 1)
    BY <1>1, <1>2, <1>5, NotMet
  <2>2. Before(area + 1)'
    BY <1>1, <1>3, <2>1 DEF Before, Met, MetOnce
  <2> QED BY <1>1, <1>5, <2>2 DEF ProcessorsRead
<1> QED BY <1>4, <1>5

\* A table has been read to its end.
LEMMA EndOfMPS ==
  ASSUME DetectTypes, ProcessorsRead, MPCTRead
  PROVE  ProcessorsRead'
<1>1. /\ pc = "mpct" /\ rest = << >> /\ area \in 1 .. Areas /\ machine \in Machine
      /\ machine' = machine /\ conf' = conf
  BY DEF MPCTRead, DetectTypes, Areas
<1>2. PICK a \in Nat : a = area + 1
  BY <1>1
<1>3. /\ Described(MPS) \in Nat /\ Len(MPS) \in Nat
      /\ MPSProcessors(Len(MPS)) => conf.mps.cpu_count = Described(MPS)
  BY <1>1, Numbers
<1>4. Counted["mps"] = IF MetAgain THEN 2 ELSE Described(MPS)
  BY DEF Counted, MPS
<1>5. ASSUME conf.mps.cpu_count > 1, MPSCounted PROVE ProcessorsRead'
  <2>1. MPSCounted' /\ pc' = "acpi"
    BY <1>1, <1>5, CountStays DEF MPCTRead
  <2> QED BY <2>1 DEF ProcessorsRead
<1>6. ASSUME ~(conf.mps.cpu_count > 1), Before(a) PROVE ProcessorsRead'
  <2>1. NextArea
    BY <1>6 DEF MPCTRead
  <2> QED BY <1>1, <1>2, <1>6, <2>1, SearchOn
<1>7. CASE TableIn(area)
  <2>1. Read(MPS) = Len(MPS) /\ Reading
    BY <1>1, <1>3, <1>7 DEF Read, ProcessorsRead
  <2>2. CASE MPSProcessors(Len(MPS)) /\ (Described(MPS) = 0 \/ ~Met(area))
    <3>1. conf.mps.cpu_count = Described(MPS)
      BY <1>3, <2>2
    <3>2. CASE Described(MPS) > 1
      <4>1. ~MetAgain
        BY <3>2 DEF MetAgain, MPS
      <4>2. MPSCounted
        BY <1>4, <2>2, <3>1, <4>1 DEF MPSCounted, MPSProcessors
      <4> QED BY <1>5, <3>1, <3>2, <4>2
    <3>3. CASE Described(MPS) = 0
      BY <1>6, <2>2, <3>1, <3>3 DEF Before
    <3>4. CASE Described(MPS) = 1
      <4>1. \A b \in 1 .. Areas : b < area => ~TableIn(b)
        BY <2>2, <3>4 DEF Met
      <4>2. \A b \in 1 .. Areas : b < a /\ TableIn(b) => b = area
        BY <1>1, <1>2, <4>1 DEF Areas
      <4>3. MetOnce(a)
        BY <1>1, <1>2, <1>7, <4>2 DEF MetOnce, Areas
      <4> QED BY <1>6, <2>2, <3>1, <3>4, <4>3 DEF Before
    <3> QED BY <1>3, <3>2, <3>3, <3>4
  <2>3. CASE MPSAgain(Len(MPS)) /\ Met(area)
    <3>1. conf.mps.cpu_count = 2 /\ Described(MPS) = 1 /\ MPSKnown(Len(MPS))
      BY <2>3 DEF MPSAgain, Described
    <3>2. PICK b \in 1 .. Areas : b < area /\ TableIn(b)
      BY <2>3 DEF Met
    <3>3. b # area
      BY <1>1, <3>2 DEF Areas
    <3>4. MetAgain
      BY <1>1, <1>7, <3>1, <3>2, <3>3 DEF MetAgain, MPS
    <3> QED BY <1>4, <1>5, <3>1, <3>4 DEF MPSCounted
  <2>4. \/ MPSProcessors(Len(MPS)) /\ (Described(MPS) = 0 \/ ~Met(area))
        \/ MPSAgain(Len(MPS)) /\ Met(area)
    BY <2>1 DEF Reading
  <2> QED BY <2>2, <2>3, <2>4
<1>8. CASE ~TableIn(area)
  <2>1. Before(a)
    BY <1>1, <1>2, <1>8 DEF ProcessorsRead
  <2>2. ~(conf.mps.cpu_count > 1)
    BY <1>3, <2>1 DEF Before
  <2> QED BY <1>6, <2>1, <2>2
<1> QED BY <1>7, <1>8

LEMMA ProcessorsReadKept ==
  DetectTypes /\ ProcessorsRead /\ detectSystemType => ProcessorsRead'
<1> SUFFICES ASSUME DetectTypes, ProcessorsRead, detectSystemType PROVE ProcessorsRead'
  OBVIOUS
<1>1. CASE searchConfig
  <2>1. CASE HasMPFPS(machine, area)
    BY <1>1, <2>1, FoundMPS
  <2>2. CASE ~HasMPFPS(machine, area)
    <3>1. /\ pc = "search" /\ NextArea /\ machine' = machine /\ conf' = conf
          /\ area \in 1 .. Areas /\ ~TableIn(area)
      BY <1>1, <2>2 DEF searchConfig, DetectTypes, Areas, TableIn
    <3>2. Before(area)
      BY <3>1 DEF ProcessorsRead
    <3>3. PICK a \in Nat : a = area + 1
      BY <3>1
    <3>4. Before(a)
      BY <3>1, <3>2, <3>3, NotMet
    <3> QED BY <3>1, <3>3, <3>4, SearchOn
  <2> QED BY <2>1, <2>2
<1>2. CASE pc = "mpct" /\ rest # << >> /\ ~MPCTRead
  <2>1. Processor \/ IOApic("mpct", "mps") \/ IOInterrupt \/ OtherEntry
    BY <1>2 DEF detectSystemType, searchConfig, FindMADT, LocalApic, IOApic, SourceOverride,
                OtherStructure, MADTRead, generateIRQMap, Choose, Entry
  <2>2. TableIn(area)
    BY <1>2, MPEntry
  <2>3. Reading
    BY <1>2, <2>2 DEF ProcessorsRead
  <2> QED BY <1>2, <2>1, <2>3, NextOfMPS DEF ProcessorsRead
<1>3. CASE MPCTRead
  BY <1>3, EndOfMPS
<1>4. CASE pc \in {"acpi", "madt", "map"}
  <2>1. conf'.mps = conf.mps /\ machine' = machine /\ pc' \in {"madt", "map", "choose"}
    BY <1>4, Apart
  <2>2. MPSCounted
    BY <1>4 DEF ProcessorsRead
  <2>3. MPSCounted'
    BY <2>1, <2>2, CountStays
  <2> QED BY <2>1, <2>3 DEF ProcessorsRead
<1>5. CASE Choose
  BY <1>5 DEF Choose, ProcessorsRead
<1> QED BY <1>1, <1>2, <1>3, <1>4, <1>5
        DEF detectSystemType, Processor, IOApic, IOInterrupt, OtherEntry, FindMADT, LocalApic,
            SourceOverride, OtherStructure, MADTRead, generateIRQMap, Entry

\* The configuration that is chosen has the processors of its table.
LEMMA ProcessorsChosen ==
  ASSUME DetectTypes, ProcessorsRead, ACPIState, Choose
  PROVE  ProcessorsAsDescribed'
<1>1. /\ pc = "choose" /\ machine \in Machine /\ machine' = machine /\ conf \in Configurations
      /\ BootProcessor(machine)
  BY FirmwareAssumption DEF Choose, DetectTypes
<1> DEFINE p == Counted["mps"]
           q == Counted["acpi"]
           used == IF q >= p THEN "acpi" ELSE "mps"
           table == machine.table[used]
           n == Counted[used]
           c == conf[sys_conf']
<1>2. /\ CPU_MAX \in Nat \ {0}
      /\ MPS \in Seq(mpct_entry) /\ Len(MPS) \in Nat /\ Described(MPS) \in Nat
      /\ ACPI \in Seq(APIC_Structure) /\ Len(ACPI) \in Nat /\ Described(ACPI) \in Nat
  BY <1>1, Numbers, CountAssumption
<1>3. /\ p = IF MetAgain THEN 2 ELSE Described(MPS)
      /\ q = IF Described(ACPI) > CPU_MAX THEN CPU_MAX ELSE Described(ACPI)
      /\ p > 0 => Described(MPS) > 0
      /\ p \in Nat /\ q \in Nat
  BY <1>2 DEF Counted, MetAgain, MPS, ACPI
<1>4. MPSCounted /\ ACPIProcessors(Len(ACPI))
  BY <1>1 DEF ProcessorsRead, ACPIState
<1>5. conf.mps.cpu_count = p /\ conf.acpi.cpu_count = q
  BY <1>3, <1>4 DEF MPSCounted, ACPIProcessors, Described
<1> HIDE DEF p, q
<1>6. sys_conf' = used /\ used \in {"mps", "acpi"}
  BY <1>3, <1>5 DEF Choose
<1>7. c.cpu_count = n /\ n \in Nat
  BY <1>3, <1>5, <1>6 DEF p, q
<1>8. /\ table = IF used = "acpi" THEN ACPI ELSE MPS
      /\ Len(table) \in Nat /\ DOMAIN table = 1 .. Len(table)
      /\ Stored(c, table, Len(table))
  BY <1>2, <1>4, <1>6 DEF MPSCounted, MPSKnown, ACPIProcessors, MPS, ACPI
<1>9. n > 0 => c.bsp_id = machine.bsp
  <2>1. CASE used = "acpi"
    BY <1>4, <1>6, <1>7, <2>1 DEF ACPIProcessors
  <2>2. CASE used = "mps"
    <3>1. ASSUME n > 0 PROVE \E k \in DOMAIN MPS : Enabled(MPS[k]) /\ MPS[k].boot
      BY <1>1, <1>3, <2>2, <3>1 DEF BootProcessor, MPS, p
    <3>2. DOMAIN MPS = 1 .. Len(MPS)
      BY <1>2
    <3> QED BY <1>4, <1>6, <2>2, <3>1, <3>2 DEF MPSCounted, MPSKnown
  <2> QED BY <1>6, <2>1, <2>2
<1> HIDE DEF n, table
<1>10. /\ conf'[sys_conf'].cpu_count = IF n > 1 THEN n ELSE 1
       /\ conf'[sys_conf'].lapic_id = c.lapic_id
       /\ conf'[sys_conf'].bsp_id = c.bsp_id
       /\ (system_type' = "MP_APIC") <=> n > 1
  <2>1. /\ system_type' = IF c.cpu_count > 1 THEN "MP_APIC" ELSE "UP_APIC"
        /\ conf' = IF system_type' = "MP_APIC" THEN conf
                   ELSE [conf EXCEPT ![sys_conf'].cpu_count = 1]
    BY DEF Choose
  <2> QED BY <1>1, <1>6, <1>7, <2>1 DEF Configurations, Configuration
<1> HIDE DEF c, used
<1>11. /\ getNumberOfCPUs' = IF n = 0 THEN 1 ELSE n
       /\ \A k \in DOMAIN table : Enabled(table[k]) /\ Processors(table, k) <= CPU_MAX =>
             conf'[sys_conf'].lapic_id[Processors(table, k) - 1] = table[k].id
       /\ n > 0 => conf'[sys_conf'].bsp_id = machine.bsp
       /\ (system_type' = "MP_APIC") <=> n > 1
  BY <1>7, <1>8, <1>9, <1>10 DEF getNumberOfCPUs, Stored
<1>12. Counted' = Counted
  BY <1>1 DEF Counted, MetAgain, TableIn
<1> QED BY <1>1, <1>11, <1>12 DEF ProcessorsAsDescribed, used, table, n, p, q

LEMMA DetectStart == DInit => DetectInv
<1> SUFFICES ASSUME DInit PROVE DetectInv
  OBVIOUS
<1>1. pc = "search" /\ area = 1 /\ conf.mps.cpu_count = 0
  BY DEF DInit, SystemConfig
<1>2. Before(1)
  BY <1>1 DEF Before, Met, Areas
<1>3. ProcessorsRead /\ ProcessorsAsDescribed
  BY <1>1, <1>2 DEF ProcessorsRead, ProcessorsAsDescribed
<1> QED BY <1>3, InitTypes, SlotsStart, ACPIStart DEF DetectInv, SlotInv

LEMMA DetectInvariant == DetectInv /\ detectSystemType => DetectInv'
<1> SUFFICES ASSUME DetectInv, detectSystemType PROVE DetectInv'
  OBVIOUS
<1>1. SlotInv' /\ DetectTypes /\ ACPIState
  BY SlotInvariant DEF DetectInv, SlotInv
<1>2. machine' = machine /\ pc # "detected"
  BY <1>1, Apart
<1>3. ProcessorsRead'
  BY <1>1, ProcessorsReadKept DEF DetectInv
<1>4. ProcessorsAsDescribed'
  <2>1. CASE Choose
    BY <1>1, <2>1, ProcessorsChosen DEF DetectInv
  <2>2. CASE ~Choose
    <3>1. pc' # "detected"
      BY <1>2, <2>2 DEF detectSystemType, searchConfig, Processor, IOApic, IOInterrupt, NextArea,
         OtherEntry, MPCTRead, FindMADT, LocalApic, SourceOverride, OtherStructure, MADTRead,
         generateIRQMap, Entry, NextEntry
    <3> QED BY <3>1 DEF ProcessorsAsDescribed
  <2> QED BY <2>1, <2>2
<1> QED BY <1>1, <1>3, <1>4 DEF DetectInv

\* Whatever else happens, nothing but the detection changes what it has found.
LEMMA DetectOnly ==
  [RNext]_routingVars => (step = "detect" /\ detectSystemType) \/ UNCHANGED detectVars
BY DEF RNext, Construct, Detecting, main, IoapicInit, Config, Allow, Plugin, Hire, Windup, Press,
       Guardian, routingVars

LEMMA DetectInvStays == DetectInv /\ UNCHANGED detectVars => DetectInv'
<1> SUFFICES ASSUME DetectInv, UNCHANGED detectVars PROVE DetectInv'
  OBVIOUS
<1>1. /\ machine' = machine /\ pc' = pc /\ area' = area /\ rest' = rest /\ found_bsp' = found_bsp
      /\ conf' = conf /\ sys_conf' = sys_conf /\ system_type' = system_type
  BY DEF detectVars
<1>2. MPS' = MPS /\ ACPI' = ACPI /\ \A a : TableIn(a)' <=> TableIn(a)
  BY <1>1 DEF MPS, ACPI, TableIn
<1>3. DetectTypes'
  BY <1>1, <1>2 DEF DetectInv, SlotInv, DetectTypes, ReadingMPS, ReadingACPI, RestOf
<1>4. SlotsRead'
  BY <1>1, <1>2 DEF DetectInv, SlotInv, SlotsRead, MPSSlots, Read
<1>5. ACPIState'
  BY <1>1, <1>2 DEF DetectInv, SlotInv, ACPIState, ACPIRead, ACPIProcessors, ACPILines, Stored, Read
<1>6. SlotsAsWired' /\ ProcessorsAsDescribed' /\ (Counted' = Counted)
  BY <1>1, <1>2 DEF DetectInv, SlotInv, SlotsAsWired, SlotKnown, getIOAPICSlot,
              ProcessorsAsDescribed, getNumberOfCPUs, Counted, MetAgain
<1>7. ProcessorsRead' <=> ProcessorsRead
  BY <1>1, <1>2, <1>6 DEF ProcessorsRead, Before, Reading, Met, MetOnce, MPSCounted,
                          MPSProcessors, MPSAgain, MPSKnown, Stored, Read
<1> QED BY <1>3, <1>4, <1>5, <1>6, <1>7 DEF DetectInv, SlotInv

LEMMA DetectInvTheorem == RSpec => []DetectInv
<1>1. RInit => DetectInv
  BY DetectStart DEF RInit
<1>2. DetectInv /\ [RNext]_routingVars => DetectInv'
  BY DetectOnly, DetectInvariant, DetectInvStays
<1> QED BY <1>1, <1>2, PTL DEF RSpec

\* The slot of a device in the chosen configuration is the one that it is wired to,
\* for every firmware that tells the truth about one sound table of each kind,
\* whatever else lies in memory (apicsystem.cc 246-260, 274-294, 395-402, 455-478).
THEOREM DetectedSlots == RSpec => []SlotsAsWired
<1>1. DetectInv => SlotsAsWired
  BY DEF DetectInv, SlotInv
<1> QED BY <1>1, DetectInvTheorem, PTL

\* The system has the processors of the table that describes more of them, in its
\* order: for every firmware that tells the truth, for any number of processors, with
\* tables in any areas.  The two cases in which the number of processors is not the one
\* of the machine or exceeds CPU_MAX are part of the statement: a table of one
\* processor that is met again, and an MP table of many
\* (apicsystem.cc 43-90, 188-232, 304-360, 408-435).
THEOREM DetectedProcessors == RSpec => []ProcessorsAsDescribed
<1>1. DetectInv => ProcessorsAsDescribed
  BY DEF DetectInv
<1> QED BY <1>1, DetectInvTheorem, PTL

-----------------------------------------------------------------------------
(* The way of a keyboard interrupt                                         *)

MainSteps == {"construct", "detect", "config", "allow", "plugin", "hire", "windup", "run"}

\* The steps of main() after IOAPIC::allow() and after keyboard.plugin()
Allowed == step \in {"plugin", "hire", "windup", "run"}
PluggedIn == step \in {"hire", "windup", "run"}

RoutingTypes ==
  /\ step \in MainSteps
  /\ kbd_slot \in Byte
  /\ redirect \in [Slot -> [vector : Byte, masked : BOOLEAN, dest : Byte]]
  /\ DOMAIN gateobjs = Vectors
  /\ full \in BOOLEAN /\ early \in BOOLEAN

\* From IOAPIC::init() on, the slot that main() uses is the one of the configuration.
SlotAsked == step \notin {"construct", "detect"} =>
               pc = "detected" /\ kbd_slot = getIOAPICSlot(Keyboard)

\* No other slot sends interrupts, and this one only with the vector of the keyboard.
Redirected ==
  /\ \A s \in Slot : ~redirect[s].masked =>
       Allowed /\ s = kbd_slot /\ redirect[s].vector = Vector.keyboard
  /\ (step = "allow" \/ Allowed) /\ kbd_slot \in Slot =>
       redirect[kbd_slot].vector = Vector.keyboard
  /\ Allowed /\ kbd_slot \in Slot => ~redirect[kbd_slot].masked

Handled == /\ PluggedIn => report(Vector.keyboard) = "keyboard"
           /\ pending \subseteq {Vector.keyboard}
           /\ full /\ ~early => Allowed

\* No byte waits without an interrupt that waits as well.
ByteIsPending == full /\ ~early /\ SlotKnown(Keyboard) => Vector.keyboard \in pending

\* No interrupt of the IO-APIC meets the gate Panic.
KeyboardOnly == step = "run" => \A v \in pending : report(v) = "keyboard"

KeyInv == RoutingTypes /\ SlotAsked /\ Redirected /\ Handled /\ ByteIsPending

LEMMA KeyInit == RInit => KeyInv
<1> SUFFICES ASSUME RInit PROVE KeyInv
  OBVIOUS
<1>1. RoutingTypes
  BY DEF RInit, RoutingTypes, MainSteps, Byte
<1>2. SlotAsked /\ Redirected
  BY DEF RInit, SlotAsked, Redirected, Allowed
<1>3. Handled /\ ByteIsPending
  BY DEF RInit, Handled, ByteIsPending, PluggedIn
<1> QED BY <1>1, <1>2, <1>3 DEF KeyInv

\* The slot of a configuration is a byte, also that of a device without a slot.
LEMMA SlotIsByte ==
  ASSUME DetectTypes, pc = "detected"
  PROVE  getIOAPICSlot(Keyboard) \in Byte
<1>1. Keyboard \in Line
  BY KeyboardAssumption, Wiring DEF DetectTypes
<1>2. conf[sys_conf].slot_map[Keyboard] \in Slot \cup {-1}
  BY <1>1 DEF DetectTypes, Configurations, Configuration
<1>3. conf[sys_conf].slot_map[Keyboard] \in Int
  BY <1>2, CountAssumption DEF Slot
<1>4. \A x \in Int : x % 256 \in 0 .. 255
  OBVIOUS
<1> QED BY <1>3, <1>4 DEF getIOAPICSlot, Byte

\* The slot that main() uses, once the system has been detected
LEMMA KeyboardSlot ==
  ASSUME DetectInv, KeyInv, Allowed, SlotKnown(Keyboard)
  PROVE  machine.wiring[Keyboard] = kbd_slot /\ kbd_slot \in Slot
<1>1. pc = "detected" /\ kbd_slot = getIOAPICSlot(Keyboard)
  BY DEF KeyInv, SlotAsked, Allowed
<1>2. machine \in Machine /\ Keyboard \in DOMAIN machine.wiring /\ machine.wiring[Keyboard] \in Slot
  BY KeyboardAssumption, Wiring DEF DetectInv, SlotInv, DetectTypes
<1>3. getIOAPICSlot(Keyboard) = machine.wiring[Keyboard]
  BY <1>1, <1>2 DEF DetectInv, SlotInv, SlotsAsWired
<1> QED BY <1>1, <1>2, <1>3

LEMMA KeyInvKept == DetectInv /\ KeyInv /\ [RNext]_routingVars => KeyInv'
<1> SUFFICES ASSUME DetectInv, KeyInv, [RNext]_routingVars PROVE KeyInv'
  OBVIOUS
<1> USE DEF KeyInv
<1>t. Vector.keyboard = 33 /\ Vector.keyboard \in Vectors /\ Vector.keyboard \in Byte
      /\ Vector.none \in Byte /\ Vector.timer # 33 /\ Vector.assassin # 33
  BY DEF Vector, Vectors, Byte
<1>1. CASE Construct
  BY <1>1, <1>t DEF Construct, Goto, RoutingTypes, SlotAsked, Redirected, Handled, ByteIsPending,
     MainSteps, Allowed, PluggedIn, report
<1>2. CASE Detecting
  BY <1>2, <1>t DEF Detecting, mainVars, deviceVars, keyVars, RoutingTypes, SlotAsked, Redirected,
     Handled, ByteIsPending, Allowed, PluggedIn, report
<1>3. CASE IoapicInit
  <2>1. getIOAPICSlot(Keyboard) \in Byte
    BY <1>3, SlotIsByte DEF IoapicInit, DetectInv, SlotInv
  <2>2. RoutingTypes'
    <3>1. (2 ^ getNumberOfCPUs - 1) % 256 \in Byte
      <4>1. getNumberOfCPUs \in Nat
        BY <1>3 DEF getNumberOfCPUs, IoapicInit, DetectInv, SlotInv, DetectTypes, Configurations,
                    Configuration
      <4> QED BY <4>1 DEF Byte
    <3> HIDE DEF KeyInv
    <3> QED BY <1>3, <1>t, <2>1, <3>1 DEF KeyInv, IoapicInit, Goto, keyVars, RoutingTypes, MainSteps
  <2>3. SlotAsked'
    BY <1>3 DEF IoapicInit, Goto, detectVars, SlotAsked, getIOAPICSlot
  <2>4. Redirected' /\ Handled' /\ ByteIsPending'
    BY <1>3 DEF IoapicInit, Goto, keyVars, Redirected, Handled, ByteIsPending, Allowed, PluggedIn
  <2> QED BY <2>2, <2>3, <2>4
<1>d. UNCHANGED detectVars => /\ UNCHANGED <<machine, pc, sys_conf, conf>>
                              /\ SlotKnown(Keyboard)' <=> SlotKnown(Keyboard)
                              /\ getIOAPICSlot(Keyboard)' = getIOAPICSlot(Keyboard)
  BY DEF detectVars, SlotKnown, getIOAPICSlot
<1>4. CASE Config
  BY <1>4, <1>t, <1>d DEF Config, Goto, WriteSlot, keyVars, RoutingTypes, SlotAsked, Redirected,
     Handled, ByteIsPending, MainSteps, Allowed, PluggedIn, report
<1>5. CASE Allow
  BY <1>5, <1>t, <1>d DEF Allow, Goto, WriteSlot, keyVars, RoutingTypes, SlotAsked, Redirected,
     Handled, ByteIsPending, MainSteps, Allowed, PluggedIn, report
<1>6. CASE Plugin
  BY <1>6, <1>t, <1>d DEF Plugin, Goto, assign, keyVars, RoutingTypes, SlotAsked, Redirected,
     Handled, ByteIsPending, MainSteps, Allowed, PluggedIn, report
<1>7. CASE Hire
  BY <1>7, <1>t, <1>d DEF Hire, Goto, assign, keyVars, RoutingTypes, SlotAsked, Redirected,
     Handled, ByteIsPending, MainSteps, Allowed, PluggedIn, report
<1>8. CASE Windup
  BY <1>8, <1>t, <1>d DEF Windup, Goto, assign, keyVars, RoutingTypes, SlotAsked, Redirected,
     Handled, ByteIsPending, MainSteps, Allowed, PluggedIn, report
<1>9. CASE Press
  <2>1. machine.wiring[Keyboard] \in Slot
    BY KeyboardAssumption, Wiring DEF DetectInv, SlotInv, DetectTypes
  <2>2. /\ UNCHANGED <<step, kbd_slot, redirect, gateobjs>> /\ full' = TRUE
        /\ early' <=> ~Allowed
    BY <1>9 DEF Press, mainVars, deviceVars, RoutingTypes, MainSteps, Allowed
  <2>3. /\ pending' \subseteq {Vector.keyboard}
        /\ Allowed /\ SlotKnown(Keyboard) => Vector.keyboard \in pending'
    <3> DEFINE s == machine.wiring[Keyboard]
    <3>1. pending' = IF redirect[s].masked THEN pending ELSE pending \cup {redirect[s].vector}
      BY <1>9 DEF Press
    <3>2. ~redirect[s].masked => redirect[s].vector = Vector.keyboard
      BY <2>1 DEF Redirected
    <3>3. Allowed /\ SlotKnown(Keyboard) => ~redirect[s].masked
      BY KeyboardSlot DEF Redirected
    <3> QED BY <3>1, <3>2, <3>3 DEF Handled
  <2>4. UNCHANGED detectVars
    BY <1>9 DEF Press
  <2>5. RoutingTypes'
    BY <2>2 DEF RoutingTypes, Allowed
  <2>6. SlotAsked' /\ Redirected'
    BY <1>d, <2>2, <2>4 DEF SlotAsked, Redirected, Allowed
  <2>7. Handled' /\ ByteIsPending'
    BY <1>d, <2>2, <2>3, <2>4 DEF Handled, ByteIsPending, Allowed, PluggedIn, report
  <2> QED BY <2>5, <2>6, <2>7
<1>10. CASE Guardian
  <2>1. /\ UNCHANGED <<detectVars, step, kbd_slot, redirect, gateobjs, early>>
        /\ step = "run"
    BY <1>10 DEF Guardian, mainVars, deviceVars
  <2>2. pending' \subseteq {Vector.keyboard} /\ full' = FALSE
    <3>1. PICK v \in pending : /\ pending' = pending \ {v}
                               /\ full' = (full /\ report(v) # "keyboard")
      BY <1>10 DEF Guardian
    <3>2. report(v) = "keyboard"
      BY <2>1, <3>1 DEF Handled, PluggedIn
    <3> QED BY <3>1, <3>2 DEF Handled
  <2> QED BY <1>d, <2>1, <2>2 DEF RoutingTypes, SlotAsked, Redirected, Handled, ByteIsPending,
                                   Allowed, PluggedIn, report
<1>11. CASE UNCHANGED routingVars
  BY <1>d, <1>11 DEF routingVars, mainVars, deviceVars, keyVars, RoutingTypes, SlotAsked, Redirected,
     Handled, ByteIsPending, Allowed, PluggedIn, report
<1> QED BY <1>1, <1>2, <1>3, <1>4, <1>5, <1>6, <1>7, <1>8, <1>9, <1>10, <1>11 DEF RNext, main

LEMMA KeyInvTheorem == RSpec => []KeyInv
<1>1. RInit => KeyInv
  BY KeyInit
<1>2. DetectInv /\ KeyInv /\ [RNext]_routingVars => KeyInv'
  BY KeyInvKept
<1> QED BY <1>1, <1>2, DetectInvTheorem, PTL DEF RSpec

\* A byte that came after the slot of the keyboard was unmasked is never left alone:
\* as long as it is in the buffer, the vector of the keyboard waits for a CPU,
\* wherever the firmware wired the keyboard (main.cc 62-70, ioapic.cc 53-72).
THEOREM NoLostKey == RSpec => []ByteIsPending
<1>1. KeyInv => ByteIsPending
  BY DEF KeyInv
<1> QED BY <1>1, KeyInvTheorem, PTL

\* What the IO-APIC sends once interrupts are enabled finds the handler of the
\* keyboard, never Panic::trigger(), even when the slot of the keyboard is not
\* known and another one is unmasked (guardian.cc 16-45, plugbox.cc 13-33).
THEOREM NoPanic == RSpec => []KeyboardOnly
<1>1. KeyInv => KeyboardOnly
  BY DEF KeyInv, Handled, KeyboardOnly, PluggedIn
<1> QED BY <1>1, KeyInvTheorem, PTL

-----------------------------------------------------------------------------
(* The detection comes to its end                                          *)

\* How far the detection is: areas first, then the tables of ACPI
Rank == CASE pc = "search" -> 2 * area
          [] pc = "mpct" -> 2 * area + 1
          [] pc = "acpi" -> 2 * Areas + 2
          [] pc = "madt" -> 2 * Areas + 3
          [] pc = "map" -> 2 * Areas + 4
          [] pc = "choose" -> 2 * Areas + 5
          [] pc = "detected" -> 2 * Areas + 6

Advances == \/ Rank < Rank'
            \/ Rank' = Rank /\ Len(rest') < Len(rest)

LEMMA StepAdvances == DetectTypes /\ detectSystemType => Advances
<1> SUFFICES ASSUME DetectTypes, detectSystemType PROVE Advances
  OBVIOUS
<1>1. area \in Nat /\ (pc \in {"search", "mpct"} => area <= Areas) /\ Areas = 5
  BY DEF DetectTypes, Areas
<1>2. pc \in {"mpct", "madt"} /\ rest # << >> => Len(Tail(rest)) < Len(rest)
  <2>1. ASSUME NEW S, NEW r \in Seq(S), r # << >> PROVE Len(Tail(r)) < Len(r)
    BY <2>1
  <2>2. /\ pc = "mpct" => rest \in Seq(mpct_entry)
        /\ pc = "madt" => rest \in Seq(APIC_Structure)
    BY DEF DetectTypes, ReadingMPS, ReadingACPI
  <2> QED BY <2>1, <2>2
<1>3. CASE \E new : pc \in {"mpct", "madt"} /\ rest # << >> /\ NextEntry(new)
  <2>1. rest' = Tail(rest) /\ pc' = pc /\ area' = area /\ pc \in {"mpct", "madt"} /\ rest # << >>
    BY <1>3 DEF NextEntry
  <2> QED BY <1>1, <1>2, <2>1 DEF Advances, Rank
<1>4. CASE Processor \/ IOApic("mpct", "mps") \/ IOInterrupt \/ OtherEntry
  BY <1>3, <1>4 DEF Processor, IOApic, IOInterrupt, OtherEntry, Entry
<1>5. CASE LocalApic \/ IOApic("madt", "acpi") \/ SourceOverride \/ OtherStructure
  BY <1>3, <1>5 DEF LocalApic, IOApic, SourceOverride, OtherStructure, Entry
<1>6. CASE searchConfig
  BY <1>1, <1>6 DEF searchConfig, NextArea, Advances, Rank
<1>7. CASE MPCTRead
  BY <1>1, <1>7 DEF MPCTRead, NextArea, Advances, Rank
<1>8. CASE FindMADT
  BY <1>1, <1>8 DEF FindMADT, Advances, Rank
<1>9. CASE MADTRead
  BY <1>1, <1>9 DEF MADTRead, Advances, Rank
<1>10. CASE generateIRQMap
  BY <1>1, <1>10 DEF generateIRQMap, Advances, Rank
<1>11. CASE Choose
  BY <1>1, <1>11 DEF Choose, Advances, Rank
<1> QED BY <1>4, <1>5, <1>6, <1>7, <1>8, <1>9, <1>10, <1>11 DEF detectSystemType

\* Every step of the detection reads an entry of a table or goes on to a later part of
\* the 15 that there are: whatever the tables contain, it comes to its end, unless it
\* meets an entry that no case reads (apicsystem.cc 43-63, 127-138, 174-264, 404-500).
THEOREM DetectionAdvances == RSpec => [][Advances]_detectVars
<1>1. DetectInv /\ [RNext]_routingVars => [Advances]_detectVars
  BY DetectOnly, StepAdvances DEF DetectInv, SlotInv
<1> QED BY <1>1, DetectInvTheorem, PTL DEF RSpec
=============================================================================

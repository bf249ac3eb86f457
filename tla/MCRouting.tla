------------------------------ MODULE MCRouting ------------------------------
(* Instance of Routing for TLC: six slots, four ISA lines, two processors at *)
(* most.  A machine has processors and wires; the tables that describe them  *)
(* are where, how often and next to which broken ones the firmware likes.    *)
EXTENDS Routing

\* The processors: local APICs 4, 5, 6, some of them disabled.  (The MP table does
\* not know the second thread of a core.)
On(id) == [id |-> id, enabled |-> TRUE]
Off(id) == [id |-> id, enabled |-> FALSE]
Cpus == {<<On(4)>>, <<On(4), On(5)>>, <<Off(5), On(4), On(6)>>, <<On(4), On(5), On(6)>>}

\* The timer (0) and the keyboard (1); line 3 is wired as in a PC.
Wirings == { (0 :> t @@ 1 :> k @@ 3 :> 3) : t \in {0, 2}, k \in {1, 4} }
             \cup {(1 :> 0 @@ 3 :> 3)}

Entries(cpus, wiring, rev) ==
  LET procs == [n \in DOMAIN cpus |->
                  [type |-> "PROCESSOR", id |-> cpus[n].id, enabled |-> cpus[n].enabled,
                   boot |-> cpus[n].id = 4]]
      ints == [n \in 1 .. Lines |-> [type |-> "IOINT", srcbus |-> 0, srcbusirq |-> n - 1,
                                     dstirq |-> IF n - 1 \in DOMAIN wiring THEN wiring[n - 1] ELSE 99]]
      all == procs \o <<[type |-> "BUS"], [type |-> "IO_APIC", id |-> 8],
                        [type |-> "IOINT", srcbus |-> 1, srcbusirq |-> 1, dstirq |-> 5]>>
               \o ints \o <<[type |-> "LINT", srcbus |-> 0, srcbusirq |-> 0, dstirq |-> 1]>>
  IN  IF rev THEN Reverse(all) ELSE all

APICs(cpus, wiring, rev) ==
  LET apics == [n \in DOMAIN cpus |->
                  [type |-> "LOCAL_APIC", id |-> cpus[n].id, enabled |-> cpus[n].enabled]]
      moved == SetToSortSeq({d \in DOMAIN wiring : wiring[d] # d}, <)
      over == [n \in DOMAIN moved |-> [type |-> "SOURCE_OVERRIDE", bus |-> 0,
                                       source |-> moved[n], gsi |-> wiring[moved[n]]]]
      io == <<[type |-> "IO_APIC", id |-> 9], [type |-> "OTHER"],
              [type |-> "SOURCE_OVERRIDE", bus |-> 1, source |-> 1, gsi |-> 5]>>
  IN  IF rev THEN over \o io \o apics ELSE apics \o io \o over \o <<[type |-> "EMPTY"]>>

\* The MP floating pointers of the areas; table is a sequence with one table or none.
Pointer(table) == [length |-> 1, sum |-> 512, spec_rev |-> 4, feature1 |-> 0,
                   feature2 |-> 128, physptr |-> table]
Broken == [Pointer(<<[signature |-> "PCMP", sum |-> 0, entries |-> << >>]>>) EXCEPT !.sum = 3]

Pointers(table) ==
  LET none == [a \in 1 .. Areas |-> << >>]
      good == <<Pointer(table)>>
  IN  {[none EXCEPT ![1] = good], [none EXCEPT ![1] = good, ![2] = good],
       [none EXCEPT ![5] = <<Broken, Pointer(table)>>],
       [none EXCEPT ![3] = <<[Broken EXCEPT !.length = 2], [Broken EXCEPT !.spec_rev = 7]>>,
                    ![4] = good]}

\* The root pointers of ACPI in the EBDA and the BIOS, for the same processors.
Root(rev, tables) == [revision |-> rev, sum20 |-> rev, sum |-> 0, length |-> 36, rsdt |-> tables]
Acpi(table) == {<<<<Root(0, table)>>, << >>>>,
                <<<<[Root(0, << >>) EXCEPT !.sum20 = 7], [Root(2, << >>) EXCEPT !.length = 0]>>,
                  <<Root(2, table)>>>>}

\* The described tables, and the machine around them.
Machines(cpus, wiring, mpsCpus, rev) ==
  LET mp == Entries(mpsCpus, wiring, rev)
      madt == [type |-> "MADT", PCAT_COMPAT |-> rev, entries |-> APICs(cpus, wiring, rev)]
      first == (CHOOSE n \in DOMAIN cpus :
                  cpus[n].enabled /\ \A k \in 1 .. n - 1 : ~cpus[k].enabled)
      new(pointers, acpi, mps, has) ==
        [mpfps |-> pointers, ebda |-> acpi[1], bios |-> acpi[2], wiring |-> wiring,
         table |-> [mps |-> mps, acpi |-> IF has THEN madt.entries ELSE << >>],
         bsp |-> cpus[first].id]
      table == <<[signature |-> "PCMP", sum |-> 256, entries |-> mp]>>
      odd == <<[type |-> "OTHER"]>>   \* an entry that readMPCT() does not know
      noMadt == <<[type |-> "FACP"]>>
      withMadt == <<[type |-> "FACP"], madt>>
      none == [a \in 1 .. Areas |-> << >>]
  IN  {new(p, a, mp, TRUE) : p \in Pointers(table), a \in Acpi(withMadt)}
        \cup {new(p, a, mp, FALSE) : p \in Pointers(table), a \in Acpi(noMadt)}
        \cup {new([none EXCEPT ![1] = <<Pointer(<<[table[1] EXCEPT !.entries = @ \o odd]>>)>>],
                  <<<< >>, << >>>>, mp \o odd, FALSE)}
        \cup {new(none, a, << >>, TRUE) : a \in Acpi(withMadt)}
        \cup {new(p, <<<< >>, << >>>>, << >>, FALSE) :
                p \in {none} \cup Pointers(<< >>)
                      \cup Pointers(<<[signature |-> "OEM1", sum |-> 0, entries |-> mp]>>)}

MCMachine == UNION {Machines(c, w, m, rev) : <<c, w, m, rev>> \in
  {x \in Cpus \X Wirings \X (Cpus \cup {<<On(4)>>}) \X BOOLEAN : x[3] \in {x[1], <<On(4)>>}}}
=============================================================================

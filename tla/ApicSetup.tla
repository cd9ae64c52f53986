------------------------------ MODULE ApicSetup -----------------------------
(***************************************************************************)
(* How the interrupt controllers are set up from the MADT, the firmware    *)
(* table that lists processors, IO APICs and the deviations from the ISA   *)
(* wiring (src/kernel/acpi/madt.c, interrupt/apic.c, interrupt/ioapic.c).  *)
(* The boot CPU reads the table and fills the arrays; then every CPU       *)
(* programs its own local APIC while ISA lines are redirected to vectors.  *)
(*                                                                         *)
(* The MADT is the sequence of its entries, in the order of the walk; an   *)
(* entry is a record whose field "type" is its ICS_TYPE.  The flags of an  *)
(* entry are the pair of its polarity and trigger fields.                  *)
(***************************************************************************)
EXTENDS Integers, Sequences, SequencesExt, FiniteSets

CONSTANTS
  Madts,        \* the tables the firmware may hand over
  Boot,         \* the APIC id of the boot CPU
  Irqs,         \* ISA lines that are redirected
  Vectors,      \* vectors they are redirected to
  IoapicLines,  \* interrupt lines of one IO APIC
  AllUids       \* processor UID 0xff: the NMI entry is for every processor

VARIABLES
  madt,       \* the table
  phase,      \* what the boot CPU has done: "start", "lapics", "local", "up"
  lapics,     \* lapic_gdata.lapic_array
  ioapics,    \* ioapic_gdata.ioapic_array: the entries
  overrides,  \* ioapic_gdata.source_override_array
  lint,       \* the two LVT LINT registers of each local APIC
  table,      \* the redirection table of each IO APIC, by <<base, line>>
  halfway,    \* the second word of a redirection entry, still to be written
  asked,      \* the last redirection asked for each ISA line (history)
  halted      \* "no", or why the kernel stopped

vars == <<madt, phase, lapics, ioapics, overrides, lint, table, halfway,
          asked, halted>>

-----------------------------------------------------------------------------
(* The walk over the table: get_first_ICS_header, get_next_ICS_header.      *)
Instances(t) == SelectSeq(madt, LAMBDA e : e.type = t)

(* A processor that is enabled, or can be.                                  *)
Usable(e) == e.type = "lapic" /\ e.flags # "disabled"

count_number_of_local_apic == Len(SelectSeq(madt, Usable))

count_ICS_header_instances(t) == Len(Instances(t))

(* The array filled with every local APIC entry, none of them with an NMI.  *)
LapicArray ==
  [i \in 1..Len(Instances("lapic")) |->
     [id |-> Instances("lapic")[i].id, uid |-> Instances("lapic")[i].uid,
      nmi |-> <<>>, enabled |-> FALSE]]

(* The NMI entries the walk looks at: it ends at the first one for all.     *)
NmiWalk ==
  LET n == Instances("nmi")
      stops == {i \in 1..Len(n) : n[i].uid = AllUids}
      last == IF stops = {} THEN Len(n)
              ELSE CHOOSE i \in stops : \A j \in stops : i <= j
  IN SubSeq(n, 1, last)

(* Who an NMI entry is for.                                                 *)
ForLapic(e, l) == e.uid \in {l.uid, AllUids}

(* ics_lapic_nmi after the walk: the last entry that was for this processor.*)
WithNmi(l) ==
  LET mine == SelectSeq(NmiWalk, LAMBDA e : ForLapic(e, l))
  IN IF mine = <<>> THEN l ELSE [l EXCEPT !.nmi = <<Last(mine)>>]

(* get_lapic_from_processor_uid finds every processor an NMI entry names.   *)
NmiKnown ==
  \A i \in 1..Len(NmiWalk) :
    \E l \in Range(LapicArray) : ForLapic(NmiWalk[i], l)

(* init_apic_subsystem: the array has room for the usable processors, and   *)
(* fill_apic_array asserts that the entries fill it exactly.                *)
init_apic_subsystem ==
  /\ halted = "no" /\ phase = "start"
  /\ phase' = "lapics"
  /\ IF count_number_of_local_apic = count_ICS_header_instances("lapic") /\ NmiKnown
     THEN /\ lapics' = [i \in DOMAIN LapicArray |-> WithNmi(LapicArray[i])]
          /\ UNCHANGED halted
     ELSE halted' = "assertion" /\ UNCHANGED lapics
  /\ UNCHANGED <<madt, ioapics, overrides, lint, table, halfway, asked>>

-----------------------------------------------------------------------------
Bit(b) == IF b THEN 1 ELSE 0

(* The polarity and the trigger mode that setup_lapic_nmi_lint reads from   *)
(* the flags: each stays 0 when the test before it finds "conform".  Both   *)
(* tests look at the polarity.                                              *)
NmiPolarity(e) == IF e.polarity # "conform" THEN Bit(e.polarity = "low") ELSE 0

NmiTrigger(e) == IF e.polarity # "conform" THEN Bit(e.trigger = "level") ELSE 0

NmiLvt(e) ==
  [mode |-> "nmi", polarity |-> NmiPolarity(e), trigger |-> NmiTrigger(e)]

IndexOfLapic(c) == {i \in DOMAIN lapics : lapics[i].id = c}

(* init_local_apic on CPU c.  The hardware may report an error, and then    *)
(* the assertion in init_local_interrupt_controllers stops the kernel.      *)
init_local_apic(c) ==
  /\ halted = "no"
  /\ \/ phase = "lapics" /\ c = Boot /\ phase' = "local"
     \/ phase = "up" /\ c # Boot /\ UNCHANGED phase
  /\ \A i \in IndexOfLapic(c) : ~lapics[i].enabled
  /\ \/ halted' = "hardware" /\ UNCHANGED <<lapics, lint>>
     \/ LET i == CHOOSE j \in IndexOfLapic(c) : \A k \in IndexOfLapic(c) : j <= k
            nmi == lapics[i].nmi
        IN /\ lint' = IF nmi = <<>> THEN lint
                     ELSE [lint EXCEPT ![c][nmi[1].lint] = NmiLvt(nmi[1])]
           /\ lapics' = [lapics EXCEPT ![i].enabled = TRUE]
           /\ UNCHANGED halted
  /\ UNCHANGED <<madt, ioapics, overrides, table, halfway, asked>>

-----------------------------------------------------------------------------
(* init_ioapics: both arrays are filled in the order of the table.          *)
init_ioapics ==
  /\ halted = "no" /\ phase = "local"
  /\ phase' = "up"
  /\ IF count_ICS_header_instances("ioapic") = 0
     THEN halted' = "assertion" /\ UNCHANGED <<ioapics, overrides>>
     ELSE /\ ioapics' = Instances("ioapic")
          /\ overrides' = Instances("iso")
          /\ UNCHANGED halted
  /\ UNCHANGED <<madt, lapics, lint, table, halfway, asked>>

(* get_isa_fix: the first override of the line.  It fills in a polarity and *)
(* a trigger mode but never sets polarity_override or trigger_override.     *)
Matching(irq) == SelectSeq(overrides, LAMBDA e : e.source = irq)

get_isa_fix(irq) ==
  IF Matching(irq) = <<>>
  THEN [irq_override |-> FALSE, polarity_override |-> FALSE,
        trigger_override |-> FALSE, irq |-> 0, polarity |-> 0, trigger |-> 0]
  ELSE LET e == Head(Matching(irq))
       IN [irq_override |-> TRUE, polarity_override |-> FALSE,
           trigger_override |-> FALSE, irq |-> e.gsi,
           polarity |-> Bit(e.polarity = "low"), trigger |-> Bit(e.trigger = "level")]

(* The first IO APIC whose range holds the global line.                     *)
InRange(a, gsi) == gsi >= a.base /\ gsi < a.base + IoapicLines

IoapicsOf(gsi) == SelectSeq(ioapics, LAMBDA a : InRange(a, gsi))

(* The line of the redirected interrupt, after the fix.                     *)
FixedIrq_NoFix(fix, irq) == irq

FixedIrq(fix, irq) == IF fix.irq_override THEN fix.irq ELSE irq

(* setIOAPICInterruptRedirection up to the first of the two words it        *)
(* writes, under ioapic_lock.  The caller asks for an edge triggered,       *)
(* active high, unmasked interrupt.                                         *)
setIOAPICInterruptRedirection(irq, dest, vector) ==
  /\ halted = "no" /\ phase = "up" /\ halfway = <<>>
  /\ LET fix == get_isa_fix(irq)
         gsi == FixedIrq(fix, irq)
         entry == [vector |-> vector, masked |-> FALSE,
                   polarity |-> IF fix.polarity_override THEN fix.polarity ELSE 0,
                   trigger |-> IF fix.trigger_override THEN fix.trigger ELSE 0]
     IN IF overrides = <<>> \/ IoapicsOf(gsi) = <<>>
        THEN halted' = "assertion" /\ UNCHANGED <<table, halfway, asked>>
        ELSE LET a == Head(IoapicsOf(gsi))
                 key == <<a.base, gsi - a.base>>
             IN /\ table' = [table EXCEPT ![key].low = entry]
                /\ halfway' = <<key, dest>>
                /\ asked' = [asked EXCEPT ![irq] = <<vector, dest>>]
                /\ UNCHANGED halted
  /\ UNCHANGED <<madt, phase, lapics, ioapics, overrides, lint>>

(* The second word, with the destination, and the release of the lock.      *)
WriteHighWord ==
  /\ halted = "no" /\ halfway # <<>>
  /\ table' = [table EXCEPT ![halfway[1]].high = halfway[2]]
  /\ halfway' = <<>>
  /\ UNCHANGED <<madt, phase, lapics, ioapics, overrides, lint, asked, halted>>

-----------------------------------------------------------------------------
(* The CPUs and the IO APICs that the table says are there.                 *)
Present == {Instances("lapic")[i].id : i \in 1..Len(Instances("lapic"))}

Bases == {Instances("ioapic")[i].base : i \in 1..Len(Instances("ioapic"))}

Reset == [low |-> [vector |-> 0, masked |-> TRUE, polarity |-> 0, trigger |-> 0],
          high |-> Boot]

(* Before the set-up; the registers are as the hardware resets them.        *)
NothingDone ==
  /\ phase = "start" /\ halted = "no"
  /\ lapics = <<>> /\ ioapics = <<>> /\ overrides = <<>>
  /\ lint = [c \in Present |-> [l \in 0..1 |-> [mode |-> "reset"]]]
  /\ table = [k \in Bases \X (0..IoapicLines - 1) |-> Reset]
  /\ halfway = <<>>
  /\ asked = [q \in Irqs |-> <<>>]

Init == madt \in Madts /\ NothingDone

Next ==
  \/ init_apic_subsystem
  \/ \E c \in Present : init_local_apic(c)
  \/ init_ioapics
  \/ \E irq \in Irqs, d \in Present, v \in Vectors : setIOAPICInterruptRedirection(irq, d, v)
  \/ WriteHighWord

Spec == Init /\ [][Next]_vars
-----------------------------------------------------------------------------
(* The type of the state that the steps change.                             *)
TypeOK ==
  /\ phase \in {"start", "lapics", "local", "up"}
  /\ halted \in {"no", "assertion", "hardware"}
  /\ \A i \in DOMAIN lapics : lapics[i].enabled \in BOOLEAN /\ lapics[i].id \in Present
  /\ \A k \in DOMAIN table : table[k].high \in Present /\ table[k].low.vector \in Vectors \cup {0}
  /\ halfway # <<>> => halfway[1] \in DOMAIN table

(* No assertion of the set-up fails: the arrays are exactly as long as what *)
(* is put in them, every CPU and every processor an NMI entry names is      *)
(* found, and every redirected line belongs to an IO APIC.                  *)
AssertionsHold == halted # "assertion"

(* What the flags of an entry mean, the default of the bus being 0.         *)
Meant(value, one) == Bit(value = one)

(* Every CPU that has run init_local_apic has the LINT pin the firmware     *)
(* names for it, alone or with an entry for all, programmed as an NMI with  *)
(* the polarity and the trigger mode of that entry, and leaves its other    *)
(* pin alone (setup_lapic_nmi_lint).                                        *)
NmiExact ==
  halted = "no" =>
  \A i \in {j \in DOMAIN lapics : lapics[j].enabled} :
    LET mine == {e \in Range(madt) : e.type = "nmi" /\ e.uid \in {lapics[i].uid, AllUids}}
        pins == lint[lapics[i].id]
    IN IF mine = {} THEN \A l \in 0..1 : pins[l].mode = "reset"
       ELSE \E e \in mine :
              /\ pins[e.lint] = [mode |-> "nmi", polarity |-> Meant(e.polarity, "low"),
                                 trigger |-> Meant(e.trigger, "level")]
              /\ pins[1 - e.lint].mode = "reset"

(* The table entry of the global line the firmware says an ISA line is      *)
(* wired to holds the vector and the destination asked for last, with the   *)
(* polarity and the trigger mode of the firmware's override; every other    *)
(* entry of every IO APIC stays masked (setIOAPICInterruptRedirection).     *)
RedirectionExact ==
  halted = "no" /\ halfway = <<>> =>
  LET OverridesOf(q) == {e \in Range(madt) : e.type = "iso" /\ e.source = q}
      Gsi(q) == IF OverridesOf(q) = {} THEN q ELSE (CHOOSE e \in OverridesOf(q) : TRUE).gsi
      KeyOf(q) == CHOOSE k \in DOMAIN table : k[1] + k[2] = Gsi(q)
      Used == {KeyOf(q) : q \in {p \in Irqs : asked[p] # <<>>}}
  IN /\ \A q \in {p \in Irqs : asked[p] # <<>>} :
          LET r == table[KeyOf(q)]
          IN /\ <<r.low.vector, r.high>> = asked[q] /\ ~r.low.masked
             /\ \A e \in OverridesOf(q) :
                  /\ r.low.polarity = Meant(e.polarity, "low")
                  /\ r.low.trigger = Meant(e.trigger, "level")
     /\ \A k \in DOMAIN table \ Used : table[k].low.masked

(* The controllers are programmed as the firmware's table says, whatever    *)
(* its order and whichever CPUs start while lines are redirected, and no    *)
(* assertion of the set-up fails on the way.                                *)
ControllersExact == TypeOK /\ AssertionsHold /\ NmiExact /\ RedirectionExact
=============================================================================

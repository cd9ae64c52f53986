----------------------------- MODULE MCStartup ------------------------------
(***************************************************************************)
(* The stages of the kernel's start, on small instances: the disk image,   *)
(* the memory map, the interrupt controllers and the processors.           *)
(*                                                                         *)
(* A stage shares no variable with the others, so a behaviour is that of   *)
(* one of them and the others stay as they begin.  MpStart is extended;    *)
(* the other stages are instances.                                         *)
(***************************************************************************)
EXTENDS MpStart, FiniteSetsExt, SequencesExt

CONSTANTS Lists, Madts   \* given values in the configuration: TLC computes them once

VARIABLES
  stage,   \* the stage that is looked at
  disk, part, par, image_pc,
  items, loader, free, ram, map, map_pc,
  madt, phase, lapics, ioapics, overrides, lint, table, halfway, asked, halted

diskVars == <<disk, part, par, image_pc>>
memoryVars == <<items, loader, free, ram, map, map_pc>>
apicVars == <<madt, phase, lapics, ioapics, overrides, lint, table, halfway, asked, halted>>

MCLapicIds == <<1, 0, 3, 2>>

-----------------------------------------------------------------------------
(* Volumes around the smallest one that fits.                               *)
Image == INSTANCE DiskImage WITH
  Reserved <- 12, Entries <- 4, MinClusters <- 3, Word <- 4096, MaxSector <- 26,
  FirstStages <- 0..1, Volumes <- {12, 18, 19, 20, 22}, FatSizes <- 1..2,
  ClusterSizes <- {1, 2}, CodeSizes <- -1..4, pc <- image_pc

-----------------------------------------------------------------------------
(* Firmware lists of up to three ranges; usable ones reach the next page.   *)
Ranges == {<<0, 7>>, <<5, 15>>, <<5, 4>>, <<16, 16>>, <<22, 9>>, <<30, 0>>,
           <<33, 14>>, <<48, 6>>, <<48, 24>>}

Items == {[base_addr |-> r[1], size |-> r[2], type |-> t, acpi |-> 1] : r \in Ranges, t \in 1..3}

Overlap(i, j) == i.base_addr < j.base_addr + j.size /\ j.base_addr < i.base_addr + i.size

RangeLists ==
  {s \in UNION {[1..k -> Items] : k \in 1..3} :
     \A i, j \in DOMAIN s : i # j => ~Overlap(s[i], s[j])}

Memory == INSTANCE BootMemory WITH
  PAGE_SIZE <- 4, MB <- 16, WORD <- 256, KernelSize <- 5, EXTRA_SPACE <- 8, MaxLoaderFrames <- 1, pc <- map_pc

-----------------------------------------------------------------------------
(* Tables with one or two processors, two IO APICs, overrides and NMI       *)
(* entries, in every order.                                                 *)
Lapic(i, f) == [type |-> "lapic", id |-> i, uid |-> 10 + i, flags |-> f]
Ioapic(b) == [type |-> "ioapic", base |-> b]
Iso(s, g, p, t) == [type |-> "iso", source |-> s, gsi |-> g, polarity |-> p, trigger |-> t]
Nmi(u, l, p, t) == [type |-> "nmi", uid |-> u, lint |-> l, polarity |-> p, trigger |-> t]

Core == {Lapic(0, "enabled"), Ioapic(0), Ioapic(2)}
Optional ==
  {Lapic(1, "capable"), Lapic(3, "enabled"),
   Iso(0, 2, "conform", "conform"), Iso(0, 3, "high", "edge"), Iso(1, 0, "conform", "edge"),
   Nmi(255, 1, "conform", "conform"), Nmi(10, 0, "low", "level"), Nmi(11, 1, "high", "level")}

(* Two overrides never name the same line, nor does an NMI entry name a     *)
(* processor that is not there.                                             *)
WellFormed(S) ==
  /\ \A e, f \in S : e.type = "iso" /\ f.type = "iso" /\ e # f => e.source # f.source /\ e.gsi # f.gsi
  /\ Iso(1, 0, "conform", "edge") \in S => \E e \in S : e.type = "iso" /\ e.source = 0
  /\ \A e \in S : e.type = "nmi" => e.uid = 255 \/ \E f \in S : f.type = "lapic" /\ f.uid = e.uid
  /\ \E e \in S : e.type = "iso"

(* Both orders of the IO APICs, then every order of the other entries.      *)
Orders(S) ==
  LET A == {e \in S : e.type = "ioapic"}
  IN {a \o b : a \in SetToSeqs(A), b \in SetToSeqs(S \ A)}

Tables ==
  UNION {Orders(Core \cup O) : O \in
    {P \in UNION {kSubset(k, Optional) : k \in 1..3} : WellFormed(Core \cup P)}}

Controllers == INSTANCE ApicSetup WITH
  Boot <- 0, Irqs <- {0, 1}, Vectors <- {65}, IoapicLines <- 2, AllUids <- 255

-----------------------------------------------------------------------------
(* A stage that is not looked at begins in one of its initial states.       *)
Shortest == <<Ioapic(0), Ioapic(2), Lapic(0, "enabled"), Iso(0, 2, "conform", "conform")>>
OneRange == <<[base_addr |-> 48, size |-> 24, type |-> 1, acpi |-> 1]>>

StartupInit ==
  /\ stage \in {"image", "memory", "controllers", "processors"}
  /\ IF stage = "image" THEN TRUE ELSE par = [volume |-> 12, fat |-> 1, cluster |-> 1, code |-> 0]
  /\ IF stage = "controllers" THEN madt \in Madts ELSE madt = Shortest
  /\ IF stage = "processors" THEN TRUE ELSE icr_high = 0
  /\ IF stage = "memory" THEN Memory!Init
     ELSE /\ items = OneRange /\ loader = [item |-> 1, first_frame |-> 56]
          /\ free = <<>> /\ ram = <<>> /\ map = <<>> /\ map_pc = "fill"
  /\ Image!Init /\ Controllers!NothingDone /\ Init

StartupNext ==
  \/ stage = "image" /\ Image!Next /\ UNCHANGED <<stage, memoryVars, apicVars, vars>>
  \/ stage = "memory" /\ Memory!Next /\ UNCHANGED <<stage, diskVars, apicVars, vars>>
  \/ stage = "controllers" /\ Controllers!Next /\ UNCHANGED <<stage, diskVars, memoryVars, vars>>
  \/ stage = "processors" /\ Next /\ UNCHANGED <<stage, diskVars, memoryVars, apicVars>>

StartupSpec ==
  /\ StartupInit /\ [][StartupNext]_<<stage, diskVars, memoryVars, apicVars, vars>>
  /\ WF_vars(stage = "processors" /\ BspStep) /\ WF_vars(stage = "processors" /\ Tick)
  /\ \A a \in AP : WF_vars(stage = "processors" /\ ApStep(a))

-----------------------------------------------------------------------------
(* fat32_maker stays inside its partition, and what it leaves behind after  *)
(* a run without an error can be read.                                      *)
ImageSound == Image!ImageSound

(* The free ranges, the RAM and the sums that bootloader_data.c computes    *)
(* are exactly what the firmware's list and the boot loader leave.          *)
MemoryMapExact == Memory!MemoryMapExact

(* LINT pins and redirection entries are programmed as the MADT says.       *)
ControllersExact == Controllers!ControllersExact

(* When the processors are started and all react, init_APs returns.         *)
ProcessorsComeUp == stage = "processors" => AllComeUp
=============================================================================

---------------------------- MODULE MpStartProofs ---------------------------
(***************************************************************************)
(* Proofs about the start of the application processors: the stacks, the   *)
(* CPU ids, the shootdown queues and the count of started processors, for  *)
(* any number of processors that any start-up IPI may start at any time.   *)
(***************************************************************************)
EXTENDS MpStart, FiniteSetTheorems, SequenceTheorems, TLAPS

(* The bootstrap processor.                                                 *)
BspPositions == {"start", "wait_10ms", "loop", "wait_first", "again", "wait_second",
                 "poll", "wait_1ms", "returned"}

BspInv ==
  /\ bsp \in BspPositions /\ ticked \in BOOLEAN /\ index \in 1 .. Len(LapicIds) + 1
  /\ bsp \in {"wait_first", "again", "wait_second"} => index <= Len(LapicIds)
  /\ bsp = "start" => \A a \in AP : ap[a] = "firmware"

(* The trampoline: its lock is held while a processor copies cpu_count and  *)
(* increments it, and cpu_count is the number of processors that have done  *)
(* so.                                                                      *)
TrampInv ==
  /\ ap \in [AP -> Positions] /\ tramp_lock \in AP \cup {-1}
  /\ cpu_count \in Nat /\ stack \in [AP -> -1 .. Cores]
  /\ cpu_count = Cardinality(AtOneOf(Counting))
  /\ \A a \in AP : ap[a] \in {"locked", "has_stack"} => tramp_lock = a
  /\ \A a \in AP : ap[a] = "has_stack" => stack[a] = cpu_count
  /\ \A a \in AtOneOf(Counting) : stack[a] \in 0 .. cpu_count - 1
  /\ \A a, b \in AtOneOf(Counting) : stack[a] = stack[b] => a = b

Elements == [cpu_id : Nat, apic_id : Nat]

(* The list of kernel_data.c: one element per registered processor, at the  *)
(* place of its id.                                                         *)
ListInv ==
  /\ list \in Seq(Elements) /\ cpuid \in [AP -> -1 .. Cores]
  /\ Len(list) = Cardinality(AtOneOf(Registered)) + 1
  /\ \A i \in 1 .. Len(list) : list[i].cpu_id = i - 1
  /\ \A a \in AtOneOf(Registered) : cpuid[a] \in 1 .. Len(list) - 1
  /\ \A a, b \in AtOneOf(Registered) : cpuid[a] = cpuid[b] => a = b
  /\ \A i \in 1 .. Len(list) - 1 : \E a \in AtOneOf(Registered) : cpuid[a] = i

(* An APIC id stands in the list only where its processor has put it.       *)
Set == {"set"} \cup Active

OwnInv ==
  /\ \A a \in AP : \A i \in 1 .. Len(list) :
       list[i].apic_id = a <=> (a \in AtOneOf(Set) /\ cpuid[a] = i - 1)
  /\ QueuesActivatedByOwner

CountInv ==
  /\ initialized_APs = Cardinality(AtOneOf({"running"}))
  /\ result \in {"none", "ERROR_MP_OK"}
  /\ result = "ERROR_MP_OK" => AtOneOf({"running"}) = AP

IndInv == BspInv /\ TrampInv /\ ListInv /\ CountInv

-----------------------------------------------------------------------------
(* Counting processors.                                                     *)

LEMMA CoresFacts == Cardinality(AP) \in Nat /\ Cores \in Nat /\ Cores = Cardinality(AP) + 1
BY MpStartAssumption, FS_CardinalityType DEF Cores

LEMMA CountFacts ==
  ASSUME NEW S \in SUBSET AP
  PROVE  /\ IsFiniteSet(S) /\ Cardinality(S) \in 0 .. Cardinality(AP)
         /\ Cardinality(S) = Cardinality(AP) => S = AP
         /\ \A a \in AP \ S : /\ Cardinality(S \cup {a}) = Cardinality(S) + 1
                              /\ Cardinality(S) < Cardinality(AP)
<1>1. IsFiniteSet(S) /\ Cardinality(S) <= Cardinality(AP)
      /\ (Cardinality(S) = Cardinality(AP) => S = AP)
  BY MpStartAssumption, FS_Subset, Zenon
<1>2. Cardinality(S) \in Nat /\ Cardinality(AP) \in Nat
  BY <1>1, CoresFacts, FS_CardinalityType, Zenon
<1>3. ASSUME NEW a \in AP \ S
      PROVE  Cardinality(S \cup {a}) = Cardinality(S) + 1 /\ Cardinality(S) < Cardinality(AP)
  <2>1. Cardinality(S \cup {a}) = Cardinality(S) + 1
    BY <1>1, <1>3, FS_AddElement, Zenon
  <2>2. S # AP
    BY <1>3, Zenon
  <2> QED
    BY <2>1, <2>2, <1>1, <1>2
<1> QED
  BY <1>1, <1>2, <1>3

(* What a step of one processor does to a set of processors.                *)
LEMMA Stays ==
  ASSUME NEW P, NEW a \in AP, NEW from, NEW to,
         ap \in [AP -> Positions], Goto(a, from, to), from \in P <=> to \in P
  PROVE  AtOneOf(P)' = AtOneOf(P)
BY Zenon DEF Goto, AtOneOf

LEMMA Joins ==
  ASSUME NEW P, NEW a \in AP, NEW from, NEW to,
         ap \in [AP -> Positions], Goto(a, from, to), from \notin P, to \in P
  PROVE  AtOneOf(P)' = AtOneOf(P) \cup {a} /\ a \notin AtOneOf(P)
BY Zenon DEF Goto, AtOneOf

-----------------------------------------------------------------------------
LEMMA InitHolds == Init => IndInv
<1> SUFFICES ASSUME Init PROVE IndInv
  BY Zenon
<1>1. AtOneOf(Counting) = {} /\ AtOneOf(Registered) = {} /\ AtOneOf({"running"}) = {}
  BY Zenon DEF Init, AtOneOf, Counting, Registered, Active
<1>2. Cardinality({}) = 0
  BY FS_EmptySet, Zenon
<1>3. BspInv
  <2>1. Len(LapicIds) \in Nat
    BY MpStartAssumption
  <2>2. index \in 1 .. Len(LapicIds) + 1
    BY <2>1 DEF Init
  <2>3. bsp = "start" /\ ticked = FALSE /\ \A a \in AP : ap[a] = "firmware"
    BY Zenon DEF Init
  <2> QED
    BY <2>2, <2>3, Zenon DEF BspInv, BspPositions
<1>4. TrampInv
  <2>1. stack \in [AP -> -1 .. Cores]
    BY CoresFacts DEF Init
  <2>2. ap \in [AP -> Positions]
    BY Zenon DEF Init, Positions
  <2>3. tramp_lock = -1 /\ cpu_count = 0 /\ \A a \in AP : ap[a] = "firmware"
    BY Zenon DEF Init
  <2> QED
    BY <1>1, <1>2, <2>1, <2>2, <2>3 DEF TrampInv
<1>5. ListInv
  <2>1. cpuid \in [AP -> -1 .. Cores]
    BY CoresFacts DEF Init
  <2>2. list = <<[cpu_id |-> 0, apic_id |-> 0]>>
    BY Zenon DEF Init, BSP
  <2>3. list \in Seq(Elements) /\ Len(list) = 1 /\ list[1].cpu_id = 0
    BY <2>2 DEF Elements
  <2> QED
    BY <1>1, <1>2, <2>1, <2>3 DEF ListInv
<1>6. CountInv
  BY <1>1, <1>2, MpStartAssumption, Zenon DEF Init, CountInv
<1> QED
  BY <1>3, <1>4, <1>5, <1>6 DEF IndInv

-----------------------------------------------------------------------------
(* What the bootstrap processor does to the others: it moves them on before *)
(* they have run any code of the kernel.                                    *)
Early == {"firmware", "wait_for_sipi", "trampoline"}

Late == Positions \ Early

OnlyEarly ==
  /\ ap' \in [AP -> Positions]
  /\ \A a \in AP : ap'[a] = ap[a] \/ (ap[a] \in Early /\ ap'[a] \in Early)
  /\ UNCHANGED <<trampVars, dataVars>>

LEMMA SendInitEarly == ASSUME IndInv, SendInit PROVE OnlyEarly
<1>1. \A a \in AP : ap[a] = "firmware"
  BY Zenon DEF IndInv, BspInv, SendInit
<1> QED
  BY <1>1, Zenon DEF SendInit, OnlyEarly, Early, Positions, InitTargets

LEMMA SipiEarly ==
  ASSUME IndInv, NEW t, send_startup_IPI(t), UNCHANGED <<trampVars, dataVars>>
  PROVE  OnlyEarly
BY DEF send_startup_IPI, OnlyEarly, IndInv, TrampInv, Early, Positions

LEMMA BspEarly == ASSUME IndInv, BspStep \/ Tick PROVE OnlyEarly
<1>1. CASE SendInit
  BY <1>1, SendInitEarly
<1>2. CASE StartProcessor
  BY <1>2, SipiEarly, Zenon DEF StartProcessor
<1>3. CASE StartAgain
  BY <1>3, SipiEarly DEF StartAgain
<1>4. CASE WaitOver \/ SkipSelf \/ AllAsked \/ Poll \/ Tick
  <2>1. UNCHANGED <<ap, trampVars, dataVars>>
    BY <1>4 DEF WaitOver, SkipSelf, AllAsked, Poll, Tick
  <2> QED
    BY <2>1, Zenon DEF IndInv, TrampInv, OnlyEarly
<1> QED
  BY <1>1, <1>2, <1>3, <1>4 DEF BspStep

LEMMA EarlyKeeps ==
  ASSUME IndInv, OnlyEarly, NEW P \in SUBSET Late
  PROVE  AtOneOf(P)' = AtOneOf(P)
BY Zenon DEF OnlyEarly, AtOneOf, Late

LEMMA EarlySets ==
  ASSUME IndInv, OnlyEarly
  PROVE  /\ UNCHANGED <<AtOneOf(Counting), AtOneOf(Registered), AtOneOf(Set), AtOneOf(Active)>>
         /\ AtOneOf({"running"})' = AtOneOf({"running"})
         /\ \A a \in AP : ap'[a] \in {"locked", "has_stack"} => ap[a] = ap'[a]
<1>1. /\ Counting \in SUBSET Late /\ Registered \in SUBSET Late /\ Set \in SUBSET Late
      /\ Active \in SUBSET Late /\ {"running"} \in SUBSET Late
  BY DEF Counting, Registered, Set, Active, Late, Positions, Early
<1>2. UNCHANGED <<AtOneOf(Counting), AtOneOf(Registered), AtOneOf(Set), AtOneOf(Active)>>
  BY <1>1, EarlyKeeps, Zenon
<1>3. AtOneOf({"running"})' = AtOneOf({"running"})
  BY <1>1, EarlyKeeps, Zenon
<1>4. \A a \in AP : ap'[a] \in {"locked", "has_stack"} => ap[a] = ap'[a]
  BY Zenon DEF OnlyEarly, Early
<1> QED
  BY <1>2, <1>3, <1>4

-----------------------------------------------------------------------------
(* Steps of the bootstrap processor.                                        *)

(* The list of CPUs stays as it is when nobody registers.                    *)
LEMMA ListStays ==
  ASSUME ListInv, UNCHANGED <<list, cpuid, AtOneOf(Registered)>>
  PROVE  ListInv'
<1> DEFINE ListOf(l, c, R) ==
             /\ l \in Seq(Elements) /\ c \in [AP -> -1 .. Cores]
             /\ Len(l) = Cardinality(R) + 1
             /\ \A i \in 1 .. Len(l) : l[i].cpu_id = i - 1
             /\ \A a \in R : c[a] \in 1 .. Len(l) - 1
             /\ \A a, b \in R : c[a] = c[b] => a = b
             /\ \A i \in 1 .. Len(l) - 1 : \E a \in R : c[a] = i
<1>1. ListOf(list, cpuid, AtOneOf(Registered))
  BY Zenon DEF ListInv
<1>2. ListOf(list', cpuid', AtOneOf(Registered)')
  <2> HIDE DEF ListOf
  <2> QED
    BY <1>1, Zenon
<1> QED
  BY <1>2, Zenon DEF ListInv

LEMMA BspKeepsTramp == ASSUME IndInv, OnlyEarly PROVE TrampInv'
<1>1. ap' \in [AP -> Positions] /\ UNCHANGED <<tramp_lock, cpu_count, stack>>
  BY Zenon DEF OnlyEarly, trampVars
<1> QED
  BY <1>1, EarlySets DEF IndInv, TrampInv

LEMMA BspKeepsList == ASSUME IndInv, OnlyEarly PROVE ListInv'
<1>1. UNCHANGED <<list, cpuid>>
  BY Zenon DEF OnlyEarly, dataVars
<1> QED
  BY <1>1, EarlySets, ListStays, Zenon DEF IndInv

LEMMA BspKeepsBsp == ASSUME IndInv, BspStep \/ Tick PROVE BspInv'
<1>0. Len(LapicIds) \in Nat
  BY MpStartAssumption
<1>1. CASE SendInit
  BY <1>1, <1>0, Zenon DEF IndInv, BspInv, SendInit, BspPositions
<1>2. CASE WaitOver
  <2>1. CASE bsp = "wait_second"
    BY <1>2, <2>1, <1>0 DEF IndInv, BspInv, WaitOver, BspPositions
  <2>2. CASE bsp # "wait_second"
    <3>1. index' = index /\ ticked' = ticked
      BY <1>2, <2>2, Zenon DEF WaitOver
    <3>2. bsp' \in {"loop", "again", "poll"} /\ (bsp' = "again" => bsp = "wait_first")
      BY <1>2, <2>2, Zenon DEF WaitOver
    <3> QED
      BY <3>1, <3>2, <1>0, Zenon DEF IndInv, BspInv, BspPositions
  <2> QED
    BY <2>1, <2>2, Zenon
<1>3. CASE StartProcessor
  BY <1>3, <1>0, Zenon DEF IndInv, BspInv, StartProcessor, BspPositions
<1>4. CASE SkipSelf
  BY <1>4, <1>0 DEF IndInv, BspInv, SkipSelf, BspPositions
<1>5. CASE StartAgain
  BY <1>5, <1>0, Zenon DEF IndInv, BspInv, StartAgain, BspPositions
<1>6. CASE AllAsked
  BY <1>6, <1>0 DEF IndInv, BspInv, AllAsked, BspPositions
<1>7. CASE Poll
  <2>1. bsp' \in {"wait_1ms", "returned"} /\ ticked' = FALSE /\ index' = index
    BY <1>7 DEF Poll
  <2> QED
    BY <2>1, <1>0, Zenon DEF IndInv, BspInv, BspPositions
<1>8. CASE Tick
  BY <1>8, <1>0, Zenon DEF IndInv, BspInv, Tick, BspPositions
<1> QED
  BY <1>1, <1>2, <1>3, <1>4, <1>5, <1>6, <1>7, <1>8, Zenon DEF BspStep

(* init_APs returns only when the count has reached the number of           *)
(* application processors, which it never exceeds.                          *)
LEMMA BspKeepsCount == ASSUME IndInv, BspStep \/ Tick PROVE CountInv'
<1> DEFINE R == AtOneOf({"running"})
<1>1. R' = R /\ initialized_APs' = initialized_APs
  BY BspEarly, EarlySets, Zenon DEF OnlyEarly, dataVars
<1>2. CASE ~Poll
  <2>1. result' = result
    BY <1>2, Zenon DEF BspStep, SendInit, WaitOver, StartProcessor, SkipSelf, StartAgain, AllAsked, Tick
  <2> QED
    BY <1>1, <2>1 DEF IndInv, CountInv
<1>3. CASE Poll
  <2>1. R \in SUBSET AP
    BY Zenon DEF AtOneOf
  <2>2. initialized_APs = Cardinality(R) /\ Cardinality(R) \in 0 .. Cardinality(AP)
        /\ (Cardinality(R) = Cardinality(AP) => R = AP)
    BY <2>1, CountFacts, Zenon DEF IndInv, CountInv
  <2>3. NumberOfAPs = Cardinality(AP) /\ Cardinality(AP) \in Nat
    BY CoresFacts DEF NumberOfAPs
  <2>4. CASE initialized_APs < NumberOfAPs
    <3>1. ~(initialized_APs = NumberOfAPs) /\ ~(initialized_APs > NumberOfAPs)
      BY <2>2, <2>3, <2>4
    <3>2. result' = "none"
      BY <1>3, <2>4, <3>1 DEF Poll
    <3> QED
      BY <1>1, <2>2, <3>2 DEF CountInv
  <2>5. CASE initialized_APs = NumberOfAPs
    <3>1. ~(initialized_APs < NumberOfAPs) /\ ~(initialized_APs > NumberOfAPs)
      BY <2>5, <2>3
    <3>2. result' = "ERROR_MP_OK"
      BY <1>3, <2>5, <3>1 DEF Poll
    <3> QED
      BY <1>1, <2>2, <2>3, <2>5, <3>2 DEF CountInv
  <2> QED
    BY <2>2, <2>3, <2>4, <2>5
<1> QED
  BY <1>2, <1>3

LEMMA BspStepHolds == ASSUME IndInv, BspStep \/ Tick PROVE IndInv'
BY BspEarly, BspKeepsTramp, BspKeepsList, BspKeepsBsp, BspKeepsCount DEF IndInv

-----------------------------------------------------------------------------
(* Steps of an application processor.                                       *)

LEMMA ApKeepsBsp ==
  ASSUME IndInv, NEW a \in AP, ApStep(a)
  PROVE  BspInv' /\ bsp # "start" /\ ap' \in [AP -> Positions]
<1>1. UNCHANGED bspVars
  BY Zenon DEF ApStep, TrampolineLock, TakeStack, TrampolineDone, register_local_kernel_data_cpu,
         set_local_kernel_data, ActivateQueue, Started
<1>2. ap[a] # "firmware"
  BY Zenon DEF ApStep, TrampolineLock, TakeStack, TrampolineDone, register_local_kernel_data_cpu,
         set_local_kernel_data, ActivateQueue, Started, Goto
<1>3. bsp # "start"
  BY <1>2 DEF IndInv, BspInv
<1>4. PICK p \in Positions : ap' = [ap EXCEPT ![a] = p]
  BY Zenon DEF ApStep, TrampolineLock, TakeStack, TrampolineDone, register_local_kernel_data_cpu,
         set_local_kernel_data, ActivateQueue, Started, Goto, Positions
<1>5. ap' \in [AP -> Positions]
  BY <1>4 DEF IndInv, TrampInv
<1> QED
  BY <1>1, <1>3, <1>5, Zenon DEF IndInv, BspInv, bspVars

(* The lock keeps every other processor out of the trampoline.              *)
LEMMA TrampolineLockStep ==
  ASSUME IndInv, NEW a \in AP, TrampolineLock(a)
  PROVE  TrampInv' /\ ListInv' /\ CountInv'
<1> USE DEF IndInv
<1>1. ap' = [ap EXCEPT ![a] = "locked"] /\ ap[a] = "trampoline" /\ ap \in [AP -> Positions]
      /\ tramp_lock = -1 /\ tramp_lock' = a
      /\ UNCHANGED <<cpu_count, stack, list, cpuid, initialized_APs, result>>
  BY DEF TrampolineLock, LockFree, Goto, dataVars, bspVars, TrampInv
<1>2. UNCHANGED <<AtOneOf(Counting), AtOneOf(Registered)>>
      /\ AtOneOf({"running"})' = AtOneOf({"running"})
  BY Stays, Zenon DEF TrampolineLock, Counting, Registered, Active, TrampInv
<1>3. TrampInv'
  <2>1. \A b \in AP : ap'[b] \in {"locked", "has_stack"} => b = a
    <3>1. tramp_lock \notin AP
      BY <1>1, MpStartAssumption
    <3> QED
      BY <1>1, <3>1, Zenon DEF TrampInv
  <2>2. ap' \in [AP -> Positions]
    BY <1>1, Zenon DEF Positions
  <2> QED
    BY <1>1, <1>2, <2>1, <2>2 DEF TrampInv
<1>4. ListInv'
  BY <1>1, <1>2, ListStays, Zenon
<1>5. CountInv'
  BY <1>1, <1>2, Zenon DEF CountInv
<1> QED
  BY <1>3, <1>4, <1>5

(* A processor that is inside has not been counted, so cpu_count is less    *)
(* than the number of stacks.                                               *)
LEMMA CounterBelow ==
  ASSUME IndInv, NEW a \in AP, ap[a] \in {"locked", "has_stack"}
  PROVE  cpu_count \in 0 .. APs_count - 1
<1>1. AtOneOf(Counting) \in SUBSET AP /\ a \in AP \ AtOneOf(Counting)
  BY Zenon DEF AtOneOf, Counting, Registered, Active
<1>2. Cardinality(AtOneOf(Counting)) < Cardinality(AP)
  BY <1>1, CountFacts, Zenon
<1> QED
  BY <1>2, CoresFacts DEF IndInv, TrampInv, APs_count

LEMMA TakeStackStep ==
  ASSUME IndInv, NEW a \in AP, TakeStack(a)
  PROVE  TrampInv' /\ ListInv' /\ CountInv'
<1> USE DEF IndInv
<1>1. ap' = [ap EXCEPT ![a] = "has_stack"] /\ ap[a] = "locked" /\ ap \in [AP -> Positions]
      /\ stack' = [stack EXCEPT ![a] = cpu_count]
      /\ UNCHANGED <<cpu_count, tramp_lock, list, cpuid, initialized_APs, result>>
  BY Zenon DEF TakeStack, Goto, dataVars, bspVars, TrampInv
<1>2. UNCHANGED <<AtOneOf(Counting), AtOneOf(Registered)>>
      /\ AtOneOf({"running"})' = AtOneOf({"running"})
  BY Stays, Zenon DEF TakeStack, Counting, Registered, Active, TrampInv
<1>3. TrampInv'
  <2>1. \A b \in AP : ap'[b] \in {"locked", "has_stack"} => b = a
    BY <1>1, Zenon DEF TrampInv
  <2>2. tramp_lock = a
    BY <1>1, Zenon DEF TrampInv
  <2>3. cpu_count \in -1 .. Cores
    BY <1>1, CounterBelow, CoresFacts DEF APs_count
  <2>4. ap' \in [AP -> Positions] /\ stack' \in [AP -> -1 .. Cores]
    BY <1>1, <2>3, Zenon DEF Positions, TrampInv
  <2>5. stack'[a] = cpu_count
    BY <1>1, Zenon DEF TrampInv
  <2>6. \A b \in AtOneOf(Counting) : b # a /\ stack'[b] = stack[b]
    BY <1>1 DEF TrampInv, AtOneOf, Counting, Registered, Active
  <2> QED
    BY <1>1, <1>2, <2>1, <2>2, <2>4, <2>5, <2>6 DEF TrampInv
<1>4. ListInv'
  BY <1>1, <1>2, ListStays, Zenon
<1>5. CountInv'
  BY <1>1, <1>2 DEF CountInv
<1> QED
  BY <1>3, <1>4, <1>5, Zenon

LEMMA TrampolineDoneStep ==
  ASSUME IndInv, NEW a \in AP, TrampolineDone(a)
  PROVE  TrampInv' /\ ListInv' /\ CountInv'
<1> USE DEF IndInv
<1> DEFINE C == AtOneOf(Counting)
<1>1. ap' = [ap EXCEPT ![a] = "entry"] /\ ap[a] = "has_stack" /\ ap \in [AP -> Positions]
      /\ cpu_count' = cpu_count + 1 /\ tramp_lock' = -1
      /\ UNCHANGED <<stack, list, cpuid, initialized_APs, result>>
  BY Zenon DEF TrampolineDone, Goto, dataVars, bspVars, TrampInv
<1>2. UNCHANGED AtOneOf(Registered) /\ AtOneOf({"running"})' = AtOneOf({"running"})
  BY Stays, Zenon DEF TrampolineDone, Registered, Active, TrampInv
<1>3. C' = C \cup {a} /\ a \notin C
  BY Joins, Zenon DEF TrampolineDone, Counting, Registered, Active, TrampInv
<1>4. TrampInv'
  <2>1. \A b \in AP : ap'[b] \notin {"locked", "has_stack"}
    BY <1>1, Zenon DEF TrampInv
  <2>2. ap' \in [AP -> Positions]
    BY <1>1, Zenon DEF Positions
  <2>3. C \in SUBSET AP /\ a \in AP \ C
    BY <1>3, Zenon DEF AtOneOf
  <2>4. Cardinality(C') = Cardinality(C) + 1
    BY <1>3, <2>3, CountFacts
  <2>5. cpu_count \in Nat /\ cpu_count' = Cardinality(C')
    BY <1>1, <2>4, Zenon DEF TrampInv
  <2>6. stack[a] = cpu_count /\ \A b \in C : stack[b] \in 0 .. cpu_count - 1
    BY <1>1, Zenon DEF TrampInv
  <2>7. \A b \in C' : stack'[b] \in 0 .. cpu_count' - 1
    BY <1>1, <1>3, <2>5, <2>6
  <2>8. \A b \in C : stack[b] # stack[a]
    BY <2>5, <2>6
  <2>9. \A b, d \in C' : stack'[b] = stack'[d] => b = d
    BY <1>1, <1>3, <2>8 DEF TrampInv
  <2> HIDE DEF C
  <2>10. cpu_count' = Cardinality(AtOneOf(Counting))'
         /\ (\A b \in AtOneOf(Counting) : stack[b] \in 0 .. cpu_count - 1)'
         /\ (\A b, d \in AtOneOf(Counting) : stack[b] = stack[d] => b = d)'
    BY <2>5, <2>7, <2>9 DEF C
  <2> QED
    BY <1>1, <2>1, <2>2, <2>5, <2>10 DEF TrampInv
<1>5. ListInv'
  BY <1>1, <1>2, ListStays, Zenon
<1>6. CountInv'
  BY <1>1, <1>2, Zenon DEF CountInv
<1> QED
  BY <1>4, <1>5, <1>6, Zenon

(* Behind the trampoline a step leaves what the trampoline owns alone.      *)
LEMMA BehindTrampoline ==
  ASSUME IndInv, NEW a \in AP, NEW from \in Counting, NEW to \in Counting,
         Goto(a, from, to), UNCHANGED trampVars
  PROVE  TrampInv'
<1>1. ap \in [AP -> Positions] /\ ap' = [ap EXCEPT ![a] = to]
      /\ UNCHANGED <<tramp_lock, cpu_count, stack>>
  BY Zenon DEF IndInv, TrampInv, Goto, trampVars
<1>2. AtOneOf(Counting)' = AtOneOf(Counting)
  BY <1>1, Stays, Zenon
<1>3. to \in Positions /\ to \notin {"locked", "has_stack"}
  BY Zenon DEF Counting, Registered, Active, Positions
<1>4. ap' \in [AP -> Positions]
  BY <1>1, <1>3, Zenon
<1>5. \A b \in AP : ap'[b] \in {"locked", "has_stack"} => ap[b] = ap'[b]
  BY <1>1, <1>3, Zenon
<1> QED
  BY <1>1, <1>2, <1>4, <1>5 DEF IndInv, TrampInv

LEMMA RegisterStep ==
  ASSUME IndInv, NEW a \in AP, register_local_kernel_data_cpu(a)
  PROVE  TrampInv' /\ ListInv' /\ CountInv'
<1> DEFINE R == AtOneOf(Registered)
           n == Len(list)
<1>0. ap \in [AP -> Positions] /\ list \in Seq(Elements) /\ n \in Nat
      /\ cpuid \in [AP -> -1 .. Cores]
  BY DEF IndInv, TrampInv, ListInv
<1>1. PICK g \in Garbage : list' = Append(list, [cpu_id |-> n, apic_id |-> g])
  BY Zenon DEF register_local_kernel_data_cpu, NextCpuId
<1>2. cpuid' = [cpuid EXCEPT ![a] = n] /\ UNCHANGED <<initialized_APs, result>>
  BY Zenon DEF register_local_kernel_data_cpu, NextCpuId, bspVars
<1>3. TrampInv'
  BY BehindTrampoline, Zenon DEF register_local_kernel_data_cpu, Counting, Registered
<1>4. R' = R \cup {a} /\ a \notin R
  BY <1>0, Joins, Zenon DEF register_local_kernel_data_cpu, Registered, Active
<1>5. AtOneOf({"running"})' = AtOneOf({"running"})
  BY <1>0, Stays, Zenon DEF register_local_kernel_data_cpu
<1>6. CountInv'
  BY <1>2, <1>5, Zenon DEF IndInv, CountInv
<1>7. n = Cardinality(R) + 1 /\ Cardinality(R') = Cardinality(R) + 1 /\ n \in 1 .. Cores
  <2>1. R \in SUBSET AP /\ a \in AP \ R
    BY <1>4, Zenon DEF AtOneOf
  <2>2. Cardinality(R) < Cardinality(AP) /\ Cardinality(R) \in 0 .. Cardinality(AP)
        /\ Cardinality(R \cup {a}) = Cardinality(R) + 1
    BY <2>1, CountFacts, Zenon
  <2>3. n = Cardinality(R) + 1
    BY Zenon DEF IndInv, ListInv
  <2> QED
    BY <1>4, <2>2, <2>3, CoresFacts
<1>8. /\ list' \in Seq(Elements) /\ Len(list') = n + 1
      /\ list'[n + 1] = [cpu_id |-> n, apic_id |-> g]
      /\ \A i \in 1 .. n : list'[i] = list[i]
  <2>1. [cpu_id |-> n, apic_id |-> g] \in Elements
    BY <1>0, MpStartAssumption DEF Elements
  <2> QED
    BY <1>0, <1>1, <2>1
<1>9. /\ cpuid' \in [AP -> -1 .. Cores] /\ cpuid'[a] = n
      /\ \A b \in R : cpuid'[b] = cpuid[b] /\ cpuid[b] \in 1 .. n - 1
  <2>1. n \in -1 .. Cores
    BY <1>7, CoresFacts
  <2>2. cpuid' \in [AP -> -1 .. Cores] /\ cpuid'[a] = n
    BY <1>0, <1>2, <2>1
  <2>3. R \in SUBSET AP
    BY Zenon DEF AtOneOf
  <2>4. \A b \in R : cpuid'[b] = cpuid[b]
    BY <1>0, <1>2, <1>4, <2>3
  <2>5. \A b \in R : cpuid[b] \in 1 .. n - 1
    BY Zenon DEF IndInv, ListInv
  <2> QED
    BY <2>2, <2>4, <2>5, Zenon
<1>10. ListInv'
  <2>1. \A i \in 1 .. Len(list') : list'[i].cpu_id = i - 1
    <3>1. \A i \in 1 .. n : list[i].cpu_id = i - 1
      BY Zenon DEF IndInv, ListInv
    <3> QED
      BY <1>0, <1>8, <3>1
  <2>2. \A b \in R' : cpuid'[b] \in 1 .. Len(list') - 1
    BY <1>4, <1>7, <1>8, <1>9, CoresFacts
  <2>3. \A b, d \in R' : cpuid'[b] = cpuid'[d] => b = d
    <3>1. \A b, d \in R : cpuid[b] = cpuid[d] => b = d
      BY Zenon DEF IndInv, ListInv
    <3>2. \A b \in R : cpuid[b] # n
      BY <1>0, <1>9
    <3> QED
      BY <1>4, <1>9, <3>1, <3>2, Zenon
  <2>4. \A i \in 1 .. Len(list') - 1 : \E b \in R' : cpuid'[b] = i
    <3>1. \A i \in 1 .. n - 1 : \E b \in R : cpuid[b] = i
      BY DEF IndInv, ListInv
    <3>2. Len(list') - 1 = n
      BY <1>0, <1>8
    <3>3. ASSUME NEW i \in 1 .. n - 1 PROVE \E b \in R' : cpuid'[b] = i
      <4>1. PICK b \in R : cpuid[b] = i
        BY <3>1, <3>3
      <4>2. b \in R' /\ cpuid'[b] = i
        BY <1>4, <1>9, <4>1
      <4> QED
        BY <4>2, Zenon
    <3>4. \E b \in R' : cpuid'[b] = n
      BY <1>4, <1>9
    <3>5. \A i \in 1 .. n : i = n \/ i \in 1 .. n - 1
      BY <1>0
    <3> QED
      BY <3>2, <3>3, <3>4, <3>5
  <2>5. Len(list') = Cardinality(R') + 1
    BY <1>7, <1>8, Zenon
  <2> QED
    BY <1>8, <1>9, <2>1, <2>2, <2>3, <2>4, <2>5 DEF ListInv
<1> QED
  BY <1>3, <1>6, <1>10, Zenon

LEMMA FirstOfOne == ASSUME NEW k \in Int PROVE First({k}) = k
<1>1. \E i \in {k} : \A j \in {k} : i <= j
  OBVIOUS
<1>2. (CHOOSE i \in {k} : \A j \in {k} : i <= j) \in {k}
  BY <1>1, Zenon
<1> QED
  BY <1>2, Zenon DEF First

(* A registered processor finds the element that was made for it.           *)
LEMMA SetAtOwn ==
  ASSUME IndInv, NEW a \in AP, ap[a] \in Registered
  PROVE  SetAt(a) = cpuid[a] + 1 /\ SetAt(a) \in 1 .. Len(list) /\ cpuid[a] \in Nat
<1>1. Len(list) \in Nat /\ DOMAIN list = 1 .. Len(list)
  BY LenProperties, Zenon DEF IndInv, ListInv
<1>2. cpuid[a] \in 1 .. Len(list) - 1
  BY Zenon DEF IndInv, ListInv, AtOneOf
<1>3. {i \in DOMAIN list : list[i].cpu_id = cpuid[a]} = {cpuid[a] + 1}
  <2>1. \A i \in 1 .. Len(list) : list[i].cpu_id = i - 1
    BY Zenon DEF IndInv, ListInv
  <2>2. ASSUME NEW i \in 1 .. Len(list) PROVE list[i].cpu_id = cpuid[a] <=> i = cpuid[a] + 1
    <3>1. list[i].cpu_id = i - 1
      BY <2>1, Zenon
    <3> QED
      BY <1>1, <1>2, <3>1
  <2>3. cpuid[a] + 1 \in 1 .. Len(list)
    BY <1>1, <1>2
  <2> QED
    BY <1>1, <2>2, <2>3, Zenon
<1>4. SetAt(a) = cpuid[a] + 1
  BY <1>2, <1>3, FirstOfOne DEF SetAt
<1> QED
  BY <1>1, <1>2, <1>4

LEMMA ElementChanged ==
  ASSUME NEW r \in Elements, NEW a \in AP
  PROVE  LET e == [r EXCEPT !.apic_id = a]
         IN  e \in Elements /\ e.cpu_id = r.cpu_id /\ e.apic_id = a
<1>1. a \in Nat
  BY MpStartAssumption
<1> QED
  BY <1>1, Zenon DEF Elements

(* The element that is changed keeps its cpu_id.                            *)
LEMMA SetStep ==
  ASSUME IndInv, NEW a \in AP, set_local_kernel_data(a)
  PROVE  TrampInv' /\ ListInv' /\ CountInv'
<1>0. ap \in [AP -> Positions] /\ list \in Seq(Elements)
  BY Zenon DEF IndInv, TrampInv, ListInv
<1>1. list' = [list EXCEPT ![SetAt(a)].apic_id = a]
      /\ UNCHANGED <<cpuid, initialized_APs, result>>
  BY Zenon DEF set_local_kernel_data, bspVars
<1>2. TrampInv'
  BY BehindTrampoline, Zenon DEF set_local_kernel_data, Counting, Registered
<1>3. UNCHANGED AtOneOf(Registered) /\ AtOneOf({"running"})' = AtOneOf({"running"})
  BY <1>0, Stays DEF set_local_kernel_data, Registered
<1>4. CountInv'
  BY <1>1, <1>3, Zenon DEF IndInv, CountInv
<1>5. list' \in Seq(Elements) /\ Len(list') = Len(list)
      /\ \A i \in 1 .. Len(list) : list'[i].cpu_id = list[i].cpu_id
  <2> DEFINE k == SetAt(a)
             e == [list[k] EXCEPT !.apic_id = a]
  <2>1. k \in 1 .. Len(list)
    BY SetAtOwn, Zenon DEF set_local_kernel_data, Goto, Registered
  <2>2. list[k] \in Elements
    BY <1>0, <2>1, ElementOfSeq
  <2>3. e \in Elements /\ e.cpu_id = list[k].cpu_id
    BY <2>2, ElementChanged
  <2>4. list' = [list EXCEPT ![k] = e]
    BY <1>1, Zenon
  <2> HIDE DEF e, k
  <2>5. /\ list' \in Seq(Elements) /\ Len(list') = Len(list)
        /\ \A i \in 1 .. Len(list) : list'[i] = IF i = k THEN e ELSE list[i]
    BY <1>0, <2>1, <2>3, <2>4, ExceptSeq
  <2> QED
    BY <2>3, <2>5, Zenon
<1>6. ListInv'
  BY <1>1, <1>3, <1>5 DEF IndInv, ListInv
<1> QED
  BY <1>2, <1>4, <1>6, Zenon

LEMMA ActivateStep ==
  ASSUME IndInv, NEW a \in AP, ActivateQueue(a)
  PROVE  TrampInv' /\ ListInv' /\ CountInv'
<1>0. ap \in [AP -> Positions] /\ UNCHANGED <<list, cpuid, initialized_APs, result>>
  BY Zenon DEF IndInv, TrampInv, ActivateQueue, bspVars
<1>1. TrampInv'
  BY BehindTrampoline, Zenon DEF ActivateQueue, Counting, Registered, Active
<1>2. UNCHANGED AtOneOf(Registered) /\ AtOneOf({"running"})' = AtOneOf({"running"})
  BY <1>0, Stays, Zenon DEF ActivateQueue, Registered, Active
<1>3. ListInv'
  BY <1>0, <1>2, ListStays, Zenon DEF IndInv
<1>4. CountInv'
  BY <1>0, <1>2, Zenon DEF IndInv, CountInv
<1> QED
  BY <1>1, <1>3, <1>4

LEMMA StartedStep ==
  ASSUME IndInv, NEW a \in AP, Started(a)
  PROVE  TrampInv' /\ ListInv' /\ CountInv'
<1> DEFINE R == AtOneOf({"running"})
<1>0. ap \in [AP -> Positions] /\ UNCHANGED <<list, cpuid, result>>
      /\ initialized_APs' = initialized_APs + 1
  BY Zenon DEF IndInv, TrampInv, Started, bspVars, Counted
<1>1. TrampInv'
  BY BehindTrampoline DEF Started, Counting, Registered, Active
<1>2. UNCHANGED AtOneOf(Registered)
  BY <1>0, Stays, Zenon DEF Started, Registered, Active
<1>3. ListInv'
  BY <1>0, <1>2, ListStays, Zenon DEF IndInv
<1>4. R' = R \cup {a} /\ a \notin R
  BY <1>0, Joins, Zenon DEF Started
<1>5. R \in SUBSET AP /\ a \in AP \ R
  BY <1>4, Zenon DEF AtOneOf
<1>6. Cardinality(R') = Cardinality(R) + 1
  BY <1>4, <1>5, CountFacts, Zenon
<1>7. result # "ERROR_MP_OK"
  BY <1>5, Zenon DEF IndInv, CountInv
<1>8. CountInv'
  BY <1>0, <1>6, <1>7 DEF IndInv, CountInv
<1> QED
  BY <1>1, <1>3, <1>8

LEMMA StepHolds == IndInv /\ [Next]_vars => IndInv'
<1> SUFFICES ASSUME IndInv, [Next]_vars PROVE IndInv'
  BY Zenon
<1>1. CASE UNCHANGED vars
  BY <1>1, Zenon DEF IndInv, BspInv, TrampInv, ListInv, CountInv, AtOneOf, vars
<1>2. CASE BspStep \/ Tick
  BY <1>2, BspStepHolds, Zenon
<1>3. ASSUME NEW a \in AP, ApStep(a) PROVE IndInv'
  BY <1>3, ApKeepsBsp, TrampolineLockStep, TakeStackStep, TrampolineDoneStep, RegisterStep,
     SetStep, ActivateStep, StartedStep DEF IndInv, ApStep
<1> QED
  BY <1>1, <1>2, <1>3 DEF Next, Done

-----------------------------------------------------------------------------
(* The inductive invariant holds in every state.                            *)
THEOREM Invariance == Spec => []IndInv
BY InitHolds, StepHolds, PTL DEF Spec

(* Processors that run through the trampoline at the same time never share  *)
(* a stack, and unsync_set_up_mp_global_data has allocated enough of them.  *)
THEOREM StacksNotShared == Spec => []StacksDistinct
<1>1. IndInv => StacksDistinct
  <2> SUFFICES ASSUME IndInv, NEW a \in AtOneOf(WithStack)
               PROVE  /\ stack[a] \in 0 .. APs_count - 1
                      /\ \A b \in AtOneOf(WithStack) : stack[a] = stack[b] => a = b
    BY Zenon DEF StacksDistinct
  <2> DEFINE C == AtOneOf(Counting)
  <2>1. cpu_count \in Nat /\ cpu_count = Cardinality(C)
    BY Zenon DEF IndInv, TrampInv
  <2>2. \A b \in AtOneOf(WithStack) : b \in AP /\ (b \in C \/ ap[b] = "has_stack")
    BY Zenon DEF AtOneOf, WithStack
  <2>3. \A b \in C : stack[b] \in 0 .. cpu_count - 1
    BY Zenon DEF IndInv, TrampInv
  <2>4. \A b \in AP : ap[b] = "has_stack" => stack[b] = cpu_count /\ b = tramp_lock
    BY Zenon DEF IndInv, TrampInv
  <2>5. \A b, d \in C : stack[b] = stack[d] => b = d
    BY DEF IndInv, TrampInv
  <2>6. stack[a] \in 0 .. APs_count - 1
    <3>1. CASE ap[a] = "has_stack"
      BY <2>2, <2>4, <3>1, CounterBelow
    <3>2. CASE a \in C
      <4>1. cpu_count <= APs_count
        BY <2>1, CountFacts, CoresFacts DEF AtOneOf, APs_count
      <4>2. stack[a] \in 0 .. cpu_count - 1 /\ APs_count \in Nat
        BY <2>3, <3>2, CoresFacts DEF APs_count
      <4> QED
        BY <2>1, <4>1, <4>2
    <3> QED
      BY <2>2, <3>1, <3>2
  <2>7. ASSUME NEW b \in AtOneOf(WithStack), stack[a] = stack[b] PROVE a = b
    <3>1. \A d \in C : stack[d] # cpu_count
      BY <2>1, <2>3
    <3> QED
      BY <2>2, <2>4, <2>5, <2>7, <3>1
  <2> QED
    BY <2>6, <2>7
<1> QED
  BY <1>1, Invariance, PTL

(* The ids that register_local_kernel_data_cpu hands out are contiguous and *)
(* different, however the registrations interleave, and stay below the      *)
(* number of cores that sizes the arrays they index.                        *)
THEOREM IdsContiguous == Spec => []CpuIdsContiguous
<1>1. IndInv => CpuIdsContiguous
  <2> SUFFICES ASSUME IndInv PROVE CpuIdsContiguous
    BY Zenon
  <2> DEFINE R == AtOneOf(Registered)
  <2>1. {cpuid[a] : a \in R} = 1 .. Len(list) - 1
    <3>1. \A a \in R : cpuid[a] \in 1 .. Len(list) - 1
      BY Zenon DEF IndInv, ListInv
    <3>2. \A i \in 1 .. Len(list) - 1 : \E a \in R : cpuid[a] = i
      BY Zenon DEF IndInv, ListInv
    <3> HIDE DEF R
    <3> QED
      BY <3>1, <3>2, Zenon
  <2>2. \A a, b \in R : cpuid[a] = cpuid[b] => a = b
    BY Zenon DEF IndInv, ListInv
  <2>3. DOMAIN list = 1 .. Len(list) /\ Len(list) \in Nat
    BY LenProperties, Zenon DEF IndInv, ListInv
  <2>4. Len(list) <= Cores
    <3>1. Cardinality(R) \in 0 .. Cardinality(AP)
      BY CountFacts, Zenon DEF AtOneOf
    <3> QED
      BY <3>1, CoresFacts DEF IndInv, ListInv
  <2>5. \A i \in DOMAIN list : list[i].cpu_id = i - 1 /\ i <= Cores
    <3>1. \A i \in 1 .. Len(list) : list[i].cpu_id = i - 1
      BY Zenon DEF IndInv, ListInv
    <3> QED
      BY <2>3, <2>4, <3>1, CoresFacts
  <2> QED
    BY <2>1, <2>2, <2>5, Zenon DEF CpuIdsContiguous
<1> QED
  BY <1>1, Invariance, PTL

(* init_APs returns ERROR_MP_OK only after every processor has come up, and *)
(* its counter never passes their number.                                   *)
THEOREM OkOnlyWhenAllUp == Spec => []OkMeansAllUp
<1>1. IndInv => OkMeansAllUp
  BY Zenon DEF IndInv, CountInv, OkMeansAllUp
<1> QED
  BY <1>1, Invariance, PTL

(* The variables keep their types: in particular the loop of init_APs does  *)
(* not read past the array of APIC ids.                                     *)
THEOREM TypeCorrect == Spec => []TypeOK
<1>1. IndInv => TypeOK
  <2> SUFFICES ASSUME IndInv PROVE TypeOK
    BY Zenon
  <2>1. initialized_APs \in 0 .. Cores - 1
    <3>1. Cardinality(AtOneOf({"running"})) \in 0 .. Cardinality(AP)
      BY CountFacts, Zenon DEF AtOneOf
    <3> QED
      BY <3>1, CoresFacts DEF IndInv, CountInv
  <2>2. result \in {"none", "ERROR_MP_OK", "GENERIC_ERROR"}
    BY Zenon DEF IndInv, CountInv
  <2> QED
    BY <2>1, <2>2, Zenon DEF IndInv, BspInv, BspPositions, TrampInv, ListInv, TypeOK
<1> QED
  BY <1>1, Invariance, PTL

-----------------------------------------------------------------------------
(* Each processor its own queue, if the memory a list element is allocated  *)
(* in never holds the APIC id of an application processor.                  *)

LEMMA OwnKept ==
  ASSUME OwnInv, UNCHANGED <<list, cpuid, queue, AtOneOf(Set), AtOneOf(Active)>>
  PROVE  OwnInv'
BY DEF OwnInv, QueuesActivatedByOwner

LEMMA OwnInit == ASSUME Init PROVE OwnInv
<1>1. AtOneOf(Set) = {} /\ AtOneOf(Active) = {}
  BY Zenon DEF Init, AtOneOf, Set, Active
<1>2. list = <<[cpu_id |-> 0, apic_id |-> 0]>> /\ queue = {0}
  BY Zenon DEF Init, BSP
<1>3. Len(list) = 1 /\ list[1].apic_id = 0 /\ 0 \notin AP
  BY <1>2, MpStartAssumption
<1> QED
  BY <1>1, <1>2, <1>3 DEF OwnInv, QueuesActivatedByOwner

LEMMA OwnRegister ==
  ASSUME Garbage \cap AP = {}, IndInv, OwnInv,
         NEW a \in AP, register_local_kernel_data_cpu(a)
  PROVE  OwnInv'
<1> DEFINE n == Len(list)
<1>0. ap \in [AP -> Positions] /\ list \in Seq(Elements) /\ n \in Nat
      /\ cpuid \in [AP -> -1 .. Cores]
  BY DEF IndInv, TrampInv, ListInv
<1>1. PICK g \in Garbage : list' = Append(list, [cpu_id |-> n, apic_id |-> g])
  BY Zenon DEF register_local_kernel_data_cpu, NextCpuId
<1>2. cpuid' = [cpuid EXCEPT ![a] = n] /\ queue' = queue
  BY Zenon DEF register_local_kernel_data_cpu, NextCpuId
<1>3. UNCHANGED <<AtOneOf(Set), AtOneOf(Active)>>
  BY <1>0, Stays, Zenon DEF register_local_kernel_data_cpu, Set, Active
<1>4. AtOneOf(Active) \subseteq AtOneOf(Set) /\ AtOneOf(Set) \subseteq AP \ {a}
  BY Zenon DEF register_local_kernel_data_cpu, Goto, AtOneOf, Set, Active
<1>5. \A b \in AtOneOf(Set) : cpuid'[b] = cpuid[b] /\ cpuid[b] \in 1 .. n - 1
  <2>1. \A b \in AtOneOf(Set) : cpuid'[b] = cpuid[b]
    BY <1>0, <1>2, <1>4
  <2>2. \A b \in AtOneOf(Set) : cpuid[b] \in 1 .. n - 1
    BY Zenon DEF IndInv, ListInv, AtOneOf, Set, Registered
  <2> QED
    BY <2>1, <2>2, Zenon
<1>6. QueuesActivatedByOwner'
  BY <1>2, <1>3, <1>4, <1>5 DEF OwnInv, QueuesActivatedByOwner
<1>7. ASSUME NEW b \in AP, NEW i \in 1 .. Len(list')
      PROVE  list'[i].apic_id = b <=> (b \in AtOneOf(Set)' /\ cpuid'[b] = i - 1)
  <2>1. CASE i \in 1 .. n
    <3>1. list'[i] = list[i]
      BY <1>0, <1>1, <2>1
    <3> QED
      BY <1>3, <1>5, <2>1, <3>1 DEF OwnInv
  <2>2. CASE i = n + 1
    <3>1. list'[i].apic_id = g /\ g # b
      BY <1>0, <1>1, <2>2
    <3>2. b \in AtOneOf(Set) => cpuid'[b] # i - 1
      BY <1>0, <1>5, <2>2
    <3> QED
      BY <1>3, <3>1, <3>2, Zenon
  <2>3. Len(list') = n + 1
    BY <1>0, <1>1
  <2> QED
    BY <1>0, <1>7, <2>1, <2>2, <2>3
<1> QED
  BY <1>6, <1>7, Zenon DEF OwnInv

LEMMA OwnSet ==
  ASSUME IndInv, OwnInv, NEW a \in AP, set_local_kernel_data(a)
  PROVE  OwnInv'
<1> DEFINE k == SetAt(a)
           e == [list[k] EXCEPT !.apic_id = a]
<1>0. ap \in [AP -> Positions] /\ list \in Seq(Elements)
  BY Zenon DEF IndInv, TrampInv, ListInv
<1>1. list' = [list EXCEPT ![k] = e] /\ UNCHANGED <<cpuid, queue>>
  BY Zenon DEF set_local_kernel_data
<1>2. k = cpuid[a] + 1 /\ k \in 1 .. Len(list) /\ cpuid[a] \in Nat
  BY SetAtOwn, Zenon DEF set_local_kernel_data, Goto, Registered
<1>3. list[k] \in Elements
  BY <1>0, <1>2, ElementOfSeq, Zenon
<1>4. e \in Elements /\ e.apic_id = a
  BY <1>3, ElementChanged, Zenon
<1> HIDE DEF k, e
<1>5. /\ Len(list') = Len(list)
      /\ \A i \in 1 .. Len(list) : list'[i] = IF i = k THEN e ELSE list[i]
  BY <1>0, <1>1, <1>2, <1>4, ExceptSeq
<1>6. AtOneOf(Active)' = AtOneOf(Active)
  BY <1>0, Stays, Zenon DEF set_local_kernel_data, Active
<1>7. AtOneOf(Set)' = AtOneOf(Set) \cup {a} /\ a \notin AtOneOf(Set)
  BY <1>0, Joins, Zenon DEF set_local_kernel_data, Set, Active
<1>8. QueuesActivatedByOwner'
  BY <1>1, <1>6 DEF OwnInv, QueuesActivatedByOwner
<1>9. \A b \in AtOneOf(Set) : b # a /\ cpuid[b] # cpuid[a]
  <2>1. \A b \in AtOneOf(Set) : b \in AtOneOf(Registered)
    BY Zenon DEF AtOneOf, Set, Registered
  <2>2. a \in AtOneOf(Registered)
    BY Zenon DEF set_local_kernel_data, Goto, AtOneOf, Registered
  <2> QED
    BY <1>7, <2>1, <2>2, Zenon DEF IndInv, ListInv
<1>10. ASSUME NEW b \in AP, NEW i \in 1 .. Len(list)
       PROVE  list'[i].apic_id = b <=> (b \in AtOneOf(Set)' /\ cpuid'[b] = i - 1)
  <2>1. CASE i = k
    <3>1. list'[i].apic_id = a /\ cpuid[a] = i - 1
      BY <1>2, <1>4, <1>5, <2>1
    <3> QED
      BY <1>1, <1>7, <1>9, <3>1
  <2>2. CASE i # k
    <3>1. list'[i] = list[i] /\ cpuid[a] # i - 1
      BY <1>2, <1>5, <2>2
    <3>2. list[i].apic_id = b <=> (b \in AtOneOf(Set) /\ cpuid[b] = i - 1)
      BY Zenon DEF OwnInv
    <3> QED
      BY <1>1, <1>7, <3>1, <3>2
  <2> QED
    BY <2>1, <2>2, Zenon
<1> QED
  BY <1>5, <1>8, <1>10 DEF OwnInv

LEMMA OwnActivate ==
  ASSUME IndInv, OwnInv, NEW a \in AP, ActivateQueue(a)
  PROVE  OwnInv'
<1>0. ap \in [AP -> Positions] /\ UNCHANGED <<list, cpuid>> /\ ap[a] = "set"
  BY Zenon DEF IndInv, TrampInv, ActivateQueue, Goto
<1>1. UNCHANGED AtOneOf(Set)
  BY <1>0, Stays, Zenon DEF ActivateQueue, Set, Active
<1>2. AtOneOf(Active)' = AtOneOf(Active) \cup {a}
  BY <1>0, Joins, Zenon DEF ActivateQueue, Active
<1>3. cpuid[a] + 1 \in 1 .. Len(list) /\ cpuid[a] \in Nat
  BY <1>0, SetAtOwn, Zenon DEF Registered
<1>4. Len(list) \in Nat /\ DOMAIN list = 1 .. Len(list)
  BY LenProperties DEF IndInv, ListInv
<1>5. {i \in DOMAIN list : list[i].apic_id = a} = {cpuid[a] + 1}
  <2>1. a \in AtOneOf(Set)
    BY <1>0 DEF AtOneOf, Set
  <2>2. \A i \in 1 .. Len(list) : list[i].apic_id = a <=> cpuid[a] = i - 1
    BY <2>1, Zenon DEF OwnInv
  <2>3. \A i \in 1 .. Len(list) : list[i].apic_id = a <=> i = cpuid[a] + 1
    BY <1>3, <1>4, <2>2
  <2> QED
    BY <1>3, <1>4, <2>3
<1>6. list[cpuid[a] + 1].cpu_id = cpuid[a]
  <2>1. \A i \in 1 .. Len(list) : list[i].cpu_id = i - 1
    BY DEF IndInv, ListInv
  <2> QED
    BY <1>3, <2>1
<1>7. get_cpu_id_from_apic_id(a) = cpuid[a]
  BY <1>3, <1>5, <1>6, FirstOfOne DEF get_cpu_id_from_apic_id
<1>8. queue' = queue \cup {cpuid[a]}
  BY <1>7, Zenon DEF ActivateQueue
<1>9. QueuesActivatedByOwner'
  BY <1>0, <1>2, <1>8 DEF OwnInv, QueuesActivatedByOwner
<1> QED
  BY <1>0, <1>1, <1>9 DEF OwnInv

LEMMA OwnStep ==
  ASSUME Garbage \cap AP = {}, IndInv, OwnInv, [Next]_vars
  PROVE  OwnInv'
<1>1. CASE UNCHANGED vars
  BY <1>1 DEF OwnInv, QueuesActivatedByOwner, AtOneOf, vars
<1>2. CASE BspStep \/ Tick
  BY <1>2, BspEarly, EarlySets, OwnKept, Zenon DEF OnlyEarly, dataVars
<1>3. ASSUME NEW a \in AP, TrampolineLock(a) \/ TakeStack(a) \/ TrampolineDone(a) \/ Started(a)
      PROVE  OwnInv'
  <2>1. UNCHANGED <<list, cpuid, queue>> /\ ap \in [AP -> Positions]
    BY <1>3, Zenon DEF TrampolineLock, TakeStack, TrampolineDone, Started, dataVars, IndInv, TrampInv
  <2>2. UNCHANGED <<AtOneOf(Set), AtOneOf(Active)>>
    BY <1>3, <2>1, Stays DEF TrampolineLock, TakeStack, TrampolineDone, Started, Set, Active
  <2> QED
    BY <2>1, <2>2, OwnKept
<1> QED
  BY <1>1, <1>2, <1>3, OwnRegister, OwnSet, OwnActivate, Zenon DEF Next, Done, ApStep

(* A processor activates its own shootdown queue, however the registrations *)
(* of others interleave with its own, as long as uninitialised memory does  *)
(* not hold the APIC id of an application processor (the run mp_start_garbage *)
(* shows what happens when it does).                                        *)
THEOREM OwnQueueActivated ==
  ASSUME Garbage \cap AP = {}
  PROVE  Spec => []QueuesActivatedByOwner
<1>1. Init => OwnInv
  BY OwnInit, Zenon
<1>2. IndInv /\ OwnInv /\ [Next]_vars => OwnInv'
  BY OwnStep, Zenon
<1>3. OwnInv => QueuesActivatedByOwner
  BY Zenon DEF OwnInv
<1> QED
  BY <1>1, <1>2, <1>3, Invariance, PTL DEF Spec

-----------------------------------------------------------------------------
(* The image that the machine starts from: an instance of DiskImage, with   *)
(* any sizes.                                                               *)
CONSTANTS Reserved, Entries, MinClusters, Word, MaxSector, FirstStages,
          Volumes, FatSizes, ClusterSizes, CodeSizes

VARIABLES disk, part, par, image_pc

Image == INSTANCE DiskImage WITH pc <- image_pc

\* The reserved sectors hold the VBR and its backup, sizes are 32 bit numbers,
\* and the image is looked at to its end.  The last conjunct excludes volumes
\* that end one sector before the data area would begin: makeFat32VBR takes them.
ImageFits ==
  /\ Reserved \in Nat /\ Reserved >= 9 /\ Entries \in Nat \ {0} /\ MinClusters \in Nat \ {0}
  /\ Word \in Nat \ {0} /\ MaxSector \in Nat
  /\ FirstStages \subseteq Nat /\ Volumes \subseteq 0..Word - 1 /\ FatSizes \subseteq Nat
  /\ ClusterSizes \subseteq Nat \ {0} /\ CodeSizes \subseteq Nat \cup {-1}
  /\ \A e \in FirstStages, v \in Volumes : e + v <= MaxSector
  /\ \A v \in Volumes, f \in FatSizes : v # Reserved + 2 * f - 1

\* The contents of the volume after each function that fat32_maker's main calls.
Area == 0..par.volume - 1
FatArea == Reserved..Reserved + 2 * par.fat - 1
DirArea == Reserved + 2 * par.fat..Reserved + 2 * par.fat + par.cluster - 1

BlankVolume == [n \in Area |-> Image!Blank]

WithVbr ==
  [n \in Area |-> IF n = 0 THEN Image!Vbr(FALSE)
                  ELSE IF n = 1 THEN Image!Info(Image!getClusterCount) ELSE Image!Blank]

WithBackup ==
  [n \in Area |-> IF n \in {0, 6} THEN Image!Vbr(FALSE)
                  ELSE IF n \in {1, 7} THEN Image!Info(Image!getClusterCount) ELSE Image!Blank]

FatSector(n, root) ==
  <<"fat", [e \in 0..Entries - 1 |->
     LET i == (n - Reserved) * Entries + e
     IN IF i \in {0, 1} THEN 2 ELSE IF i = 2 THEN root ELSE 0]>>

WithFat == [n \in Area |-> IF n \in FatArea THEN FatSector(n, 0) ELSE WithBackup[n]]

WithRoot ==
  [n \in Area |-> IF n \in DirArea THEN Image!Dir
                  ELSE IF n \in FatArea THEN FatSector(n, 1) ELSE WithBackup[n]]

WithCode ==
  [n \in Area |-> IF n = 0 THEN Image!Vbr(TRUE)
                  ELSE IF n \in 9..par.code + 8 THEN Image!Code(n - 8) ELSE WithRoot[n]]

\* The image d with the volume v in its partition, behind the first stage.
Holds(d, v) ==
  /\ DOMAIN d = 0..MaxSector
  /\ \A s \in 0..MaxSector :
       d[s] = IF s = 0 THEN <<"mbr">>
              ELSE IF s < part.start THEN <<"stage1", s>>
              ELSE IF s < part.start + par.volume THEN v[s - part.start] ELSE Image!Other

\* Contents that the volume's sectors may have.
Filled(v) ==
  \A n \in Area : v[n][1] \in {"blank", "vbr", "fsinfo", "fat", "dir", "code"}

\* The data area has room for the root directory.
RootFits == Reserved + 2 * par.fat + par.cluster <= par.volume

Stages == {"makeVbr", "writeVbr", "backup", "fat", "root", "code", "done", "error"}

\* The inductive invariant.
ImageInv ==
  /\ par \in Image!Param
  /\ image_pc = "makeMbr" =>
       part = [start |-> 0, size |-> 0] /\ disk = [s \in 0..MaxSector |-> Image!Other]
  /\ image_pc # "makeMbr" =>
       /\ image_pc \in Stages
       /\ \E e \in FirstStages : part = [start |-> 1 + e, size |-> par.volume]
       /\ \E v : Holds(disk, v) /\ Filled(v)
  /\ image_pc \in Stages \ {"makeVbr", "error"} => RootFits
  /\ image_pc \in {"makeVbr", "writeVbr"} => Holds(disk, BlankVolume)
  /\ image_pc = "backup" => Holds(disk, WithVbr)
  /\ image_pc = "fat" => Holds(disk, WithBackup)
  /\ image_pc = "root" => Holds(disk, WithFat)
  /\ image_pc = "code" => Holds(disk, WithRoot)
  /\ image_pc = "done" => Holds(disk, WithCode) /\ 9 + par.code <= Reserved

\* The parameters are numbers, and the volume lies in what is looked at.
LEMMA ImageSizes ==
  ASSUME ImageFits, ImageInv
  PROVE  /\ Reserved \in Nat /\ Reserved >= 9 /\ Entries \in Nat \ {0} /\ MinClusters \in Nat \ {0}
         /\ Word \in Nat \ {0} /\ MaxSector \in Nat
         /\ par.volume \in Volumes /\ par.fat \in FatSizes
         /\ par.volume \in 0..Word - 1 /\ par.fat \in Nat /\ par.cluster \in Nat \ {0}
         /\ par.code \in Nat \cup {-1}
         /\ image_pc # "makeMbr" =>
              /\ part.start \in Nat \ {0} /\ part.size = par.volume
              /\ part.start \in {1 + e : e \in FirstStages}
              /\ part.start + par.volume - 1 <= MaxSector
<1>1. /\ Reserved \in Nat /\ Reserved >= 9 /\ Entries \in Nat \ {0} /\ MinClusters \in Nat \ {0}
      /\ Word \in Nat \ {0} /\ MaxSector \in Nat
      /\ FirstStages \subseteq Nat /\ Volumes \subseteq 0..Word - 1 /\ FatSizes \subseteq Nat
      /\ ClusterSizes \subseteq Nat \ {0} /\ CodeSizes \subseteq Nat \cup {-1}
      /\ \A e \in FirstStages, v \in Volumes : e + v <= MaxSector
  BY Zenon DEF ImageFits
<1>2. /\ par.volume \in Volumes /\ par.fat \in FatSizes
      /\ par.cluster \in ClusterSizes /\ par.code \in CodeSizes
  BY DEF ImageInv, Image!Param
<1>3. par.volume \in 0..Word - 1 /\ par.fat \in Nat /\ par.cluster \in Nat \ {0} /\ par.code \in Nat \cup {-1}
  BY <1>1, <1>2, Zenon
<1>4. ASSUME image_pc # "makeMbr"
      PROVE  /\ part.start \in Nat \ {0} /\ part.size = par.volume
             /\ part.start \in {1 + e : e \in FirstStages}
             /\ part.start + par.volume - 1 <= MaxSector
  <2>1. PICK e \in FirstStages : part = [start |-> 1 + e, size |-> par.volume]
    BY <1>4, Zenon DEF ImageInv
  <2>2. part.start = 1 + e /\ part.size = par.volume /\ e \in Nat /\ e + par.volume <= MaxSector
    BY <1>1, <1>2, <2>1
  <2>3. part.start \in {1 + x : x \in FirstStages}
    BY <2>2, Zenon
  <2> QED
    BY <1>3, <2>2, <2>3
<1> QED
  BY <1>1, <1>2, <1>3, <1>4, Zenon

\* The invariant says what the image tools promise, up to the end of the run.
LEMMA ImageInside == ASSUME ImageFits, ImageInv PROVE Image!TypeOK /\ Image!InsidePartition
<1>1. image_pc # "makeMbr" =>
         \A s \in 0..MaxSector :
            IF s >= part.start
            THEN IF s < part.start + part.size
                 THEN disk[s][1] \in {"blank", "vbr", "fsinfo", "fat", "dir", "code"}
                 ELSE disk[s] = Image!Other
            ELSE disk[s] = IF s = 0 THEN <<"mbr">> ELSE <<"stage1", s>>
  <2> SUFFICES ASSUME image_pc # "makeMbr", NEW s \in 0..MaxSector
      PROVE  IF s >= part.start
             THEN IF s < part.start + part.size
                  THEN disk[s][1] \in {"blank", "vbr", "fsinfo", "fat", "dir", "code"}
                  ELSE disk[s] = Image!Other
             ELSE disk[s] = IF s = 0 THEN <<"mbr">> ELSE <<"stage1", s>>
    BY Zenon
  <2>1. /\ part.start \in Nat \ {0} /\ part.size = par.volume /\ par.volume \in Int /\ s \in Int
        /\ MaxSector \in Nat
    BY ImageSizes
  <2>2. PICK v : Holds(disk, v) /\ Filled(v)
    BY Zenon DEF ImageInv
  <2>3. disk[s] = IF s = 0 THEN <<"mbr">>
                  ELSE IF s < part.start THEN <<"stage1", s>>
                  ELSE IF s < part.start + par.volume THEN v[s - part.start] ELSE Image!Other
    BY <2>2, Zenon DEF Holds
  <2>4. CASE s < part.start
    BY <2>1, <2>3, <2>4
  <2>5. CASE s >= part.start /\ s < part.start + par.volume
    <3>1. s - part.start \in Area
      BY <2>1, <2>5 DEF Area
    <3>2. disk[s] = v[s - part.start]
      BY <2>1, <2>3, <2>5
    <3>3. disk[s][1] \in {"blank", "vbr", "fsinfo", "fat", "dir", "code"}
      BY <2>2, <3>1, <3>2, Zenon DEF Filled
    <3> QED
      BY <2>1, <2>5, <3>3, Zenon
  <2>6. CASE s >= part.start /\ ~(s < part.start + par.volume)
    <3>1. disk[s] = Image!Other
      BY <2>1, <2>3, <2>6
    <3> QED
      BY <2>1, <2>6, <3>1, Zenon
  <2> QED
    BY <2>1, <2>4, <2>5, <2>6
<1>2. Image!Other[1] = "none" /\ <<"mbr">>[1] = "mbr" /\ \A s : <<"stage1", s>>[1] = "stage1"
  BY DEF Image!Other
<1>3. image_pc = "makeMbr" => part = [start |-> 0, size |-> 0] /\ disk = [s \in 0..MaxSector |-> Image!Other]
  BY Zenon DEF ImageInv
<1>4. Image!InsidePartition
  <2> SUFFICES ASSUME image_pc # "makeMbr", NEW s \in 0..MaxSector
      PROVE  IF s >= part.start
             THEN (disk[s] # Image!Other) = (s < part.start + part.size)
             ELSE disk[s] = IF s = 0 THEN <<"mbr">> ELSE <<"stage1", s>>
    BY Zenon DEF Image!InsidePartition, Image!Sectors
  <2>1. CASE s >= part.start /\ s < part.start + part.size
    <3>1. disk[s] # Image!Other
      BY <1>1, <1>2, <2>1, Zenon
    <3> QED
      BY <2>1, <3>1, Zenon
  <2>2. CASE s >= part.start /\ ~(s < part.start + part.size)
    <3>1. ~(disk[s] # Image!Other)
      BY <1>1, <2>2, Zenon
    <3>2. (disk[s] # Image!Other) = FALSE /\ (s < part.start + part.size) = FALSE
      BY <2>2, <3>1
    <3> QED
      BY <2>2, <3>2, Zenon
  <2>3. CASE ~(s >= part.start)
    BY <1>1, <2>3, Zenon
  <2> QED
    BY <2>1, <2>2, <2>3, Zenon
<1>5. \A s \in 0..MaxSector :
        disk[s][1] \in {"none", "blank", "mbr", "stage1", "vbr", "fsinfo", "fat", "dir", "code"}
  <2> TAKE s \in 0..MaxSector
  <2>1. CASE image_pc = "makeMbr"
    BY <1>2, <1>3, <2>1, Zenon
  <2>2. CASE image_pc # "makeMbr"
    BY <1>1, <1>2, <2>2, Zenon
  <2> QED
    BY <2>1, <2>2, Zenon
<1>6. part.start \in {0} \cup {1 + e : e \in FirstStages}
  <2>1. image_pc = "makeMbr" => part.start = 0
    BY <1>3
  <2> QED
    BY <2>1, ImageSizes, Zenon
<1>7. Image!getDataAreaSize \in 0..Word - 1
  <2>1. Word \in Nat \ {0} /\ par.volume \in Int /\ Reserved + 2 * par.fat \in Int
    BY ImageSizes
  <2> QED
    BY <2>1 DEF Image!getDataAreaSize, Image!getDataAreaFirstSector, Image!Fats
<1> QED
  BY <1>4, <1>5, <1>6, <1>7, Zenon DEF Image!TypeOK, Image!Sectors, ImageInv

\* What a sector of the volume holds.
LEMMA ReadsVolume ==
  ASSUME ImageFits, ImageInv, image_pc # "makeMbr", NEW v, Holds(disk, v), NEW n \in Area
  PROVE  disk[Image!Place(n)] = v[n]
<1>1. /\ part.start \in Nat \ {0} /\ par.volume \in Int /\ MaxSector \in Nat
      /\ part.start + par.volume - 1 <= MaxSector
  BY ImageSizes
<1>2. n \in Int /\ 0 <= n /\ n <= par.volume - 1
  BY <1>1 DEF Area
<1>3. /\ part.start + n \in 0..MaxSector /\ part.start + n # 0 /\ ~(part.start + n < part.start)
      /\ part.start + n < part.start + par.volume /\ (part.start + n) - part.start = n
  BY <1>1, <1>2
<1> QED
  BY <1>3, Zenon DEF Holds, Image!Place

\* The volume w is v with the sectors new.
Written(w, v, new) == \A n \in Area : w[n] = IF n \in DOMAIN new THEN new[n] ELSE v[n]

\* Writing sectors of the volume changes these, and nothing else.
LEMMA WriteKeeps ==
  ASSUME ImageFits, ImageInv, image_pc # "makeMbr", NEW v, Holds(disk, v),
         NEW new, DOMAIN new \subseteq Area, Image!WriteSectors(new),
         NEW w, Written(w, v, new)
  PROVE  Holds(disk', w)
<1>1. /\ part.start \in Nat \ {0} /\ par.volume \in Int /\ MaxSector \in Nat
      /\ part.start + par.volume - 1 <= MaxSector
  BY ImageSizes
<1>2. /\ DOMAIN disk' = 0..MaxSector
      /\ \A s \in 0..MaxSector :
           disk'[s] = IF s - part.start \in DOMAIN new THEN new[s - part.start] ELSE disk[s]
  BY Zenon DEF Image!WriteSectors, Image!Sectors
<1>3. ASSUME NEW s \in 0..MaxSector
      PROVE  disk'[s] = IF s = 0 THEN <<"mbr">>
                        ELSE IF s < part.start THEN <<"stage1", s>>
                        ELSE IF s < part.start + par.volume THEN w[s - part.start] ELSE Image!Other
  <2>1. disk[s] = IF s = 0 THEN <<"mbr">>
                  ELSE IF s < part.start THEN <<"stage1", s>>
                  ELSE IF s < part.start + par.volume THEN v[s - part.start] ELSE Image!Other
    BY Zenon DEF Holds
  <2>2. s \in Int
    BY <1>1
  <2>3. CASE s < part.start \/ ~(s < part.start + par.volume)
    <3>1. s - part.start \notin Area
      BY <1>1, <2>2, <2>3 DEF Area
    <3>2. disk'[s] = disk[s]
      BY <1>2, <3>1, Zenon
    <3>3. s < part.start \/ (s # 0 /\ ~(s < part.start) /\ ~(s < part.start + par.volume))
      BY <1>1, <2>2, <2>3
    <3> QED
      BY <2>1, <3>2, <3>3, Zenon
  <2>4. CASE ~(s < part.start) /\ s < part.start + par.volume
    <3>1. s - part.start \in Area /\ s # 0
      BY <1>1, <2>2, <2>4 DEF Area
    <3>2. disk[s] = v[s - part.start]
      BY <2>1, <2>4, <3>1, Zenon
    <3>3. disk'[s] = w[s - part.start]
      BY <1>2, <3>1, <3>2, Zenon DEF Written
    <3> QED
      BY <2>4, <3>1, <3>3, Zenon
  <2> QED
    BY <2>3, <2>4, Zenon
<1> QED
  BY <1>2, <1>3, Zenon DEF Holds

\* A function of fat32_maker that leaves the volume w behind.
LEMMA StageKeeps ==
  ASSUME ImageFits, ImageInv, image_pc # "makeMbr", part' = part, par' = par,
         image_pc' \in Stages, NEW w, Holds(disk', w), Filled(w),
         image_pc' \notin {"makeVbr", "error"} => RootFits,
         image_pc' \in {"makeVbr", "writeVbr"} => w = BlankVolume,
         image_pc' = "backup" => w = WithVbr,
         image_pc' = "fat" => w = WithBackup,
         image_pc' = "root" => w = WithFat,
         image_pc' = "code" => w = WithRoot,
         image_pc' = "done" => w = WithCode /\ 9 + par.code <= Reserved
  PROVE  ImageInv'
<1>1. image_pc' # "makeMbr"
  BY DEF Stages
<1>2. par' \in Image!Param' /\ \E e \in FirstStages : part' = [start |-> 1 + e, size |-> par'.volume]
  BY Zenon DEF ImageInv, Image!Param
<1>3. Area' = Area /\ FatArea' = FatArea /\ DirArea' = DirArea /\ RootFits' = RootFits
  BY Zenon DEF Area, FatArea, DirArea, RootFits
<1>4. Image!getClusterCount' = Image!getClusterCount
  BY Zenon DEF Image!getClusterCount, Image!getDataAreaSize, Image!getDataAreaFirstSector
<1>5. /\ BlankVolume' = BlankVolume /\ WithVbr' = WithVbr /\ WithBackup' = WithBackup
  BY <1>3, <1>4, Zenon DEF BlankVolume, WithVbr, WithBackup
<1>6. WithFat' = WithFat /\ WithRoot' = WithRoot
  BY <1>3, <1>5, Zenon DEF WithFat, WithRoot
<1>7. WithCode' = WithCode
  BY <1>3, <1>6, Zenon DEF WithCode
<1>8. \A u : (Holds(disk, u))' = Holds(disk', u) /\ (Filled(u))' = Filled(u)
  BY <1>3, Zenon DEF Holds, Filled
<1>9. (\E u : Holds(disk, u) /\ Filled(u))'
  BY <1>8, Zenon
<1>10. image_pc' \in {"makeVbr", "writeVbr"} => Holds(disk, BlankVolume)'
  BY <1>5, Zenon DEF Holds
<1>11. image_pc' = "backup" => Holds(disk, WithVbr)'
  BY <1>5, Zenon DEF Holds
<1>12. image_pc' = "fat" => Holds(disk, WithBackup)'
  BY <1>5, Zenon DEF Holds
<1>13. image_pc' = "root" => Holds(disk, WithFat)'
  BY <1>6, Zenon DEF Holds
<1>14. image_pc' = "code" => Holds(disk, WithRoot)'
  BY <1>6, Zenon DEF Holds
<1>15. image_pc' = "done" => Holds(disk, WithCode)' /\ 9 + par'.code <= Reserved
  BY <1>7, Zenon DEF Holds
<1> QED
  BY <1>1, <1>2, <1>3, <1>9, <1>10, <1>11, <1>12, <1>13, <1>14, <1>15, Zenon DEF ImageInv, Stages

\* The kinds of the volumes' sectors.
LEMMA VolumesFilled ==
  Filled(BlankVolume) /\ Filled(WithVbr) /\ Filled(WithBackup) /\ Filled(WithFat)
  /\ Filled(WithRoot) /\ Filled(WithCode)
<1>1. /\ Image!Blank[1] = "blank" /\ \A b : Image!Vbr(b)[1] = "vbr" /\ Image!Info(b)[1] = "fsinfo"
      /\ Image!Dir[1] = "dir" /\ \A i : Image!Code(i)[1] = "code"
  BY DEF Image!Blank, Image!Vbr, Image!Info, Image!Dir, Image!Code
<1>2. \A n, r : FatSector(n, r)[1] = "fat"
  BY DEF FatSector
<1>3. Filled(BlankVolume) /\ Filled(WithVbr) /\ Filled(WithBackup)
  BY <1>1, Zenon DEF Filled, BlankVolume, WithVbr, WithBackup
<1>4. Filled(WithFat) /\ Filled(WithRoot)
  <2> SUFFICES ASSUME NEW n \in Area
      PROVE  /\ WithFat[n][1] \in {"blank", "vbr", "fsinfo", "fat", "dir", "code"}
             /\ WithRoot[n][1] \in {"blank", "vbr", "fsinfo", "fat", "dir", "code"}
    BY Zenon DEF Filled
  <2>1. WithBackup[n][1] \in {"blank", "vbr", "fsinfo", "fat", "dir", "code"}
    BY <1>3, Zenon DEF Filled
  <2>2. WithFat[n] = FatSector(n, 0) \/ WithFat[n] = WithBackup[n]
    BY Zenon DEF WithFat
  <2>3. WithRoot[n] = Image!Dir \/ WithRoot[n] = FatSector(n, 1) \/ WithRoot[n] = WithBackup[n]
    BY Zenon DEF WithRoot
  <2> QED
    BY <1>1, <1>2, <2>1, <2>2, <2>3, Zenon
<1>5. Filled(WithCode)
  BY <1>1, <1>4, Zenon DEF Filled, WithCode
<1> QED
  BY <1>3, <1>4, <1>5, Zenon

\* mbr_maker.
LEMMA MakeMbrKeeps == ASSUME ImageFits, ImageInv, Image!makeMbr PROVE ImageInv'
<1>1. image_pc = "makeMbr" /\ image_pc' = "makeVbr" /\ par' = par
  BY Zenon DEF Image!makeMbr
<1>2. PICK e \in FirstStages :
        /\ part' = [start |-> 1 + e, size |-> par.volume]
        /\ disk' = [s \in 0..MaxSector |->
                     CASE s = 0 -> <<"mbr">>
                       [] s \in 1..e -> <<"stage1", s>>
                       [] s \in 1 + e..e + par.volume -> Image!Blank
                       [] OTHER -> Image!Other]
  BY Zenon DEF Image!makeMbr, Image!Sectors
<1>3. e \in Nat /\ par.volume \in Nat /\ MaxSector \in Nat
  <2>1. FirstStages \subseteq Nat
    BY Zenon DEF ImageFits
  <2> QED
    BY <2>1, ImageSizes
<1>4. part'.start = 1 + e
  BY <1>2
<1>5. Area' = Area
  BY <1>1, Zenon DEF Area
<1>6. ASSUME NEW s \in 0..MaxSector
      PROVE  disk'[s] = IF s = 0 THEN <<"mbr">>
                        ELSE IF s < 1 + e THEN <<"stage1", s>>
                        ELSE IF s < 1 + e + par.volume THEN BlankVolume[s - (1 + e)] ELSE Image!Other
  <2>1. disk'[s] = CASE s = 0 -> <<"mbr">>
                     [] s \in 1..e -> <<"stage1", s>>
                     [] s \in 1 + e..e + par.volume -> Image!Blank
                     [] OTHER -> Image!Other
    BY <1>2, Zenon
  <2>2. s \in Int /\ s >= 0
    BY <1>3
  <2>3. CASE s = 0
    BY <1>3, <2>1, <2>3
  <2>4. CASE s \in 1..e
    BY <1>3, <2>1, <2>4
  <2>5. CASE s \in 1 + e..e + par.volume
    <3>1. s - (1 + e) \in Area
      BY <1>3, <2>2, <2>5 DEF Area
    <3>2. BlankVolume[s - (1 + e)] = Image!Blank
      BY <3>1, Zenon DEF BlankVolume
    <3>3. disk'[s] = Image!Blank /\ s # 0 /\ ~(s < 1 + e) /\ s < 1 + e + par.volume
      BY <1>3, <2>1, <2>2, <2>5
    <3> QED
      BY <3>2, <3>3, Zenon
  <2>6. CASE s # 0 /\ s \notin 1..e /\ s \notin 1 + e..e + par.volume
    BY <1>3, <2>1, <2>2, <2>6
  <2> QED
    BY <2>3, <2>4, <2>5, <2>6, Zenon
<1>7. BlankVolume' = BlankVolume
  BY <1>5, Zenon DEF BlankVolume
<1>8. DOMAIN disk' = 0..MaxSector
  BY <1>2, Zenon
<1>9. Holds(disk, BlankVolume)'
  BY <1>1, <1>4, <1>6, <1>7, <1>8, Zenon DEF Holds
<1>10. Filled(BlankVolume)'
  BY <1>5, <1>7, VolumesFilled, Zenon DEF Filled
<1>11. image_pc' \in Stages /\ image_pc' # "makeMbr" /\ image_pc' \notin Stages \ {"makeVbr", "error"}
  BY <1>1 DEF Stages
<1>12. image_pc' \notin {"backup", "fat", "root", "code", "done"}
  BY <1>1
<1>13. (\E v : Holds(disk, v) /\ Filled(v))'
  <2>1. \E v : (Holds(disk, v))' /\ (Filled(v))'
    BY <1>7, <1>9, <1>10, Zenon DEF Holds, Filled
  <2> QED
    BY <2>1, Zenon
<1>14. par' \in Image!Param' /\ \E x \in FirstStages : part' = [start |-> 1 + x, size |-> par'.volume]
  BY <1>1, <1>2, Zenon DEF ImageInv, Image!Param
<1> QED
  BY <1>9, <1>11, <1>12, <1>13, <1>14, Zenon DEF ImageInv

\* makeFat32VBR lets only volumes pass that have room for the root directory.
LEMMA MakeVbrKeeps == ASSUME ImageFits, ImageInv, Image!makeFat32VBR PROVE ImageInv'
<1>1. /\ image_pc = "makeVbr" /\ disk' = disk /\ part' = part /\ par' = par
      /\ image_pc' = IF Image!TotalSize > par.volume \/ Image!getClusterCount < MinClusters
                     THEN "error" ELSE "writeVbr"
  BY Zenon DEF Image!makeFat32VBR
<1>2. image_pc # "makeMbr" /\ Holds(disk', BlankVolume)
  BY <1>1, Zenon DEF ImageInv
<1>3. image_pc' \in {"error", "writeVbr"}
  BY <1>1, Zenon
<1>4. ASSUME image_pc' # "error" PROVE RootFits
  <2>1. ~(Image!TotalSize > par.volume) /\ ~(Image!getClusterCount < MinClusters)
    BY <1>1, <1>4, Zenon
  <2>2. /\ Reserved \in Nat /\ MinClusters \in Nat \ {0} /\ Word \in Nat \ {0}
        /\ par.volume \in 0..Word - 1 /\ par.fat \in Nat /\ par.cluster \in Nat \ {0}
    BY ImageSizes
  <2>3. par.volume # Reserved + 2 * par.fat - 1
    BY ImageSizes, Zenon DEF ImageFits
  <2>4. Reserved + 2 * par.fat <= par.volume
    BY <2>1, <2>2, <2>3 DEF Image!TotalSize, Image!Fats
  <2> DEFINE size == par.volume - (Reserved + 2 * par.fat)
             q == size \div par.cluster
  <2>5. size \in Nat /\ size % Word = size
    <3>1. size \in 0..Word - 1
      BY <2>2, <2>4
    <3> HIDE DEF size
    <3> QED
      BY <2>2, <3>1
  <2>6. Image!getDataAreaSize = size
    BY <2>5, Zenon DEF Image!getDataAreaSize, Image!getDataAreaFirstSector, Image!Fats
  <2>7. Image!getClusterCount = q
    BY <2>6, Zenon DEF Image!getClusterCount
  <2> HIDE DEF size
  <2>8. q \in Int /\ size >= par.cluster * q
    BY <2>2, <2>5
  <2> HIDE DEF q
  <2>9. q >= 1
    BY <2>1, <2>2, <2>7, <2>8
  <2>10. par.cluster * q >= par.cluster
    BY <2>2, <2>8, <2>9
  <2>11. size >= par.cluster
    BY <2>2, <2>5, <2>8, <2>10
  <2> QED
    BY <2>2, <2>11 DEF RootFits, size
<1>5. image_pc' \in Stages /\ image_pc' \notin {"backup", "fat", "root", "code", "done"}
  BY <1>3 DEF Stages
<1> QED
  BY <1>1, <1>2, <1>4, <1>5, StageKeeps, VolumesFilled, Zenon

\* The areas of a volume with room for the root directory.
LEMMA AreasApart ==
  ASSUME ImageFits, ImageInv, RootFits
  PROVE  /\ 0..Reserved - 1 \subseteq Area /\ FatArea \subseteq Area /\ DirArea \subseteq Area
         /\ {0, 1} \cup 6..8 \subseteq 0..Reserved - 1
         /\ \A n \in FatArea : n \notin DirArea /\ n \notin 0..Reserved - 1
         /\ \A n \in DirArea : n \notin 0..Reserved - 1
<1>1. /\ Reserved \in Nat /\ Reserved >= 9
      /\ par.volume \in Nat /\ par.fat \in Nat /\ par.cluster \in Nat \ {0}
  BY ImageSizes
<1> QED
  BY <1>1 DEF RootFits, Area, FatArea, DirArea

\* The VBR and the FSInfo sector.
LEMMA FSInfoKeeps == ASSUME ImageFits, ImageInv, Image!makeFSInfoSector PROVE ImageInv'
<1> DEFINE new == [n \in {0, 1} |-> IF n = 0 THEN Image!Vbr(FALSE) ELSE Image!Info(Image!getClusterCount)]
<1>1. /\ image_pc = "writeVbr" /\ image_pc' = "backup" /\ part' = part /\ par' = par
      /\ Image!WriteSectors(new)
  BY Zenon DEF Image!makeFSInfoSector, Image!FsInfo
<1>2. image_pc # "makeMbr" /\ Holds(disk, BlankVolume) /\ image_pc \in Stages \ {"makeVbr", "error"}
  BY <1>1 DEF ImageInv, Stages
<1>3. RootFits
  BY <1>2, Zenon DEF ImageInv
<1>4. DOMAIN new \subseteq Area
  BY <1>3, AreasApart, Zenon
<1>5. Written(WithVbr, BlankVolume, new)
  BY Zenon DEF Written, WithVbr, BlankVolume
<1> HIDE DEF new
<1>6. Holds(disk', WithVbr)
  BY <1>1, <1>2, <1>4, <1>5, WriteKeeps, Zenon
<1>7. image_pc' \in Stages /\ image_pc' \notin {"makeVbr", "writeVbr", "fat", "root", "code", "done"}
  BY <1>1 DEF Stages
<1> QED
  BY <1>1, <1>2, <1>3, <1>6, <1>7, StageKeeps, VolumesFilled, Zenon

\* The copy of the first three sectors.
LEMMA BackupKeeps == ASSUME ImageFits, ImageInv, Image!updateFat32Backup PROVE ImageInv'
<1> DEFINE new == [n \in 6..8 |-> disk[Image!Place(n - 6)]]
<1>1. /\ image_pc = "backup" /\ image_pc' = "fat" /\ part' = part /\ par' = par
      /\ Image!WriteSectors(new)
  <2>1. Image!Backup = 6 /\ Image!Backup + 2 = 8
    BY DEF Image!Backup
  <2> QED
    BY <2>1, Zenon DEF Image!updateFat32Backup
<1>2. image_pc # "makeMbr" /\ Holds(disk, WithVbr) /\ image_pc \in Stages \ {"makeVbr", "error"}
  BY <1>1 DEF ImageInv, Stages
<1>3. RootFits
  BY <1>2, Zenon DEF ImageInv
<1>4. DOMAIN new \subseteq Area /\ 0..2 \subseteq Area
  <2>1. 6..8 \subseteq Area /\ 0..Reserved - 1 \subseteq Area
    BY <1>3, AreasApart, Zenon
  <2>2. 0..2 \subseteq 0..Reserved - 1
    BY ImageSizes
  <2> QED
    BY <2>1, <2>2, Zenon
<1>5. \A n \in 6..8 : n - 6 \in 0..2 /\ (n - 6 = 0 <=> n = 6) /\ (n - 6 = 1 <=> n = 7) /\ n # 0 /\ n # 1
  OBVIOUS
<1>6. \A n \in 6..8 : new[n] = WithVbr[n - 6]
  BY <1>2, <1>4, <1>5, ReadsVolume, Zenon
<1>7. \A n \in Area : WithBackup[n] = IF n \in 6..8 THEN WithVbr[n - 6] ELSE WithVbr[n]
  <2> TAKE n \in Area
  <2>1. CASE n \in 6..8
    <3>1. WithVbr[n - 6] = IF n - 6 = 0 THEN Image!Vbr(FALSE)
                           ELSE IF n - 6 = 1 THEN Image!Info(Image!getClusterCount) ELSE Image!Blank
      BY <1>4, <1>5, <2>1, Zenon DEF WithVbr
    <3> QED
      BY <1>5, <2>1, <3>1, Zenon DEF WithBackup
  <2>2. CASE n \notin 6..8
    <3>1. n # 6 /\ n # 7
      BY <2>2
    <3> QED
      BY <2>2, <3>1, Zenon DEF WithBackup, WithVbr
  <2> QED
    BY <2>1, <2>2, Zenon
<1>8. Written(WithBackup, WithVbr, new)
  BY <1>6, <1>7, Zenon DEF Written
<1> HIDE DEF new
<1>9. Holds(disk', WithBackup)
  BY <1>1, <1>2, <1>4, <1>8, WriteKeeps, Zenon
<1>10. image_pc' \in Stages /\ image_pc' \notin {"makeVbr", "writeVbr", "backup", "root", "code", "done"}
  BY <1>1 DEF Stages
<1> QED
  BY <1>1, <1>2, <1>3, <1>9, <1>10, StageKeeps, VolumesFilled, Zenon

\* A sector of the FAT of the volume v after some of its entries are written.
FatAfter(n, entries, v) ==
  <<"fat", [e \in 0..Entries - 1 |->
     IF (n - Reserved) * Entries + e \in DOMAIN entries
     THEN entries[(n - Reserved) * Entries + e]
     ELSE IF v[n][1] = "fat" THEN v[n][2][e] ELSE 0]>>

\* Where the FAT is, and what writing some of its entries leaves in a sector.
LEMMA FatSectors ==
  ASSUME ImageFits, ImageInv, image_pc # "makeMbr", FatArea \subseteq Area,
         NEW v, Holds(disk, v), NEW entries
  PROVE  /\ DOMAIN Image!FatWith(entries) = FatArea
         /\ \A n \in FatArea : Image!FatWith(entries)[n] = FatAfter(n, entries, v)
<1>1. Image!getFatAreaStart = Reserved /\ Image!getFatAreaSize = 2 * par.fat
  BY Zenon DEF Image!getFatAreaStart, Image!getFatAreaSize, Image!Fats
<1>2. DOMAIN Image!FatWith(entries) = FatArea
  BY <1>1, Zenon DEF Image!FatWith, FatArea
<1>3. ASSUME NEW n \in FatArea PROVE Image!FatWith(entries)[n] = FatAfter(n, entries, v)
  <2>1. disk[Image!Place(n)] = v[n]
    BY ReadsVolume, Zenon
  <2> QED
    BY <1>1, <2>1, Zenon DEF Image!FatWith, FatArea, FatAfter
<1> QED
  BY <1>2, <1>3, Zenon

\* The first two entries of the FAT.
LEMMA FatKeeps == ASSUME ImageFits, ImageInv, Image!initializeFileAllocationTable PROVE ImageInv'
<1> DEFINE entries == [i \in {0, 1} |-> 2]
           new == Image!FatWith(entries)
<1>1. /\ image_pc = "fat" /\ image_pc' = "root" /\ part' = part /\ par' = par
      /\ Image!WriteSectors(new)
  BY Zenon DEF Image!initializeFileAllocationTable, Image!Marked
<1>2. image_pc # "makeMbr" /\ Holds(disk, WithBackup) /\ image_pc \in Stages \ {"makeVbr", "error"}
  BY <1>1 DEF ImageInv, Stages
<1>3. RootFits
  BY <1>2, Zenon DEF ImageInv
<1>4. FatArea \subseteq Area /\ \A n \in FatArea : n \notin {0, 1, 6, 7}
  <2>1. FatArea \subseteq Area /\ \A n \in FatArea : n \notin 0..Reserved - 1
    BY <1>3, AreasApart, Zenon
  <2>2. 0 \in 0..Reserved - 1 /\ 1 \in 0..Reserved - 1 /\ 6 \in 0..Reserved - 1 /\ 7 \in 0..Reserved - 1
    BY ImageSizes
  <2> QED
    BY <2>1, <2>2, Zenon
<1>5. DOMAIN new = FatArea
  BY <1>2, <1>4, FatSectors, Zenon
<1>6. ASSUME NEW n \in FatArea PROVE new[n] = FatSector(n, 0)
  <2>1. WithBackup[n] = Image!Blank
    BY <1>4, Zenon DEF WithBackup
  <2>2. WithBackup[n][1] # "fat"
    BY <2>1 DEF Image!Blank
  <2>3. new[n] = <<"fat", [e \in 0..Entries - 1 |->
                   IF (n - Reserved) * Entries + e \in {0, 1}
                   THEN entries[(n - Reserved) * Entries + e]
                   ELSE IF WithBackup[n][1] = "fat" THEN WithBackup[n][2][e] ELSE 0]>>
    <3>1. new[n] = FatAfter(n, entries, WithBackup)
      BY <1>2, <1>4, FatSectors, Zenon
    <3>2. DOMAIN entries = {0, 1}
      BY Zenon
    <3> HIDE DEF entries, new
    <3> QED
      BY <3>1, <3>2, Zenon DEF FatAfter
  <2>4. ASSUME NEW e \in 0..Entries - 1
        PROVE  (IF (n - Reserved) * Entries + e \in {0, 1}
                THEN entries[(n - Reserved) * Entries + e]
                ELSE IF WithBackup[n][1] = "fat" THEN WithBackup[n][2][e] ELSE 0)
               = LET i == (n - Reserved) * Entries + e
                 IN IF i \in {0, 1} THEN 2 ELSE IF i = 2 THEN 0 ELSE 0
    BY <2>2, Zenon
  <2> HIDE DEF entries, new
  <2> QED
    BY <2>3, <2>4, Zenon DEF FatSector
<1> HIDE DEF new
<1>7. Written(WithFat, WithBackup, new)
  BY <1>5, <1>6, Zenon DEF Written, WithFat
<1>8. Holds(disk', WithFat)
  BY <1>1, <1>2, <1>4, <1>5, <1>7, WriteKeeps, Zenon
<1>9. image_pc' \in Stages /\ image_pc' \notin {"makeVbr", "writeVbr", "backup", "fat", "code", "done"}
  BY <1>1 DEF Stages
<1> QED
  BY <1>1, <1>2, <1>3, <1>8, <1>9, StageKeeps, VolumesFilled, Zenon

\* The root directory and its entry of the FAT.
LEMMA RootKeeps == ASSUME ImageFits, ImageInv, Image!makeRootDirectory PROVE ImageInv'
<1> DEFINE entries == [i \in {2} |-> 1]
           fat == Image!FatWith(entries)
           dir == [n \in DirArea |-> Image!Dir]
           new == [n \in DOMAIN dir \cup DOMAIN fat |-> IF n \in DOMAIN dir THEN dir[n] ELSE fat[n]]
<1>0. Image!getFirstSectorOfCluster(Image!RootCluster) = Reserved + 2 * par.fat
  <2>1. Image!getFirstSectorOfCluster(2) = Reserved + 2 * par.fat
    <3>1. par.fat \in Nat /\ Reserved \in Nat /\ Entries \in Nat
      BY ImageSizes
    <3> QED
      BY <3>1 DEF Image!getFirstSectorOfCluster, Image!getDataAreaFirstSector, Image!Fats
  <2> QED
    BY <2>1, Zenon DEF Image!RootCluster
<1>1. /\ image_pc = "root" /\ image_pc' = "code" /\ part' = part /\ par' = par
      /\ Image!WriteSectors(new)
  BY <1>0, Zenon DEF Image!makeRootDirectory, Image!RootCluster, Image!EndOfChain, DirArea
<1>2. image_pc # "makeMbr" /\ Holds(disk, WithFat) /\ image_pc \in Stages \ {"makeVbr", "error"}
  BY <1>1 DEF ImageInv, Stages
<1>3. RootFits
  BY <1>2, Zenon DEF ImageInv
<1>4. /\ FatArea \subseteq Area /\ DirArea \subseteq Area /\ \A n \in FatArea : n \notin DirArea
  BY <1>3, AreasApart, Zenon
<1>5. DOMAIN fat = FatArea
  BY <1>2, <1>4, FatSectors, Zenon
<1>6. ASSUME NEW n \in FatArea PROVE fat[n] = FatSector(n, 1)
  <2>1. WithFat[n] = FatSector(n, 0)
    BY <1>4, Zenon DEF WithFat
  <2>2. /\ WithFat[n][1] = "fat"
        /\ WithFat[n][2] = [e \in 0..Entries - 1 |->
             LET i == (n - Reserved) * Entries + e
             IN IF i \in {0, 1} THEN 2 ELSE IF i = 2 THEN 0 ELSE 0]
    BY <2>1 DEF FatSector
  <2>3. fat[n] = <<"fat", [e \in 0..Entries - 1 |->
                   IF (n - Reserved) * Entries + e \in {2}
                   THEN entries[(n - Reserved) * Entries + e]
                   ELSE IF WithFat[n][1] = "fat" THEN WithFat[n][2][e] ELSE 0]>>
    <3>1. fat[n] = FatAfter(n, entries, WithFat)
      BY <1>2, <1>4, FatSectors, Zenon
    <3>2. DOMAIN entries = {2}
      BY Zenon
    <3> HIDE DEF entries, fat
    <3> QED
      BY <3>1, <3>2, Zenon DEF FatAfter
  <2>4. ASSUME NEW e \in 0..Entries - 1
        PROVE  (IF (n - Reserved) * Entries + e \in {2}
                THEN entries[(n - Reserved) * Entries + e]
                ELSE IF WithFat[n][1] = "fat" THEN WithFat[n][2][e] ELSE 0)
               = LET i == (n - Reserved) * Entries + e
                 IN IF i \in {0, 1} THEN 2 ELSE IF i = 2 THEN 1 ELSE 0
    <3> DEFINE i == (n - Reserved) * Entries + e
    <3>1. WithFat[n][2][e] = IF i \in {0, 1} THEN 2 ELSE IF i = 2 THEN 0 ELSE 0
      BY <2>2, Zenon
    <3>2. i = 2 => i \notin {0, 1}
      OBVIOUS
    <3> QED
      BY <2>2, <3>1, <3>2, Zenon
  <2> HIDE DEF entries, fat
  <2> QED
    BY <2>3, <2>4, Zenon DEF FatSector
<1> HIDE DEF fat
<1>7. DOMAIN dir = DirArea /\ \A n \in DirArea : dir[n] = Image!Dir
  BY Zenon
<1> HIDE DEF dir
<1>8. DOMAIN new = DirArea \cup FatArea
  BY <1>5, <1>7, Zenon
<1>9. Written(WithRoot, WithFat, new)
  <2> SUFFICES ASSUME NEW n \in Area
      PROVE  WithRoot[n] = IF n \in DOMAIN new THEN new[n] ELSE WithFat[n]
    BY Zenon DEF Written
  <2>1. CASE n \in DirArea
    BY <1>5, <1>7, <1>8, <2>1, Zenon DEF WithRoot
  <2>2. CASE n \in FatArea
    BY <1>4, <1>5, <1>6, <1>7, <1>8, <2>2, Zenon DEF WithRoot
  <2>3. CASE n \notin DirArea /\ n \notin FatArea
    BY <1>8, <2>3, Zenon DEF WithRoot, WithFat
  <2> QED
    BY <2>1, <2>2, <2>3, Zenon
<1>10. DOMAIN new \subseteq Area
  BY <1>4, <1>8, Zenon
<1> HIDE DEF new
<1>11. Holds(disk', WithRoot)
  BY <1>1, <1>2, <1>9, <1>10, WriteKeeps, Zenon
<1>12. image_pc' \in Stages /\ image_pc' \notin {"makeVbr", "writeVbr", "backup", "fat", "root", "done"}
  BY <1>1 DEF Stages
<1> QED
  BY <1>1, <1>2, <1>3, <1>11, <1>12, StageKeeps, VolumesFilled, Zenon

\* The second stage, as far as the reserved sectors reach.
LEMMA BootCodeKeeps == ASSUME ImageFits, ImageInv, Image!writeBootCode PROVE ImageInv'
<1> DEFINE last == IF Image!CodeFits THEN 9 + par.code - 1 ELSE Reserved - 1
           new == [n \in {0} \cup 9..last |-> IF n = 0 THEN Image!Vbr(TRUE) ELSE Image!Code(n - 9 + 1)]
           w == [n \in Area |-> IF n \in DOMAIN new THEN new[n] ELSE WithRoot[n]]
<1>1. /\ image_pc = "code" /\ part' = part /\ par' = par
      /\ image_pc' = IF par.code >= 0 /\ Image!CodeFits THEN "done" ELSE "error"
      /\ IF par.code = -1 THEN disk' = disk ELSE Image!WriteSectors(new)
  <2>1. Image!FirstCode = 9
    BY DEF Image!FirstCode, Image!Backup
  <2> QED
    BY <2>1, Zenon DEF Image!writeBootCode, Image!getFatAreaStart
<1>2. image_pc # "makeMbr" /\ Holds(disk, WithRoot) /\ image_pc \in Stages \ {"makeVbr", "error"}
  BY <1>1 DEF ImageInv, Stages
<1>3. RootFits
  BY <1>2, Zenon DEF ImageInv
<1>4. 0..Reserved - 1 \subseteq Area
  BY <1>3, AreasApart, Zenon
<1>5. /\ Reserved \in Nat /\ Reserved >= 9 /\ par.code \in Nat \cup {-1}
  BY ImageSizes, Zenon
<1>6. Image!CodeFits <=> 9 + par.code <= Reserved
  BY DEF Image!CodeFits, Image!FirstCode, Image!Backup, Image!getFatAreaStart
<1>7. {0} \cup 9..last \subseteq 0..Reserved - 1
  <2>1. last \in Int /\ last <= Reserved - 1
    BY <1>5, <1>6
  <2> HIDE DEF last
  <2> QED
    BY <1>5, <2>1
<1>8. DOMAIN new = {0} \cup 9..last /\ DOMAIN new \subseteq Area
  BY <1>4, <1>7, Zenon
<1>9. CASE par.code = -1
  <2>1. image_pc' = "error" /\ disk' = disk
    BY <1>1, <1>9
  <2>2. image_pc' \in Stages /\ image_pc' \notin {"writeVbr", "backup", "fat", "root", "code", "done", "makeVbr"}
    BY <2>1 DEF Stages
  <2> QED
    BY <1>1, <1>2, <1>3, <2>1, <2>2, StageKeeps, VolumesFilled, Zenon
<1>10. CASE par.code # -1
  <2>0. Image!WriteSectors(new)
    BY <1>1, <1>10, Zenon
  <2>1. Written(w, WithRoot, new)
    BY Zenon DEF Written
  <2>2. Filled(w)
    <3> SUFFICES ASSUME NEW n \in Area
        PROVE  w[n][1] \in {"blank", "vbr", "fsinfo", "fat", "dir", "code"}
      BY Zenon DEF Filled
    <3>1. w[n] = Image!Vbr(TRUE) \/ w[n] = Image!Code(n - 9 + 1) \/ w[n] = WithRoot[n]
      BY Zenon
    <3>2. Image!Vbr(TRUE)[1] = "vbr" /\ Image!Code(n - 9 + 1)[1] = "code"
      BY DEF Image!Vbr, Image!Code
    <3>3. WithRoot[n][1] \in {"blank", "vbr", "fsinfo", "fat", "dir", "code"}
      BY VolumesFilled, Zenon DEF Filled
    <3> HIDE DEF w
    <3> QED
      BY <3>1, <3>2, <3>3, Zenon
  <2>3. Image!CodeFits => w = WithCode
    <3> SUFFICES ASSUME Image!CodeFits PROVE w = WithCode
      BY Zenon
    <3>1. last = par.code + 8
      BY <1>5
    <3>2. ASSUME NEW n \in Area
          PROVE  (IF n \in DOMAIN new THEN new[n] ELSE WithRoot[n])
                 = IF n = 0 THEN Image!Vbr(TRUE)
                   ELSE IF n \in 9..par.code + 8 THEN Image!Code(n - 8) ELSE WithRoot[n]
      <4>1. n \in Int /\ n - 9 + 1 = n - 8
        BY ImageSizes DEF Area
      <4> HIDE DEF last
      <4> QED
        BY <3>1, <4>1, Zenon
    <3> HIDE DEF new, last
    <3> QED
      BY <3>2, Zenon DEF WithCode
  <2> HIDE DEF w, new
  <2>4. Holds(disk', w)
    BY <1>2, <1>8, <2>0, <2>1, WriteKeeps, Zenon
  <2>5. /\ image_pc' \in Stages /\ image_pc' \notin {"makeVbr", "writeVbr", "backup", "fat", "root", "code"}
        /\ image_pc' = "done" => Image!CodeFits
    BY <1>1 DEF Stages
  <2> QED
    BY <1>1, <1>2, <1>3, <1>6, <2>2, <2>3, <2>4, <2>5, StageKeeps, Zenon
<1> QED
  BY <1>9, <1>10, Zenon

\* The start of mbr_maker.
LEMMA ImageInit == ASSUME ImageFits PROVE Image!Init => ImageInv
<1> SUFFICES ASSUME Image!Init PROVE ImageInv
  BY Zenon
<1>1. /\ disk = [s \in 0..MaxSector |-> Image!Other] /\ part = [start |-> 0, size |-> 0]
      /\ par \in Image!Param /\ image_pc = "makeMbr"
  BY Zenon DEF Image!Init, Image!Sectors
<1>2. image_pc \notin Stages
  BY <1>1 DEF Stages
<1>3. image_pc \notin {"makeVbr", "writeVbr", "backup", "fat", "root", "code", "done"}
  BY <1>1
<1> QED
  BY <1>1, <1>2, <1>3, Zenon DEF ImageInv

\* Every function of the image tools keeps the invariant.
LEMMA ImageStep ==
  ASSUME ImageFits, ImageInv, [Image!Next]_(Image!vars)
  PROVE  ImageInv'
<1>1. CASE UNCHANGED Image!vars
  <2>1. disk' = disk /\ part' = part /\ par' = par /\ image_pc' = image_pc
    BY <1>1, Zenon DEF Image!vars
  <2>2. Area' = Area /\ FatArea' = FatArea /\ DirArea' = DirArea /\ RootFits' = RootFits
    BY <2>1, Zenon DEF Area, FatArea, DirArea, RootFits
  <2>3. Image!getClusterCount' = Image!getClusterCount
    BY <2>1, Zenon DEF Image!getClusterCount, Image!getDataAreaSize, Image!getDataAreaFirstSector
  <2>4. BlankVolume' = BlankVolume /\ WithVbr' = WithVbr /\ WithBackup' = WithBackup
    BY <2>2, <2>3, Zenon DEF BlankVolume, WithVbr, WithBackup
  <2>5. WithFat' = WithFat /\ WithRoot' = WithRoot
    BY <2>2, <2>4, Zenon DEF WithFat, WithRoot
  <2>6. WithCode' = WithCode
    BY <2>1, <2>2, <2>5, Zenon DEF WithCode
  <2>7. /\ (\E v : Holds(disk, v) /\ Filled(v))' = (\E v : Holds(disk, v) /\ Filled(v))
        /\ Holds(disk, BlankVolume)' = Holds(disk, BlankVolume)
        /\ Holds(disk, WithVbr)' = Holds(disk, WithVbr)
        /\ Holds(disk, WithBackup)' = Holds(disk, WithBackup)
        /\ Holds(disk, WithFat)' = Holds(disk, WithFat)
        /\ Holds(disk, WithRoot)' = Holds(disk, WithRoot)
        /\ Holds(disk, WithCode)' = Holds(disk, WithCode)
    BY <2>1, <2>2, <2>4, <2>5, <2>6, Zenon DEF Holds, Filled
  <2> QED
    BY <2>1, <2>2, <2>7, Zenon DEF ImageInv, Image!Param
<1> QED
  BY <1>1, MakeMbrKeeps, MakeVbrKeeps, FSInfoKeeps, BackupKeeps, FatKeeps, RootKeeps, BootCodeKeeps,
     Zenon DEF Image!Next

\* The entries of the first FAT, in the sectors that hold them.
LEMMA FatEntries ==
  ASSUME ImageFits, ImageInv, image_pc = "done", NEW i \in 0..par.fat * Entries - 1
  PROVE  Image!FatEntry(i) = IF i \in {0, 1} THEN 2 ELSE IF i = 2 THEN 1 ELSE 0
<1> DEFINE q == i \div Entries
           e == i % Entries
           n == Reserved + q
<1>1. Reserved \in Nat /\ Reserved >= 9 /\ Entries \in Nat \ {0} /\ par.fat \in Nat /\ par.code \in Nat \cup {-1}
  BY ImageSizes
<1>2. i \in Nat /\ i < par.fat * Entries
  BY <1>1
<1>3. q \in Int /\ e \in 0..Entries - 1 /\ i = Entries * q + e
  BY <1>1, <1>2
<1> HIDE DEF q, e
<1>4. q >= 0
  <2>1. q <= -1 => Entries * q <= -Entries
    BY <1>1, <1>3
  <2> QED
    BY <1>1, <1>2, <1>3, <2>1
<1>5. q < par.fat
  <2>1. q >= par.fat => Entries * q >= Entries * par.fat
    BY <1>1, <1>3
  <2>2. par.fat * Entries = Entries * par.fat
    BY <1>1
  <2> QED
    BY <1>1, <1>2, <1>3, <2>1, <2>2
<1>6. n \in FatArea
  BY <1>1, <1>3, <1>4, <1>5 DEF FatArea
<1>7. RootFits /\ image_pc # "makeMbr" /\ Holds(disk, WithCode) /\ 9 + par.code <= Reserved
  BY DEF ImageInv, Stages
<1>8. n \in Area /\ n \notin DirArea /\ n \notin 0..Reserved - 1
  BY <1>6, <1>7, AreasApart, Zenon
<1>9. n # 0 /\ n \notin 9..par.code + 8
  BY <1>1, <1>3, <1>4, <1>7
<1>10. disk[Image!Place(n)] = WithCode[n]
  BY <1>7, <1>8, ReadsVolume, Zenon
<1>11. WithCode[n] = FatSector(n, 1)
  BY <1>6, <1>8, <1>9, Zenon DEF WithCode, WithRoot
<1>12. (n - Reserved) * Entries + e = i
  <2>1. n - Reserved = q
    BY <1>1, <1>3
  <2>2. q * Entries = Entries * q
    BY <1>1, <1>3
  <2> QED
    BY <1>3, <2>1, <2>2
<1>13. FatSector(n, 1)[2] = [x \in 0..Entries - 1 |->
         LET j == (n - Reserved) * Entries + x
         IN IF j \in {0, 1} THEN 2 ELSE IF j = 2 THEN 1 ELSE 0]
  BY DEF FatSector
<1>14. FatSector(n, 1)[2][e] = IF i \in {0, 1} THEN 2 ELSE IF i = 2 THEN 1 ELSE 0
  BY <1>3, <1>12, <1>13, Zenon
<1>15. Image!FatEntry(i) = disk[Image!Place(n)][2][e]
  BY Zenon DEF Image!FatEntry, q, e
<1> QED
  BY <1>10, <1>11, <1>14, <1>15, Zenon

\* The invariant says what the volume holds after a run without an error.
LEMMA ImageFollows == ASSUME ImageFits, ImageInv PROVE Image!ImageReadable
<1> SUFFICES ASSUME image_pc = "done" PROVE Image!ImageReadable
  BY Zenon DEF Image!ImageReadable
<1>1. /\ Reserved \in Nat /\ Reserved >= 9 /\ par.fat \in Nat /\ par.code \in Nat \cup {-1}
      /\ par.cluster \in Nat \ {0} /\ par.volume \in Nat
  BY ImageSizes
<1>2. RootFits /\ image_pc # "makeMbr" /\ Holds(disk, WithCode) /\ 9 + par.code <= Reserved
  BY DEF ImageInv, Stages
<1>3. /\ 0..Reserved - 1 \subseteq Area /\ FatArea \subseteq Area /\ DirArea \subseteq Area
      /\ \A n \in FatArea : n \notin DirArea /\ n \notin 0..Reserved - 1
      /\ \A n \in DirArea : n \notin 0..Reserved - 1
  BY <1>2, AreasApart, Zenon
<1>4. \A n \in Area : disk[Image!Place(n)] = WithCode[n]
  BY <1>2, ReadsVolume, Zenon
<1>5. ASSUME NEW n \in 0..Reserved - 1
      PROVE  disk[Image!Place(n)] =
               IF n = 0 THEN Image!Vbr(TRUE)
               ELSE IF n \in 9..par.code + 8 THEN Image!Code(n - 8)
               ELSE IF n = 6 THEN Image!Vbr(FALSE)
               ELSE IF n \in {1, 7} THEN Image!Info(Image!getClusterCount) ELSE Image!Blank
  <2>1. n \in Area /\ n \notin DirArea /\ n \notin FatArea
    BY <1>3, Zenon
  <2> QED
    BY <1>4, <2>1, Zenon DEF WithCode, WithRoot, WithBackup
<1>6. /\ disk[Image!Place(0)] = Image!Vbr(TRUE) /\ disk[Image!Place(6)] = Image!Vbr(FALSE)
      /\ disk[Image!Place(1)] = Image!Info(Image!getClusterCount)
      /\ disk[Image!Place(7)] = Image!Info(Image!getClusterCount)
      /\ disk[Image!Place(2)] = Image!Blank /\ disk[Image!Place(8)] = Image!Blank
  <2>1. \A m \in {0, 1, 2, 6, 7, 8} : m \in 0..Reserved - 1 /\ m \notin 9..par.code + 8
    BY <1>1
  <2>2. 6 # 0 /\ 7 # 0 /\ 1 # 0 /\ 1 # 6 /\ 7 # 6 /\ 2 # 0 /\ 2 # 6 /\ 2 \notin {1, 7} /\ 8 # 0 /\ 8 # 6 /\ 8 \notin {1, 7}
    OBVIOUS
  <2> QED
    BY <1>5, <2>1, <2>2, Zenon
<1>7. \A n \in 1..2 : disk[Image!Place(n)] = disk[Image!Place(6 + n)]
  <2>1. \A n \in 1..2 : (n = 1 /\ 6 + n = 7) \/ (n = 2 /\ 6 + n = 8)
    OBVIOUS
  <2> QED
    BY <1>6, <2>1, Zenon
<1>8. \A i \in 1..par.code : disk[Image!Place(9 + i - 1)] = Image!Code(i)
  <2> TAKE i \in 1..par.code
  <2>1. /\ 9 + i - 1 \in 0..Reserved - 1 /\ 9 + i - 1 # 0 /\ 9 + i - 1 \in 9..par.code + 8
        /\ (9 + i - 1) - 8 = i
    BY <1>1, <1>2
  <2> QED
    BY <1>5, <2>1, Zenon
<1>9. ASSUME NEW n \in FatArea PROVE disk[Image!Place(n)] = FatSector(n, 1)
  <2>1. n \in Area /\ n \notin DirArea /\ n \notin 0..Reserved - 1
    BY <1>3, Zenon
  <2>2. n # 0 /\ n \notin 9..par.code + 8
    BY <1>1, <1>2, <2>1
  <2> QED
    BY <1>4, <2>1, <2>2, Zenon DEF WithCode, WithRoot
<1>10. \A n \in 0..2 * par.fat - 1 : disk[Image!Place(Reserved + n)][1] = "fat"
  <2> TAKE n \in 0..2 * par.fat - 1
  <2>1. Reserved + n \in FatArea
    BY <1>1 DEF FatArea
  <2>2. FatSector(Reserved + n, 1)[1] = "fat"
    BY DEF FatSector
  <2> QED
    BY <1>9, <2>1, <2>2, Zenon
<1>11. \A i \in 0..par.fat * Entries - 1 :
         Image!FatEntry(i) = CASE i \in {0, 1} -> Image!Marked
                               [] i = Image!RootCluster -> Image!EndOfChain [] OTHER -> 0
  <2> TAKE i \in 0..par.fat * Entries - 1
  <2>1. Image!FatEntry(i) = IF i \in {0, 1} THEN 2 ELSE IF i = 2 THEN 1 ELSE 0
    BY FatEntries, Zenon
  <2>2. Image!Marked = 2 /\ Image!RootCluster = 2 /\ Image!EndOfChain = 1
    BY Zenon DEF Image!Marked, Image!RootCluster, Image!EndOfChain
  <2> QED
    BY <2>1, <2>2
<1>12. {n \in 0..par.volume - 1 : disk[Image!Place(n)] = Image!Dir} =
          Reserved + 2 * par.fat..Reserved + 2 * par.fat + par.cluster - 1
  <2>1. ASSUME NEW n \in DirArea PROVE disk[Image!Place(n)] = Image!Dir
    <3>1. n \in Area /\ n \notin 0..Reserved - 1
      BY <1>3, <2>1, Zenon
    <3>2. n # 0 /\ n \notin 9..par.code + 8
      BY <1>1, <1>2, <3>1
    <3> QED
      BY <1>4, <2>1, <3>1, <3>2, Zenon DEF WithCode, WithRoot
  <2>2. ASSUME NEW n \in Area, n \notin DirArea PROVE disk[Image!Place(n)] # Image!Dir
    <3>1. \/ disk[Image!Place(n)] = Image!Vbr(TRUE) \/ disk[Image!Place(n)] = Image!Code(n - 8)
          \/ disk[Image!Place(n)] = FatSector(n, 1) \/ disk[Image!Place(n)] = Image!Vbr(FALSE)
          \/ disk[Image!Place(n)] = Image!Info(Image!getClusterCount) \/ disk[Image!Place(n)] = Image!Blank
      BY <1>4, <2>2, Zenon DEF WithCode, WithRoot, WithBackup
    <3>2. /\ Image!Vbr(TRUE)[1] = "vbr" /\ Image!Code(n - 8)[1] = "code" /\ FatSector(n, 1)[1] = "fat"
          /\ Image!Vbr(FALSE)[1] = "vbr" /\ Image!Info(Image!getClusterCount)[1] = "fsinfo"
          /\ Image!Blank[1] = "blank" /\ Image!Dir[1] = "dir"
      BY DEF Image!Vbr, Image!Code, FatSector, Image!Info, Image!Blank, Image!Dir
    <3>3. disk[Image!Place(n)][1] # Image!Dir[1]
      BY <3>1, <3>2
    <3> QED
      BY <3>3, Zenon
  <2> QED
    BY <1>3, <2>1, <2>2, Zenon DEF Area, DirArea
<1>13. Image!Backup = 6 /\ Image!FsInfo = 1 /\ Image!FirstCode = 9
  BY DEF Image!Backup, Image!FsInfo, Image!FirstCode
<1> QED
  BY <1>6, <1>7, <1>8, <1>10, <1>11, <1>12, <1>13, Zenon DEF Image!ImageReadable

\* mbr_maker.cpp and fat32_maker.cpp: whatever the sizes of the first stage, the
\* volume, the FAT, the clusters and the second stage are, no function writes in
\* front of the partition or behind it, and a run that ends without an error
\* leaves a volume whose boot sectors, backup, FAT, root directory and second
\* stage are whole and do not overlap.
THEOREM ImageIsSound ==
  ASSUME ImageFits
  PROVE  Image!Spec => []Image!ImageSound
<1>1. Image!Init => ImageInv
  BY ImageInit, Zenon
<1>2. ImageInv /\ [Image!Next]_(Image!vars) => ImageInv'
  BY ImageStep, Zenon
<1>3. ImageInv => Image!ImageSound
  BY ImageInside, ImageFollows, Zenon DEF Image!ImageSound
<1> QED
  BY <1>1, <1>2, <1>3, PTL DEF Image!Spec
=============================================================================

------------------------------- MODULE MpStart ------------------------------
(***************************************************************************)
(* The start of the application processors: init_APs on the bootstrap      *)
(* processor (mp/mp_initialization.c), the interrupt command register it   *)
(* sends the start-up IPIs with (interrupt/apic.c), and every processor's  *)
(* way through the real mode trampoline (HAL/bios/mp_init.bin_asm),        *)
(* AP_entry_point and its registration in kernel_data.c.                   *)
(*                                                                         *)
(* A processor is named by its APIC id; the bootstrap processor's is 0.    *)
(* An IPI is sent by the write of the register's low word, to the          *)
(* destination that the high word holds at that moment.                    *)
(***************************************************************************)
EXTENDS Integers, Sequences, FiniteSets, Functions

CONSTANTS
    AP,         \* the application processors
    LapicIds,   \* get_lapic_id_array(): all processors in the MADT's order
    Dead,       \* processors that do not react to a start-up IPI
    Garbage     \* what the uninitialised memory of a list element may hold

BSP == 0
BROADCAST == 255

ASSUME MpStartAssumption ==
    /\ IsFiniteSet(AP) /\ AP \subseteq 1 .. 254 /\ AP # {}
    /\ LapicIds \in Seq(AP \cup {BSP}) /\ Range(LapicIds) = AP \cup {BSP}
    /\ Len(LapicIds) = Cardinality(AP) + 1
    /\ Dead \subseteq AP /\ Garbage \subseteq Nat /\ Garbage # {}

VARIABLES
    bsp,              \* where init_APs is: its program counter ...
    index,            \* ... and the processor it is starting
    ticked,           \* has a timer interrupt ended the wait it is in?
    result,           \* what init_APs returned, or "none"
    icr_high,         \* the destination in the command register's high word
    sipi,             \* the last start-up IPI: the target and where it went
    ap,               \* where each application processor is
    tramp_lock,       \* the trampoline's spinlock
    cpu_count,        \* the trampoline's counter
    stack,            \* the index of the stack each processor took, or -1
    list,             \* kernel_data.local_data_list
    cpuid,            \* the id each processor got from its registration, or -1
    queue,            \* the shootdown queues that have been activated
    initialized_APs

vars == <<bsp, index, ticked, result, icr_high, sipi, ap, tramp_lock, cpu_count,
          stack, list, cpuid, queue, initialized_APs>>
bspVars == <<bsp, index, ticked, result, icr_high, sipi>>
trampVars == <<tramp_lock, cpu_count, stack>>
dataVars == <<list, cpuid, queue, initialized_APs>>

Cores == Cardinality(AP) + 1

\* The stacks that unsync_set_up_mp_global_data allocates.
APs_count == Cores - 1

\* The firmware has left the processors halted; the bootstrap processor has
\* registered itself as CPU 0, and its queue is active.
Init ==
    /\ bsp = "start" /\ index = 1 /\ ticked = FALSE /\ result = "none"
    /\ icr_high \in {0, BROADCAST} /\ sipi = [target |-> 0, went |-> 0]
    /\ ap = [a \in AP |-> "firmware"]
    /\ tramp_lock = -1 /\ cpu_count = 0 /\ stack = [a \in AP |-> -1]
    /\ list = <<[cpu_id |-> 0, apic_id |-> BSP]>>
    /\ cpuid = [a \in AP |-> -1] /\ queue = {0} /\ initialized_APs = 0

------------------------------------------------------------------------------
(* The bootstrap processor.                                                *)

\* write_64_lapic_register: the low word is written first, which sends the IPI;
\* the destination that comes with it stays in the high word for the next one.
wait_and_write_interrupt_command_register(destination) == icr_high' = destination

\* Mutant: the INIT IPI is sent with the shorthand for the sender itself.
InitTargets_Self == {}

\* send_IPI_INIT_to_all_excluding_self
InitTargets == AP

SendInit ==
    /\ bsp = "start"
    /\ ap' = [a \in AP |-> IF a \in InitTargets THEN "wait_for_sipi" ELSE ap[a]]
    /\ wait_and_write_interrupt_command_register(0)
    /\ bsp' = "wait_10ms" /\ ticked' = FALSE
    /\ UNCHANGED <<index, result, sipi, trampVars, dataVars>>

\* The timer interrupt on the bootstrap processor (PIT_interrupt_handler): it
\* forwards the tick with a shorthand, and leaves 0xff in the high word.
Tick ==
    /\ result = "none"
    /\ ticked' = TRUE /\ wait_and_write_interrupt_command_register(BROADCAST)
    /\ UNCHANGED <<bsp, index, result, sipi, ap, trampVars, dataVars>>

\* Every wait is longer than the time to the next tick.
WaitOver ==
    /\ bsp \in {"wait_10ms", "wait_first", "wait_second", "wait_1ms"} /\ ticked
    /\ bsp' = CASE bsp = "wait_10ms"   -> "loop"
                [] bsp = "wait_first"  -> "again"
                [] bsp = "wait_second" -> "loop"
                [] bsp = "wait_1ms"    -> "poll"
    /\ index' = IF bsp = "wait_second" THEN index + 1 ELSE index
    /\ UNCHANGED <<ticked, result, icr_high, sipi, ap, trampVars, dataVars>>

\* Where an IPI without a shorthand goes.
Reached(destination) == {a \in AP \ Dead : destination \in {a, BROADCAST}}

\* A processor that runs already ignores a start-up IPI.
send_startup_IPI(target) ==
    /\ ap' = [a \in AP |-> IF a \in Reached(icr_high) /\ ap[a] = "wait_for_sipi"
                           THEN "trampoline" ELSE ap[a]]
    /\ sipi' = [target |-> target, went |-> icr_high]
    /\ wait_and_write_interrupt_command_register(target)

StartProcessor ==
    /\ bsp = "loop" /\ index <= Len(LapicIds) /\ LapicIds[index] # BSP
    /\ send_startup_IPI(LapicIds[index])
    /\ bsp' = "wait_first" /\ ticked' = FALSE
    /\ UNCHANGED <<index, result, trampVars, dataVars>>

SkipSelf ==
    /\ bsp = "loop" /\ index <= Len(LapicIds) /\ LapicIds[index] = BSP
    /\ index' = index + 1
    /\ UNCHANGED <<bsp, ticked, result, icr_high, sipi, ap, trampVars, dataVars>>

StartAgain ==
    /\ bsp = "again"
    /\ send_startup_IPI(LapicIds[index])
    /\ bsp' = "wait_second" /\ ticked' = FALSE
    /\ UNCHANGED <<index, result, trampVars, dataVars>>

AllAsked ==
    /\ bsp = "loop" /\ index > Len(LapicIds)
    /\ bsp' = "poll"
    /\ UNCHANGED <<index, ticked, result, icr_high, sipi, ap, trampVars, dataVars>>

\* Mutant: the bootstrap processor counts itself among those to wait for.
NumberOfAPs_Minus == Cores - 2

NumberOfAPs == Cores - 1

\* attempts_count is never incremented: the loop ends only by its returns.
Poll ==
    /\ bsp = "poll"
    /\ bsp' = IF initialized_APs < NumberOfAPs THEN "wait_1ms" ELSE "returned"
    /\ ticked' = FALSE
    /\ result' = CASE initialized_APs < NumberOfAPs -> "none"
                   [] initialized_APs = NumberOfAPs -> "ERROR_MP_OK"
                   [] initialized_APs > NumberOfAPs -> "GENERIC_ERROR"
    /\ UNCHANGED <<index, icr_high, sipi, ap, trampVars, dataVars>>

------------------------------------------------------------------------------
(* An application processor.                                               *)

Goto(a, from, to) == ap[a] = from /\ ap' = [ap EXCEPT ![a] = to]

\* Mutant: the trampoline's lock is not waited for.
LockFree_Always == TRUE

LockFree == tramp_lock = -1

TrampolineLock(a) ==
    /\ Goto(a, "trampoline", "locked")
    /\ LockFree /\ tramp_lock' = a
    /\ UNCHANGED <<bspVars, cpu_count, stack, dataVars>>

\* mov rsp, stacks_top[cpu_count]
TakeStack(a) ==
    /\ Goto(a, "locked", "has_stack")
    /\ stack' = [stack EXCEPT ![a] = cpu_count]
    /\ UNCHANGED <<bspVars, tramp_lock, cpu_count, dataVars>>

\* inc cpu_count, then the lock is released and AP_entry_point is called
TrampolineDone(a) ==
    /\ Goto(a, "has_stack", "entry")
    /\ cpu_count' = cpu_count + 1 /\ tramp_lock' = -1
    /\ UNCHANGED <<bspVars, stack, dataVars>>

\* Mutant: the id is read from the length of another list, one behind.
NextCpuId_Reused == Len(list) - 1

\* cpuid_to_allocate, incremented with every registration
NextCpuId == Len(list)

\* A new element at the end of the list; its apic_id is not initialised.
register_local_kernel_data_cpu(a) ==
    /\ Goto(a, "entry", "registered")
    /\ \E g \in Garbage : list' = Append(list, [cpu_id |-> NextCpuId, apic_id |-> g])
    /\ cpuid' = [cpuid EXCEPT ![a] = NextCpuId]
    /\ UNCHANGED <<bspVars, trampVars, queue, initialized_APs>>

\* The first element that matches, or 0 (a failed KASSERT).
First(hits) ==
    IF hits = {} THEN 0 ELSE CHOOSE i \in hits : \A j \in hits : i <= j

\* Mutant: the data goes to the first element of the list.
SetAt_First(a) == 1

SetAt(a) == First({i \in DOMAIN list : list[i].cpu_id = cpuid[a]})

set_local_kernel_data(a) ==
    /\ Goto(a, "registered", "set")
    /\ list' = [list EXCEPT ![SetAt(a)].apic_id = a]
    /\ UNCHANGED <<bspVars, trampVars, cpuid, queue, initialized_APs>>

get_cpu_id_from_apic_id(a) == list[First({i \in DOMAIN list : list[i].apic_id = a})].cpu_id

\* activate_this_cpu_vmmcache_shootdown: the queue is found by the APIC id.
ActivateQueue(a) ==
    /\ Goto(a, "set", "active")
    /\ queue' = queue \cup {get_cpu_id_from_apic_id(a)}
    /\ UNCHANGED <<bspVars, trampVars, list, cpuid, initialized_APs>>

Counted(n) == n + 1

\* enable_interrupts, and the count under mp_gdata.lock
Started(a) ==
    /\ Goto(a, "active", "running")
    /\ initialized_APs' = Counted(initialized_APs)
    /\ UNCHANGED <<bspVars, trampVars, list, cpuid, queue>>

ApStep(a) ==
    \/ TrampolineLock(a) \/ TakeStack(a) \/ TrampolineDone(a)
    \/ register_local_kernel_data_cpu(a) \/ set_local_kernel_data(a)
    \/ ActivateQueue(a) \/ Started(a)

BspStep == SendInit \/ WaitOver \/ StartProcessor \/ SkipSelf \/ StartAgain \/ AllAsked \/ Poll

\* Everything has happened.
Done == result # "none" /\ (\A a \in AP : ap[a] = "running") /\ UNCHANGED vars

Next == BspStep \/ Tick \/ (\E a \in AP : ApStep(a)) \/ Done

\* Processors run, and the timer keeps ticking.
Fairness == WF_vars(BspStep) /\ WF_vars(Tick) /\ \A a \in AP : WF_vars(ApStep(a))
Spec == Init /\ [][Next]_vars /\ Fairness

------------------------------------------------------------------------------
(* Properties.                                                             *)

Positions == {"firmware", "wait_for_sipi", "trampoline", "locked", "has_stack",
              "entry", "registered", "set", "active", "running"}

\* The processors that have come as far as one of the positions.
Active == {"active", "running"}
Registered == {"registered", "set"} \cup Active
Counting == {"entry"} \cup Registered   \* those that cpu_count counts
WithStack == {"has_stack"} \cup Counting
AtOneOf(positions) == {a \in AP : ap[a] \in positions}

\* The types of the variables.
TypeOK ==
    /\ bsp \in {"start", "wait_10ms", "loop", "wait_first", "again", "wait_second",
                "poll", "wait_1ms", "returned"}
    /\ index \in 1 .. Len(LapicIds) + 1 /\ ticked \in BOOLEAN
    /\ result \in {"none", "ERROR_MP_OK", "GENERIC_ERROR"}
    /\ ap \in [AP -> Positions] /\ tramp_lock \in AP \cup {-1}
    /\ stack \in [AP -> -1 .. Cores] /\ cpuid \in [AP -> -1 .. Cores]
    /\ initialized_APs \in 0 .. Cores - 1

\* Processors that start at the same time get different stacks, and no more
\* stacks are taken than unsync_set_up_mp_global_data has allocated.
StacksDistinct ==
    \A a \in AtOneOf(WithStack) :
        /\ stack[a] \in 0 .. APs_count - 1
        /\ \A b \in AtOneOf(WithStack) : stack[a] = stack[b] => a = b

\* hal.h: "identifier of the logical cpu, all the ids are contiguos": they are
\* different, and index the arrays that are sized by the number of cores.
CpuIdsContiguous ==
    /\ {cpuid[a] : a \in AtOneOf(Registered)} = 1 .. Len(list) - 1
    /\ \A a, b \in AtOneOf(Registered) : cpuid[a] = cpuid[b] => a = b
    /\ \A i \in DOMAIN list : list[i].cpu_id = i - 1 /\ i <= Cores

\* The lookup of the own APIC id finds the own element, though other processors
\* have registered and not set theirs: a processor activates its own queue.
QueuesActivatedByOwner == queue = {0} \cup {cpuid[a] : a \in AtOneOf(Active)}

\* init_APs returns ERROR_MP_OK only when all processors have come up, and never
\* counts more of them than there are.
OkMeansAllUp ==
    /\ initialized_APs = Cardinality(AtOneOf({"running"}))
    /\ result = "ERROR_MP_OK" => AtOneOf({"running"}) = AP
    /\ result # "GENERIC_ERROR"

\* When all processors react, init_APs returns.
AllComeUp == <>(result = "ERROR_MP_OK")

\* mp_initialization.c:113, "DO THE INIT SIPI SIPI initialization": the start-up
\* IPI goes to the processor it is sent for.
SipiReachesTarget == sipi.went = sipi.target

\* mp_initialization.h: init_APs reports ERROR_MP_PARTIAL_STARTUP, after
\* max_attempts polls: it returns though a processor does not come up.
InitReturns == <>(result # "none")
=============================================================================

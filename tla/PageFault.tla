----------------------------- MODULE PageFault ------------------------------
(***************************************************************************)
(* The page fault handler (page_fault in src/kernel/mem/vmm.c) on several  *)
(* CPUs: pages of the identity mapping are mapped when they are touched,   *)
(* stacks grow into the padding below them, and anything else is a panic.  *)
(*                                                                         *)
(* Identity mapped pages are numbered from 0, the page of the null         *)
(* pointer, which belongs to no descriptor.  A stack is described by the   *)
(* pages of padding that are left below it.                                *)
(***************************************************************************)
EXTENDS Integers

CONSTANTS
  Cpu,            \* CPUs, each with a stack
  LastPage,       \* the identity mapping covers 1..LastPage
  Ram,            \* pages load_identity_map_pages has mapped at boot
  Extra,          \* PAGE_FAULT_ADDITIONAL_PAGE_LOAD
  Padding,        \* padding of a new stack, in pages
  Step,           \* KERNEL_STACK_EXPANSION_STEP, in pages
  MinPadding,     \* MINIMUM_STACK_PADDING, in pages
  NestedFaults    \* whether the handler itself may fault

ASSUME PageFaultAssumption ==
  /\ LastPage \in Nat /\ Extra \in Nat /\ Ram \subseteq 1..LastPage
  /\ Padding \in Nat /\ Step \in Nat
  /\ MinPadding \in Nat /\ MinPadding <= Padding
  /\ NestedFaults \in BOOLEAN

VARIABLES
  mapped,    \* identity mapped pages
  padding,   \* lower_padding of each CPU's stack
  servicing, \* page_fault_state.servicing_page_fault
  servedBy,  \* the CPU that set it (history)
  vlock,     \* the holder of the VMM's lock, as a set
  pc,        \* where each CPU is in page_fault
  fault,     \* what each CPU touched
  panic      \* the kernel has stopped, and why

vars == <<mapped, padding, servicing, servedBy, vlock, pc, fault, panic>>

-----------------------------------------------------------------------------
(* What may be touched: a page of the identity mapping, near its start or   *)
(* not, or a page of the own stack, "below" pages under its lowest one.     *)
Identity == [kind : {"identity"}, page : 0..LastPage, low : BOOLEAN]
Stack == [kind : {"stack"}, below : 1..Padding]

Missing(c, f) ==
  \/ f.kind = "identity" /\ f.page \notin mapped
  \/ f.kind = "stack" /\ f.below > Padding - padding[c]

(* The descriptor of a fault: the identity mapping does not hold page 0.    *)
InIdentityMap(f) == f.kind = "identity" /\ f.page \in 1..LastPage

Touch(c, f) ==
  /\ panic = "no" /\ pc[c] = "running" /\ Missing(c, f)
  /\ fault' = [fault EXCEPT ![c] = f]
  /\ pc' = [pc EXCEPT ![c] = "enter"]
  /\ UNCHANGED <<mapped, padding, servicing, servedBy, vlock, panic>>

(* The flag is tested and set under page_fault_state.lock.                  *)
FlagTaken_Never == FALSE

FlagTaken == servicing

Enter(c) ==
  /\ panic = "no" /\ pc[c] = "enter"
  /\ IF FlagTaken
     THEN panic' = "double page fault detected" /\ UNCHANGED <<servicing, servedBy, pc>>
     ELSE /\ servicing' = TRUE /\ servedBy' = {c}
          /\ pc' = [pc EXCEPT ![c] = "lock"]
          /\ UNCHANGED panic
  /\ UNCHANGED <<mapped, padding, vlock, fault>>

TakeLock(c) ==
  /\ panic = "no" /\ pc[c] = "lock" /\ vlock = {}
  /\ vlock' = {c}
  /\ pc' = [pc EXCEPT ![c] = "service"]
  /\ UNCHANGED <<mapped, padding, servicing, servedBy, fault, panic>>

(* The first page that page_fault_check_identity_map_load maps is the one   *)
(* PAGE_FAULT_ADDITIONAL_PAGE_LOAD/2 bytes below the fault.                 *)
FirstLoaded(f) == IF f.low THEN f.page - 1 ELSE f.page

LoadedPages_OnlyOne(f) == {FirstLoaded(f)}

LoadedPages(f) == FirstLoaded(f)..FirstLoaded(f) + Extra

(* page_fault_check_stack_overflow.                                         *)
MayExpand_IgnoreMinimum(c) == padding[c] >= Step

MayExpand(c) == padding[c] - Step >= MinPadding

Service(c) ==
  /\ panic = "no" /\ pc[c] = "service"
  /\ LET f == fault[c]
     IN IF InIdentityMap(f)
        THEN mapped' = mapped \cup LoadedPages(f) /\ UNCHANGED <<padding, panic>>
        ELSE IF f.kind = "stack" /\ MayExpand(c)
        THEN padding' = [padding EXCEPT ![c] = @ - Step] /\ UNCHANGED <<mapped, panic>>
        ELSE panic' = "unrecoverable" /\ UNCHANGED <<mapped, padding>>
  /\ pc' = [pc EXCEPT ![c] = "release"]
  /\ UNCHANGED <<servicing, servedBy, vlock, fault>>

(* The handler itself touches a page that is not there.                     *)
FaultInHandler(c) ==
  /\ NestedFaults /\ panic = "no" /\ pc[c] = "service"
  /\ panic' = IF FlagTaken THEN "double page fault detected" ELSE panic
  /\ pc' = [pc EXCEPT ![c] = "nested"]
  /\ UNCHANGED <<mapped, padding, servicing, servedBy, vlock, fault>>

ReleaseLock(c) ==
  /\ panic = "no" /\ pc[c] = "release"
  /\ vlock' = {}
  /\ pc' = [pc EXCEPT ![c] = "clear"]
  /\ UNCHANGED <<mapped, padding, servicing, servedBy, fault, panic>>

(* The flag is cleared and the instruction that faulted runs again.         *)
Clear(c) ==
  /\ panic = "no" /\ pc[c] = "clear"
  /\ servicing' = FALSE /\ servedBy' = {}
  /\ pc' = [pc EXCEPT ![c] = IF Missing(c, fault[c]) THEN "enter" ELSE "running"]
  /\ UNCHANGED <<mapped, padding, vlock, fault, panic>>

(* Other operations of the VMM take its lock on a CPU that is not faulting. *)
VmmLock(c) ==
  /\ panic = "no" /\ pc[c] = "running" /\ vlock = {}
  /\ vlock' = {c} /\ pc' = [pc EXCEPT ![c] = "vmm"]
  /\ UNCHANGED <<mapped, padding, servicing, servedBy, fault, panic>>

VmmUnlock(c) ==
  /\ panic = "no" /\ pc[c] = "vmm"
  /\ vlock' = {} /\ pc' = [pc EXCEPT ![c] = "running"]
  /\ UNCHANGED <<mapped, padding, servicing, servedBy, fault, panic>>

Init ==
  /\ mapped = Ram /\ padding = [c \in Cpu |-> Padding]
  /\ servicing = FALSE /\ servedBy = {} /\ vlock = {}
  /\ pc = [c \in Cpu |-> "running"]
  /\ fault = [c \in Cpu |-> [kind |-> "none"]]
  /\ panic = "no"

Handle(c) ==
  Enter(c) \/ TakeLock(c) \/ Service(c) \/ ReleaseLock(c) \/ Clear(c) \/ VmmUnlock(c)

Next ==
  \E c \in Cpu :
    \/ \E f \in Identity \cup Stack : Touch(c, f)
    \/ Enter(c) \/ TakeLock(c) \/ Service(c) \/ ReleaseLock(c) \/ Clear(c)
    \/ FaultInHandler(c) \/ VmmLock(c) \/ VmmUnlock(c)

(* A CPU executes its code, and a spinlock that is free again and again is  *)
(* taken in the end.                                                        *)
Spec == Init /\ [][Next]_vars
        /\ \A c \in Cpu : WF_vars(Handle(c)) /\ SF_vars(TakeLock(c))
-----------------------------------------------------------------------------
(* The type of the state.                                                   *)
TypeOK ==
  /\ mapped \subseteq 0..LastPage + Extra
  /\ padding \in [Cpu -> 0..Padding]
  /\ servicing \in BOOLEAN /\ servedBy \subseteq Cpu /\ vlock \subseteq Cpu
  /\ panic \in {"no", "unrecoverable", "double page fault detected"}

(* However often a stack overflows, the padding that tells its overflow     *)
(* from an access to its neighbour never gets below the minimum, and a      *)
(* stack is never called unrecoverable while it could still grow (the       *)
(* comment in page_fault_check_stack_overflow).                             *)
PaddingKept ==
  /\ \A c \in Cpu : padding[c] >= MinPadding
  /\ panic = "unrecoverable" =>
       \E c \in Cpu : /\ pc[c] = "release"
                      /\ \/ fault[c].kind = "stack" /\ padding[c] - Step < MinPadding
                         \/ fault[c].kind = "identity" /\ fault[c].page = 0

Serving == {c \in Cpu : pc[c] \in {"lock", "service", "release", "clear"}}

(* The flag is set exactly while one CPU is between its two critical        *)
(* sections, so that a fault inside the handler is seen as one.             *)
FlagMeansServicing ==
  panic = "no" =>
    /\ servicing <=> Serving # {}
    /\ \A c, d \in Serving : c = d

(* A fault is served, and the page that was touched is there when the CPU   *)
(* goes on, or the kernel panics: no CPU faults on one page for ever, and   *)
(* none waits for ever for the flag or for the lock.                        *)
FaultEnds ==
  \A c \in Cpu :
    pc[c] = "enter" ~> (panic # "no" \/ (pc[c] = "running" /\ ~Missing(c, fault[c])))

(* Only a fault inside the handler is reported as a double page fault.      *)
DoubleFaultIsReal ==
  panic = "double page fault detected" => \E c \in servedBy : pc[c] = "nested"

(* The first page is never mapped, so that a null pointer faults.           *)
NullPageUnmapped == 0 \notin mapped
=============================================================================

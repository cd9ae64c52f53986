------------------------------ MODULE Spinlock ------------------------------
(***************************************************************************)
(* The spinlocks of kernel/util/sync_types.c on CPUs that take interrupts. *)
(*                                                                         *)
(* A CPU runs its main context until an interrupt puts a handler on top of *)
(* it.  A context is at one of the points of the acquire and release       *)
(* functions; the interrupt flag is the CPU's.  Locks are numbered in the  *)
(* order in which contexts nest them, and are released innermost first.    *)
(* Handlers are entered through interrupt gates, which clear the flag; the *)
(* page fault handler is entered through a trap gate, which leaves it as   *)
(* it was, and so is part of the main context here.                        *)
(***************************************************************************)
EXTENDS Integers

CONSTANTS Cpu,        \* the CPUs
          Lock,       \* the spinlocks, numbered in nesting order
          SoftLock,   \* the ones some code takes with acquire_spinlock
          IrqLock     \* the ones interrupt handlers take

ASSUME LockAssumption ==
    /\ Lock \subseteq Nat \ {0}
    /\ SoftLock \subseteq Lock
    /\ IrqLock \subseteq Lock

NoLock == 0
Ctx    == Cpu \X {"main", "irq"}

VARIABLES
    iflag,    \* the interrupt flag of each CPU
    irq,      \* is a handler running on the CPU?
    locked,   \* the atomic_flag of each lock
    pc,       \* where each context is
    want,     \* the lock it is acquiring
    istate,   \* the InterruptState it saved, per lock
    hard,     \* the locks it holds through acquire_spinlock_hard
    soft,     \* the locks it holds through acquire_spinlock
    enabled   \* the flag as the main context itself last set it

vars == <<iflag, irq, locked, pc, want, istate, hard, soft, enabled>>

Init ==
    /\ iflag = [c \in Cpu |-> FALSE]
    /\ irq = [c \in Cpu |-> FALSE]
    /\ locked = [l \in Lock |-> FALSE]
    /\ pc = [x \in Ctx |-> "run"]
    /\ want = [x \in Ctx |-> NoLock]
    /\ istate = [x \in Ctx |-> [l \in Lock |-> FALSE]]
    /\ hard = [x \in Ctx |-> {}]
    /\ soft = [x \in Ctx |-> {}]
    /\ enabled = [c \in Cpu |-> FALSE]

------------------------------------------------------------------------------
\* The context a CPU is executing.
Running(c) == <<c, IF irq[c] THEN "irq" ELSE "main">>

Held(x) == hard[x] \cup soft[x]

\* The locks context x may ask for next.
MayAcquire(x) ==
    {l \in (IF x[2] = "irq" THEN IrqLock ELSE Lock) : \A m \in Held(x) : m < l}

\* Mutant: the state is saved but interrupts stay on.
DisableAndSave_StaysOn(c, x, l) ==
    /\ istate' = [istate EXCEPT ![x][l] = iflag[c]]
    /\ iflag' = iflag

\* disable_and_save_interrupts, for the lock that context x wants.
DisableAndSave(c, x, l) ==
    /\ istate' = [istate EXCEPT ![x][l] = iflag[c]]
    /\ iflag' = [iflag EXCEPT ![c] = FALSE]

\* Mutant: the saved state is ignored and interrupts are always enabled.
RestoreInterruptState_AlwaysOn(c, saved) == iflag' = [iflag EXCEPT ![c] = TRUE]

\* restore_interrupt_state never clears the flag.
RestoreInterruptState(c, saved) ==
    iflag' = [iflag EXCEPT ![c] = saved \/ @]

\* acquire_spinlock_hard is called, or comes round its loop after a pause.
DisableForHard(c) ==
    LET x == Running(c) IN
    /\ \/ pc[x] = "run" /\ \E l \in MayAcquire(x) : want' = [want EXCEPT ![x] = l]
       \/ pc[x] = "spin" /\ want' = want
    /\ pc' = [pc EXCEPT ![x] = "try"]
    /\ DisableAndSave(c, x, want'[x])
    /\ UNCHANGED <<irq, locked, hard, soft, enabled>>

\* Mutant: the result of the test-and-set is not looked at.
TakeHard_NoTest(c) ==
    LET x == Running(c)
        l == want[x] IN
    /\ pc[x] = "try"
    /\ locked' = [locked EXCEPT ![l] = TRUE]
    /\ hard' = [hard EXCEPT ![x] = @ \cup {l}]
    /\ pc' = [pc EXCEPT ![x] = "run"]
    /\ want' = [want EXCEPT ![x] = NoLock]
    /\ UNCHANGED <<iflag, irq, istate, soft, enabled>>

\* The test-and-set of acquire_spinlock_hard finds the lock free.
TakeHard(c) ==
    LET x == Running(c)
        l == want[x] IN
    /\ pc[x] = "try"
    /\ ~locked[l]
    /\ locked' = [locked EXCEPT ![l] = TRUE]
    /\ hard' = [hard EXCEPT ![x] = @ \cup {l}]
    /\ pc' = [pc EXCEPT ![x] = "run"]
    /\ want' = [want EXCEPT ![x] = NoLock]
    /\ UNCHANGED <<iflag, irq, istate, soft, enabled>>

\* It finds the lock taken: interrupts are let in until the next attempt.
SpinHard(c) ==
    LET x == Running(c) IN
    /\ pc[x] = "try"
    /\ locked[want[x]]
    /\ RestoreInterruptState(c, istate[x][want[x]])
    /\ pc' = [pc EXCEPT ![x] = "spin"]
    /\ UNCHANGED <<irq, locked, want, istate, hard, soft, enabled>>

\* release_spinlock_hard: the flag of the lock, then the interrupt flag.
ClearHard(c) ==
    LET x == Running(c) IN
    /\ pc[x] = "run"
    /\ \E l \in hard[x] :
        /\ \A m \in Held(x) : m <= l
        /\ locked' = [locked EXCEPT ![l] = FALSE]
        /\ hard' = [hard EXCEPT ![x] = @ \ {l}]
        /\ want' = [want EXCEPT ![x] = l]
    /\ pc' = [pc EXCEPT ![x] = "restore"]
    /\ UNCHANGED <<iflag, irq, istate, soft, enabled>>

RestoreHard(c) ==
    LET x == Running(c) IN
    /\ pc[x] = "restore"
    /\ RestoreInterruptState(c, istate[x][want[x]])
    /\ istate' = [istate EXCEPT ![x][want[x]] = FALSE]
    /\ want' = [want EXCEPT ![x] = NoLock]
    /\ pc' = [pc EXCEPT ![x] = "run"]
    /\ UNCHANGED <<irq, locked, hard, soft, enabled>>

------------------------------------------------------------------------------
\* acquire_spinlock spins on the test-and-set and leaves the flag alone.
acquire_spinlock(c) ==
    LET x == Running(c) IN
    /\ pc[x] = "run"
    /\ \E l \in MayAcquire(x) \cap SoftLock :
        /\ ~locked[l]
        /\ locked' = [locked EXCEPT ![l] = TRUE]
        /\ soft' = [soft EXCEPT ![x] = @ \cup {l}]
    /\ UNCHANGED <<iflag, irq, pc, want, istate, hard, enabled>>

release_spinlock(c) ==
    LET x == Running(c) IN
    /\ pc[x] = "run"
    /\ \E l \in soft[x] :
        /\ \A m \in Held(x) : m <= l
        /\ locked' = [locked EXCEPT ![l] = FALSE]
        /\ soft' = [soft EXCEPT ![x] = @ \ {l}]
    /\ UNCHANGED <<iflag, irq, pc, want, istate, hard, enabled>>

------------------------------------------------------------------------------
\* The main context sets or clears the flag itself (boot, halt loops), which
\* it does only while it holds no lock.
SetInterrupts(c) ==
    LET x == <<c, "main">> IN
    /\ ~irq[c]
    /\ pc[x] = "run"
    /\ Held(x) = {}
    /\ iflag' = [iflag EXCEPT ![c] = ~@]
    /\ enabled' = [enabled EXCEPT ![c] = ~iflag[c]]
    /\ UNCHANGED <<irq, locked, pc, want, istate, hard, soft>>

\* The CPU takes an interrupt: the gate clears the flag.
Interrupt(c) ==
    /\ iflag[c]
    /\ ~irq[c]
    /\ irq' = [irq EXCEPT ![c] = TRUE]
    /\ iflag' = [iflag EXCEPT ![c] = FALSE]
    /\ UNCHANGED <<locked, pc, want, istate, hard, soft, enabled>>

\* iretq puts back the flags of the interrupted context.
InterruptReturn(c) ==
    /\ irq[c]
    /\ pc[<<c, "irq">>] = "run"
    /\ Held(<<c, "irq">>) = {}
    /\ irq' = [irq EXCEPT ![c] = FALSE]
    /\ iflag' = [iflag EXCEPT ![c] = TRUE]
    /\ UNCHANGED <<locked, pc, want, istate, hard, soft, enabled>>

\* What a CPU does once it has begun: it retries, finishes and leaves.
Progress(c) ==
    \/ pc[Running(c)] = "spin" /\ DisableForHard(c)
    \/ TakeHard(c) \/ SpinHard(c) \/ ClearHard(c) \/ RestoreHard(c)
    \/ release_spinlock(c)
    \/ InterruptReturn(c)

Next ==
    \E c \in Cpu :
        \/ DisableForHard(c) \/ TakeHard(c) \/ SpinHard(c)
        \/ ClearHard(c) \/ RestoreHard(c)
        \/ acquire_spinlock(c) \/ release_spinlock(c)
        \/ SetInterrupts(c) \/ Interrupt(c) \/ InterruptReturn(c)

Spec == Init /\ [][Next]_vars

\* A CPU keeps executing instructions, and its critical sections end.
Fairness == \A c \in Cpu : WF_vars(Progress(c))

FairSpec == Spec /\ Fairness

------------------------------------------------------------------------------
\* The types of the variables: the flag of each lock and CPU, the point each
\* context has reached in the functions of sync_types.c, and the sets it holds.
TypeOK ==
    /\ iflag \in [Cpu -> BOOLEAN]
    /\ irq \in [Cpu -> BOOLEAN]
    /\ locked \in [Lock -> BOOLEAN]
    /\ pc \in [Ctx -> {"run", "try", "spin", "restore"}]
    /\ want \in [Ctx -> Lock \cup {NoLock}]
    /\ istate \in [Ctx -> [Lock -> BOOLEAN]]
    /\ hard \in [Ctx -> SUBSET Lock]
    /\ soft \in [Ctx -> SUBSET Lock]
    /\ enabled \in [Cpu -> BOOLEAN]

\* A lock is held by one context at most, of whatever CPU and whether it took
\* it softly or with interrupts off.
MutualExclusion ==
    \A x, y \in Ctx : \A l \in Held(x) \cap Held(y) : x = y

\* A context that holds a lock through acquire_spinlock_hard is never
\* interrupted: no handler of its own CPU can spin on a lock under its feet.
HardHolderUninterrupted ==
    \A c \in Cpu :
        /\ \A v \in {"main", "irq"} : hard[<<c, v>>] # {} => ~iflag[c]
        /\ hard[<<c, "main">>] # {} => ~irq[c]

\* acquire and release give the interrupt flag back as they found it, also
\* when they nest, when the lock was contended and when handlers ran meanwhile;
\* while the lock is contended interrupts are open if they were at the call.
FlagGivenBack ==
    \A c \in Cpu :
        LET x == Running(c) IN
        pc[x] = "spin" \/ (pc[x] = "run" /\ hard[x] = {}) =>
            (iflag[c] <=> ~irq[c] /\ hard[x] = {} /\ enabled[c])

\* The innermost lock of the order, if only taken with interrupts off, is
\* always released again: neither a handler nor another CPU can wedge it.
InnermostReleased ==
    \A l \in Lock \ SoftLock :
        (\A m \in Lock : m <= l) => (locked[l] ~> ~locked[l])

\* "the interrupts are already disabled, no need for an hard lock": page_fault
\* holds the lock it takes softly with interrupts off.
SoftHolderInterruptsOff ==
    \A c \in Cpu : soft[<<c, "main">>] # {} => ~iflag[c] /\ ~irq[c]

------------------------------------------------------------------------------
(* The strengthening that makes the safety properties inductive.           *)

\* A lock's flag is set exactly while some context holds it.
FlagMeansHeld ==
    /\ \A l \in Lock : locked[l] <=> \E x \in Ctx : l \in Held(x)
    /\ \A x \in Ctx : hard[x] \cap soft[x] = {}

\* Is the flag x saves now the one its CPU's main context set itself?
Outermost(x) == x[2] = "main" /\ enabled[x[1]] /\ hard[x] = {}

\* The lock a context is taking or has just cleared is past the ones it holds.
WantsNext ==
    \A x \in Ctx :
        pc[x] # "run" => want[x] \in Lock /\ \A m \in Held(x) : m < want[x]

\* With interrupts off a context stays on top of its CPU.
OffMeansOnTop ==
    \A x \in Ctx :
        /\ hard[x] # {} \/ pc[x] \in {"try", "restore"} =>
                ~iflag[x[1]] /\ (x[2] = "main" => ~irq[x[1]])
        /\ x[2] = "irq" /\ ~irq[x[1]] => pc[x] = "run" /\ Held(x) = {}
        /\ x[2] = "main" /\ irq[x[1]] => enabled[x[1]]

\* Only the outermost hard lock has saved an open flag.
SavedFlags ==
    \A x \in Ctx :
        /\ pc[x] \in {"try", "restore"} => (istate[x][want[x]] <=> Outermost(x))
        /\ \A l \in hard[x] :
            istate[x][l] <=> /\ x[2] = "main"
                             /\ enabled[x[1]]
                             /\ \A m \in hard[x] : l <= m

\* The inductive invariant of the spinlocks.
IndInv ==
    /\ TypeOK
    /\ MutualExclusion
    /\ FlagMeansHeld
    /\ WantsNext
    /\ OffMeansOnTop
    /\ SavedFlags
    /\ FlagGivenBack
=============================================================================

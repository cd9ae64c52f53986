---------------------------- MODULE KernelLocks -----------------------------
(***************************************************************************)
(* How the locks of the heap, of the VMM and of the shootdown queues nest: *)
(* the composition of src/kernel/mem/heap.c, vmm.c and                     *)
(* vaddr_cache_shootdown.c on CPUs that take the shootdown's interrupt.    *)
(*                                                                         *)
(* A context is what it still has to do: a sequence of steps that take or  *)
(* release a lock, call a function, visit queues, push, notify, wait, pop   *)
(* or acknowledge.  Only what takes a lock, waits or calls something that  *)
(* does is left of a function.  All CPUs have activated their queue.       *)
(***************************************************************************)
EXTENDS Integers, Sequences, FiniteSets

CONSTANTS
  Cpu,     \* the CPUs
  Ops,     \* the functions the kernel calls: a subset of Functions
  Growth,  \* may kmalloc find the heap full?
  MaxCalls \* calls each CPU makes (a bound)

Vmm == <<"vmm">>
Heap == <<"heap">>
Queue(c) == <<"queue", c>>
KernelLock == {Vmm, Heap} \cup {Queue(c) : c \in Cpu}

Functions == {"kmalloc", "kfree", "allocate", "copy", "expand", "deallocate", "page_fault"}

VARIABLES
  holder,  \* the CPU that holds each lock, as a set
  soft,    \* CPUs that hold the VMM's lock with interrupts on
  todo,    \* the main context of each CPU
  irq,     \* its handler, <<>> if it is not running
  queue,   \* the initiators of the nodes of each CPU's queue, newest first
  acks,    \* emptied_queues_count of each CPU's current shootdown
  ipi,     \* CPUs with a pending shootdown interrupt
  calls    \* calls each CPU has still to make

vars == <<holder, soft, todo, irq, queue, acks, ipi, calls>>

-----------------------------------------------------------------------------
Acq(l) == <<"acquire", l>>
Rel(l) == <<"release", l>>
Call(f) == <<"call", f>>

Others(c) == Cpu \ {c}

(* The rest of the loop of _enqueue_vmmcache_shootdown_range, with the queues *)
(* it has still to visit, in an order that is the same for all CPUs.        *)
Visiting(S) == IF S = {} THEN <<>> ELSE <<<<"visit", S>>>>

NextQueue(S) == CHOOSE d \in S : TRUE

(* A node is pushed to the queue, unless it is the caller's own.            *)
PushTo_AllLocked(c, d, rest) ==
  <<Acq(Queue(d)), Call("kmalloc"), <<"push", d>>>> \o rest \o <<Rel(Queue(d))>>

PushTo(c, d, rest) ==
  IF d = c THEN rest
  ELSE <<Acq(Queue(d)), Call("kmalloc"), <<"push", d>>, Rel(Queue(d))>> \o rest

(* The state is initialised, every queue visited, the interrupt sent, and   *)
(* the caller waits.                                                        *)
shootdown(c) ==
  IF Others(c) = {} THEN <<>>
  ELSE <<<<"start">>>> \o Visiting(Cpu) \o <<<<"ipi">>, <<"wait">>>>

(* try_increase_wilderness_chunk, with the heap's lock held.                *)
try_expand_vmem_top(c) == <<Acq(Vmm), Rel(Vmm)>> \o shootdown(c)

(* The paths through a function.  A descriptor comes from kmalloc, unless   *)
(* the free range has just the size that is needed.                         *)
kmalloc(c) ==
  {<<Acq(Heap), Rel(Heap)>>} \cup
  (IF Growth THEN {<<Acq(Heap)>> \o try_expand_vmem_top(c) \o <<Rel(Heap)>>} ELSE {})

kfree == {<<Acq(Heap), Rel(Heap)>>}

Descriptor(f) == {<<>>, <<Call(f)>>}

allocate(c) == {<<Acq(Vmm)>> \o d \o <<Rel(Vmm)>> \o shootdown(c) : d \in Descriptor("kmalloc")}

copy(c) ==
  {<<Acq(Vmm)>> \o d \o <<Rel(Vmm)>> \o shootdown(c) \o <<Acq(Vmm), Rel(Vmm)>> :
     d \in Descriptor("kmalloc")}

deallocate(c) == {<<Acq(Vmm)>> \o shootdown(c) \o d \o <<Rel(Vmm)>> : d \in Descriptor("kfree")}

page_fault(c) == {<<<<"acquire soft">>>> \o shootdown(c) \o <<Rel(Vmm)>>}

Paths(c, f) ==
  CASE f = "kmalloc" -> kmalloc(c)
    [] f = "kfree" -> kfree
    [] f = "allocate" -> allocate(c)
    [] f = "copy" -> copy(c)
    [] f = "expand" -> {try_expand_vmem_top(c)}
    [] f = "deallocate" -> deallocate(c)
    [] f = "page_fault" -> page_fault(c)

-----------------------------------------------------------------------------
(* The context that runs on c, its next step, and what it becomes.          *)
Code(c) == IF irq[c] # <<>> THEN irq[c] ELSE todo[c]

At(c, kind) == Code(c) # <<>> /\ Head(Code(c))[1] = kind

Arg(c) == Head(Code(c))[2]

Become(c, code) ==
  IF irq[c] # <<>>
  THEN irq' = [irq EXCEPT ![c] = code] /\ UNCHANGED todo
  ELSE todo' = [todo EXCEPT ![c] = code] /\ UNCHANGED irq

Continue(c) == Become(c, Tail(Code(c)))

Start(c, f) ==
  /\ Code(c) = <<>> /\ calls[c] > 0
  /\ calls' = [calls EXCEPT ![c] = @ - 1]
  /\ todo' = [todo EXCEPT ![c] = <<Call(f)>>]
  /\ UNCHANGED <<holder, soft, irq, queue, acks, ipi>>

CallStep(c) ==
  /\ At(c, "call")
  /\ \E p \in Paths(c, Arg(c)) : Become(c, p \o Tail(Code(c)))
  /\ UNCHANGED <<holder, soft, queue, acks, ipi, calls>>

Acquire(c) ==
  /\ At(c, "acquire") /\ holder[Arg(c)] = {}
  /\ holder' = [holder EXCEPT ![Arg(c)] = {c}]
  /\ Continue(c)
  /\ UNCHANGED <<soft, queue, acks, ipi, calls>>

(* page_fault takes the lock and leaves the interrupts as they are.         *)
AcquireSoft(c) ==
  /\ At(c, "acquire soft") /\ holder[Vmm] = {}
  /\ holder' = [holder EXCEPT ![Vmm] = {c}] /\ soft' = soft \cup {c}
  /\ Continue(c)
  /\ UNCHANGED <<queue, acks, ipi, calls>>

Release(c) ==
  /\ At(c, "release")
  /\ holder' = [holder EXCEPT ![Arg(c)] = {}]
  /\ soft' = IF Arg(c) = Vmm THEN soft \ {c} ELSE soft
  /\ Continue(c)
  /\ UNCHANGED <<queue, acks, ipi, calls>>

(* is_shootdown_q_active reads the flag under the queue's lock; all are set.*)
Visit(c) ==
  /\ At(c, "visit")
  /\ LET d == NextQueue(Arg(c))
     IN /\ holder[Queue(d)] = {}
        /\ Become(c, PushTo(c, d, Visiting(Arg(c) \ {d})) \o Tail(Code(c)))
  /\ UNCHANGED <<holder, soft, queue, acks, ipi, calls>>

InitState(c) ==
  /\ At(c, "start")
  /\ acks' = [acks EXCEPT ![c] = 0]
  /\ Continue(c)
  /\ UNCHANGED <<holder, soft, queue, ipi, calls>>

Push(c) ==
  /\ At(c, "push")
  /\ queue' = [queue EXCEPT ![Arg(c)] = <<c>> \o @]
  /\ Continue(c)
  /\ UNCHANGED <<holder, soft, acks, ipi, calls>>

SendIpi(c) ==
  /\ At(c, "ipi")
  /\ ipi' = ipi \cup Others(c)
  /\ Continue(c)
  /\ UNCHANGED <<holder, soft, queue, acks, calls>>

Wait(c) ==
  /\ At(c, "wait") /\ acks[c] >= Cardinality(Others(c))
  /\ Continue(c)
  /\ UNCHANGED <<holder, soft, queue, acks, ipi, calls>>

(* Interrupts are off while a hard lock is held and in a handler, and on    *)
(* while acquire_spinlock_hard spins for the outermost one.                 *)
HardLocks(c) == {l \in KernelLock : c \in holder[l] /\ ~(l = Vmm /\ c \in soft)}

Interruptible_NotWhileSpinning(c) == irq[c] = <<>> /\ HardLocks(c) = {} /\ ~At(c, "acquire")

Interruptible(c) == irq[c] = <<>> /\ HardLocks(c) = {}

Interrupt(c) ==
  /\ c \in ipi /\ Interruptible(c)
  /\ ipi' = ipi \ {c}
  /\ irq' = [irq EXCEPT ![c] = <<<<"drain">>>>]
  /\ UNCHANGED <<holder, soft, todo, queue, acks, calls>>

(* The loop of cache_shootdown_interrupt_handler, and its body.             *)
Popping(c) == <<Acq(Queue(c)), Call("kfree"), <<"pop">>>>

Drain(c) ==
  /\ At(c, "drain") /\ holder[Queue(c)] = {}
  /\ Become(c, IF queue[c] = <<>> THEN <<>> ELSE Popping(c))
  /\ UNCHANGED <<holder, soft, queue, acks, ipi, calls>>

Pop(c) ==
  /\ At(c, "pop")
  /\ queue' = [queue EXCEPT ![c] = Tail(@)]
  /\ Become(c, <<Rel(Queue(c)), <<"signal", Head(queue[c])>>, <<"drain">>>>)
  /\ UNCHANGED <<holder, soft, acks, ipi, calls>>

Signal(c) ==
  /\ At(c, "signal")
  /\ acks' = [acks EXCEPT ![Arg(c)] = @ + 1]
  /\ Continue(c)
  /\ UNCHANGED <<holder, soft, queue, ipi, calls>>

Init ==
  /\ holder = [l \in KernelLock |-> {}] /\ soft = {} /\ ipi = {}
  /\ todo = [c \in Cpu |-> <<>>] /\ irq = [c \in Cpu |-> <<>>]
  /\ queue = [c \in Cpu |-> <<>>] /\ acks = [c \in Cpu |-> 0]
  /\ calls = [c \in Cpu |-> MaxCalls]

Step(c) ==
  \/ CallStep(c) \/ Acquire(c) \/ AcquireSoft(c) \/ Release(c) \/ Visit(c)
  \/ InitState(c) \/ Push(c) \/ SendIpi(c) \/ Wait(c) \/ Drain(c) \/ Pop(c) \/ Signal(c)

Next ==
  \E c \in Cpu : Step(c) \/ Interrupt(c) \/ \E f \in Ops : Start(c, f)

(* A CPU executes its code, and takes a pending interrupt when it can.      *)
Spec == Init /\ [][Next]_vars
        /\ \A c \in Cpu : WF_vars(Step(c)) /\ WF_vars(Interrupt(c))
-----------------------------------------------------------------------------
(* The type of the state.                                                   *)
TypeOK ==
  /\ holder \in [KernelLock -> {{}} \cup {{c} : c \in Cpu}]
  /\ soft \subseteq holder[Vmm] /\ ipi \subseteq Cpu /\ calls \in [Cpu -> 0..MaxCalls]
  /\ \A c \in Cpu : queue[c] \in Seq(Others(c)) /\ acks[c] \in 0..Cardinality(Others(c))

Rank(l) == CASE l = Vmm -> 1 [] l = Heap -> 3 [] OTHER -> 2

(* The next step of c takes the lock l, if only for a test.                 *)
Asks(c, l) ==
  \/ At(c, "acquire") /\ l = Arg(c)
  \/ At(c, "acquire soft") /\ l = Vmm
  \/ At(c, "visit") /\ l = Queue(NextQueue(Arg(c)))
  \/ At(c, "drain") /\ l = Queue(c)

(* The locks have one order: the VMM's, then a queue's, then the heap's.    *)
(* No CPU asks for a lock, in its main context or in the handler, while it  *)
(* holds one that is not before it, over all the functions that nest them.  *)
LockOrder ==
  /\ TypeOK
  /\ \A c \in Cpu, k, l \in KernelLock : Asks(c, l) /\ c \in holder[k] => Rank(k) < Rank(l)

(* Every call returns: no CPU waits for ever for a lock or for the          *)
(* acknowledgement of a shootdown, which other CPUs give in a handler that  *)
(* itself takes locks.  (A CPU that is interrupted without end makes no     *)
(* progress: the number of calls is bounded.)                               *)
CallsReturn == \A c \in Cpu : todo[c] # <<>> ~> todo[c] = <<>>
=============================================================================

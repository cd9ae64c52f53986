------------------------------ MODULE Shootdown ------------------------------
(***************************************************************************)
(* TLB shootdowns between CPUs, kernel/mem/vaddr_cache_shootdown.c, with   *)
(* the callers in vmm.c that change a mapping, ask for a shootdown and     *)
(* wait, and the start of an application processor in mp_initialization.c. *)
(*                                                                         *)
(* Each CPU runs one main context and, on top of it, the shootdown         *)
(* interrupt's handler.  The queue operations run under queue_lock (module *)
(* Spinlock) and are single steps; the loops over the queues take one step *)
(* per queue.  A state lives on its caller's stack: it is named by the     *)
(* caller and the number of the call, and is gone when the call returns.   *)
(***************************************************************************)
EXTENDS Integers, Sequences, FiniteSets

CONSTANTS N,          \* queues_count: one queue per logical core
          Page,       \* the ranges of virtual addresses that are remapped
          BootActive, \* the CPUs whose queue is active at the start
          Caller,     \* the CPUs that change mappings
          Masked,     \* the ones that call with interrupts off (under a lock)
          Ops,        \* the operations they use
          MaxCalls    \* bound on the calls a CPU makes

Cpu == 0..(N - 1)

ASSUME ShootdownAssumption ==
    /\ N \in Nat \ {0}
    /\ MaxCalls \in Nat
    /\ BootActive \subseteq Cpu
    /\ Caller \subseteq Cpu
    /\ Masked \subseteq Cpu
    /\ Ops \subseteq {"shootdown", "enqueue", "empty_others", "empty_all"}

NullRange == [pages |-> {}]
RangeOf(p) == [pages |-> {p}]

VARIABLES
    pc,        \* where the main context of each CPU is
    iflag,     \* its interrupt flag
    pending,   \* has its local APIC a shootdown interrupt to deliver?
    handler,   \* "none", or where its handler is: "loop", "apply"
    cur,       \* the node the handler has popped
    active,    \* queue_array[i].active
    queue,     \* queue_array[i]: the nodes from q_head to q_tail
    call,      \* the operation in progress and its range
    calls,     \* the number of calls made: names the state of the last one
    index,     \* the queue the loops of the call look at next
    to_wait,   \* state->queues_to_wait_count
    emptied,   \* state->emptied_queues_count
    stale,     \* pages of which the CPU's TLB may hold an old translation
    skipped    \* pages whose shootdown passed the CPU by, until it flushes

vars == <<pc, iflag, pending, handler, cur, active, queue, call, calls, index,
          to_wait, emptied, stale, skipped>>

handlerVars == <<handler, cur>>
stateVars   == <<to_wait, emptied>>

VMMCacheShootdownRange == [pages : SUBSET Page]
Node == [range : VMMCacheShootdownRange, owner : Cpu,
         number : 1..MaxCalls, has_state : BOOLEAN]
NoNode == [range |-> NullRange, owner |-> 0, number |-> 0, has_state |-> FALSE]
NoCall == [op |-> "none", range |-> NullRange]

Init ==
    /\ pc = [c \in Cpu |-> IF c \in BootActive THEN "idle" ELSE "off"]
    /\ iflag = [c \in Cpu |-> c \in BootActive]
    /\ pending = [c \in Cpu |-> FALSE]
    /\ handler = [c \in Cpu |-> "none"]
    /\ cur = [c \in Cpu |-> NoNode]
    /\ active = [c \in Cpu |-> c \in BootActive]
    /\ queue = [c \in Cpu |-> <<>>]
    /\ call = [c \in Cpu |-> NoCall]
    /\ calls = [c \in Cpu |-> 0]
    /\ index = [c \in Cpu |-> 0]
    /\ to_wait = [c \in Cpu |-> 0]
    /\ emptied = [c \in Cpu |-> 0]
    /\ stale = [c \in Cpu |-> {}]
    /\ skipped = [c \in Cpu |-> {}]

Main(c) == handler[c] = "none"

\* The loops over queue_array start again at 0.
NextQueue(i) == IF i + 1 = N THEN 0 ELSE i + 1

------------------------------------------------------------------------------
(* The caller.                                                             *)

\* A caller that needs a state starts by counting the queues it will wait for.
HasState(op) == op # "enqueue"

\* Another CPU changed a mapping: every TLB but its own may be out of date.
Remap(c, p) ==
    stale' = [d \in Cpu |-> IF d = c \/ pc[d] = "off" THEN stale[d]
                                                       ELSE stale[d] \cup {p}]

\* vmmcache_shootdown and enqueue_vmmcache_shootdown_range follow a change of
\* the page tables; empty_*_vmmcache_shootdown_queues push a null range.
Begin(c, op, p) ==
    /\ Main(c)
    /\ pc[c] = "idle"
    /\ c \in Caller
    /\ calls[c] < MaxCalls
    /\ calls' = [calls EXCEPT ![c] = @ + 1]
    /\ iflag' = [iflag EXCEPT ![c] = c \notin Masked]
    /\ pc' = [pc EXCEPT ![c] = IF HasState(op) THEN "count" ELSE "push"]
    /\ index' = [index EXCEPT ![c] = 0]
    /\ to_wait' = [to_wait EXCEPT ![c] = 0]
    /\ emptied' = [emptied EXCEPT ![c] = 0]
    /\ \/ /\ op \in {"shootdown", "enqueue"}
          /\ call' = [call EXCEPT ![c] = [op |-> op, range |-> RangeOf(p)]]
          /\ Remap(c, p)
       \/ /\ op \in {"empty_others", "empty_all"}
          /\ call' = [call EXCEPT ![c] = [op |-> op, range |-> NullRange]]
          /\ stale' = stale
    /\ UNCHANGED <<pending, handlerVars, active, queue, skipped>>

\* Mutant: the caller's own queue is counted too.
CountQueue_Self(c) ==
    LET i == index[c] IN
    /\ Main(c)
    /\ pc[c] = "count"
    /\ to_wait' = [to_wait EXCEPT ![c] = IF active[i] THEN @ + 1 ELSE @]
    /\ index' = [index EXCEPT ![c] = NextQueue(i)]
    /\ pc' = [pc EXCEPT ![c] = IF i + 1 = N THEN "push" ELSE "count"]
    /\ UNCHANGED <<iflag, pending, handlerVars, active, queue, call, calls,
                   emptied, stale, skipped>>

\* init_vmmcache_shootdown_state reads the active flags without the lock.
CountQueue(c) ==
    LET i == index[c] IN
    /\ Main(c)
    /\ pc[c] = "count"
    /\ to_wait' = [to_wait EXCEPT ![c] = IF i # c /\ active[i] THEN @ + 1 ELSE @]
    /\ index' = [index EXCEPT ![c] = NextQueue(i)]
    /\ pc' = [pc EXCEPT ![c] = IF i + 1 = N THEN "push" ELSE "count"]
    /\ UNCHANGED <<iflag, pending, handlerVars, active, queue, call, calls,
                   emptied, stale, skipped>>

\* Mutant: the head is replaced and the rest of the queue is lost.
push_Overwrite(q, node) == <<node>>

\* push_to_shootdown_q puts the new node at the head.
push_to_shootdown_q(q, node) == <<node>> \o q

\* One turn of the loop of _enqueue_vmmcache_shootdown_range.
PushQueue(c) ==
    LET i    == index[c]
        node == [range |-> call[c].range, owner |-> c, number |-> calls[c],
                 has_state |-> HasState(call[c].op)]
    IN
    /\ Main(c)
    /\ pc[c] = "push"
    /\ queue' = IF active[i] /\ i # c
                THEN [queue EXCEPT ![i] = push_to_shootdown_q(@, node)]
                ELSE queue
    /\ skipped' = IF active[i] THEN skipped
                  ELSE [skipped EXCEPT ![i] = @ \cup call[c].range.pages]
    /\ index' = [index EXCEPT ![c] = NextQueue(i)]
    /\ pc' = [pc EXCEPT ![c] = IF i + 1 < N THEN "push"
                               ELSE IF HasState(call[c].op) THEN "ipi"
                               ELSE "done"]
    /\ UNCHANGED <<iflag, pending, handlerVars, active, call, calls, stateVars,
                   stale>>

\* send_IPI_by_destination_shorthand: to all the others, or to all.
SendIPI(c) ==
    /\ Main(c)
    /\ pc[c] = "ipi"
    /\ pending' = [d \in Cpu |->
                     \/ pending[d]
                     \/ d # c /\ pc[d] # "off"
                     \/ d = c /\ call[c].op = "empty_all"]
    /\ pc' = [pc EXCEPT ![c] = "wait"]
    /\ UNCHANGED <<iflag, handlerVars, active, queue, call, calls, index,
                   stateVars, stale, skipped>>

\* Mutant: the wait ends one queue early.
wait_OneShort(c) ==
    /\ Main(c)
    /\ pc[c] = "wait"
    /\ emptied[c] + 1 >= to_wait[c]
    /\ pc' = [pc EXCEPT ![c] = "done"]
    /\ UNCHANGED <<iflag, pending, handlerVars, active, queue, call, calls,
                   index, stateVars, stale, skipped>>

wait_for_vmmcache_shootdown_completition(c) ==
    /\ Main(c)
    /\ pc[c] = "wait"
    /\ emptied[c] >= to_wait[c]
    /\ pc' = [pc EXCEPT ![c] = "done"]
    /\ UNCHANGED <<iflag, pending, handlerVars, active, queue, call, calls,
                   index, stateVars, stale, skipped>>

\* A turn of the waiting loop that finds answers missing.
WaitPause(c) ==
    /\ Main(c)
    /\ pc[c] = "wait"
    /\ emptied[c] < to_wait[c]
    /\ UNCHANGED vars

\* The function that holds the state returns, and unlocks if it was locked.
Return(c) ==
    /\ Main(c)
    /\ pc[c] = "done"
    /\ pc' = [pc EXCEPT ![c] = "idle"]
    /\ call' = [call EXCEPT ![c] = NoCall]
    /\ iflag' = [iflag EXCEPT ![c] = TRUE]
    /\ UNCHANGED <<pending, handlerVars, active, queue, calls, index,
                   stateVars, stale, skipped>>

------------------------------------------------------------------------------
(* cache_shootdown_interrupt_handler, entered through an interrupt gate.   *)

HandlerEnter(c) ==
    /\ Main(c)
    /\ iflag[c]
    /\ pending[c]
    /\ pending' = [pending EXCEPT ![c] = FALSE]
    /\ handler' = [handler EXCEPT ![c] = "loop"]
    /\ UNCHANGED <<pc, iflag, cur, active, queue, call, calls, index,
                   stateVars, stale, skipped>>

\* The queue is not empty, and pop_from_shootdown_q takes its head.
HandlerPop(c) ==
    /\ handler[c] = "loop"
    /\ queue[c] # <<>>
    /\ cur' = [cur EXCEPT ![c] = Head(queue[c])]
    /\ queue' = [queue EXCEPT ![c] = Tail(@)]
    /\ handler' = [handler EXCEPT ![c] = "apply"]
    /\ UNCHANGED <<pc, iflag, pending, active, call, calls, index, stateVars,
                   stale, skipped>>

is_vmmcache_shootdown_range_null(r) == r.pages = {}

delete_vmmcache_range(c, r) == stale' = [stale EXCEPT ![c] = @ \ r.pages]

\* The state a node points to is still on its caller's stack.
StateAlive(node) ==
    /\ calls[node.owner] = node.number
    /\ call[node.owner] # NoCall

\* atomic_fetch_add on the state.  Through a stale pointer it writes to a dead
\* part of the stack, or to the state of the caller's next call.
vmmcache_shootdown_state_signal_queue_empty(node) ==
    LET bump == [emptied EXCEPT ![node.owner] = @ + 1] IN
    \/ StateAlive(node) /\ emptied' = bump
    \/ ~StateAlive(node) /\ emptied' \in {emptied, bump}

\* The handler drops a node: note which ranges it deletes.
HandlerApply(c) ==
    /\ handler[c] = "apply"
    /\ IF is_vmmcache_shootdown_range_null(cur[c].range)
       THEN delete_vmmcache_range(c, cur[c].range)
       ELSE stale' = stale
    /\ IF cur[c].has_state
       THEN vmmcache_shootdown_state_signal_queue_empty(cur[c])
       ELSE emptied' = emptied
    /\ cur' = [cur EXCEPT ![c] = NoNode]
    /\ handler' = [handler EXCEPT ![c] = "loop"]
    /\ UNCHANGED <<pc, iflag, pending, active, queue, call, calls, index,
                   to_wait, skipped>>

\* Mutant: one node per interrupt, the rest is left for the next one.
HandlerReturn_OnePerInterrupt(c) ==
    /\ handler[c] = "loop"
    /\ handler' = [handler EXCEPT ![c] = "none"]
    /\ UNCHANGED <<pc, iflag, pending, cur, active, queue, call, calls, index,
                   stateVars, stale, skipped>>

\* The loop ends only when the queue is found empty.
HandlerReturn(c) ==
    /\ handler[c] = "loop"
    /\ queue[c] = <<>>
    /\ handler' = [handler EXCEPT ![c] = "none"]
    /\ UNCHANGED <<pc, iflag, pending, cur, active, queue, call, calls, index,
                   stateVars, stale, skipped>>

------------------------------------------------------------------------------
(* An application processor starts: AP_entry_point.                        *)

\* It loads the kernel's page tables, with interrupts off, and sets up its
\* local APIC.
StartAP(c) ==
    /\ pc[c] = "off"
    /\ pc' = [pc EXCEPT ![c] = "boot"]
    /\ UNCHANGED <<iflag, pending, handlerVars, active, queue, call, calls,
                   index, stateVars, stale, skipped>>

SetActive(c) ==
    /\ active' = [active EXCEPT ![c] = TRUE]
    /\ UNCHANGED <<stale, skipped>>

FlushAll(c) ==
    /\ stale' = [stale EXCEPT ![c] = {}]
    /\ skipped' = [skipped EXCEPT ![c] = {}]
    /\ UNCHANGED active

\* Mutant: the TLB is flushed before the queue is active.
activate_FlushFirst(c) ==
    /\ \/ pc[c] = "boot" /\ pc' = [pc EXCEPT ![c] = "flush"] /\ FlushAll(c)
       \/ pc[c] = "flush" /\ pc' = [pc EXCEPT ![c] = "enable"] /\ SetActive(c)
    /\ UNCHANGED <<iflag, pending, handlerVars, queue, call, calls, index,
                   stateVars>>

\* The queue becomes active, and then the TLB is flushed.
activate_this_cpu_vmmcache_shootdown(c) ==
    /\ \/ pc[c] = "boot" /\ pc' = [pc EXCEPT ![c] = "flush"] /\ SetActive(c)
       \/ pc[c] = "flush" /\ pc' = [pc EXCEPT ![c] = "enable"] /\ FlushAll(c)
    /\ UNCHANGED <<iflag, pending, handlerVars, queue, call, calls, index,
                   stateVars>>

EnableInterrupts(c) ==
    /\ pc[c] = "enable"
    /\ pc' = [pc EXCEPT ![c] = "idle"]
    /\ iflag' = [iflag EXCEPT ![c] = TRUE]
    /\ UNCHANGED <<pending, handlerVars, active, queue, call, calls, index,
                   stateVars, stale, skipped>>

------------------------------------------------------------------------------
MainStep(c) ==
    \/ CountQueue(c) \/ PushQueue(c) \/ SendIPI(c)
    \/ wait_for_vmmcache_shootdown_completition(c)
    \/ Return(c)

HandlerStep(c) ==
    HandlerEnter(c) \/ HandlerPop(c) \/ HandlerApply(c) \/ HandlerReturn(c)

StartStep(c) ==
    \/ StartAP(c)
    \/ activate_this_cpu_vmmcache_shootdown(c)
    \/ EnableInterrupts(c)

\* All calls are made and have returned, and no interrupt is left.
Finished ==
    /\ \A c \in Cpu : /\ pc[c] = "idle" /\ handler[c] = "none" /\ ~pending[c]
                      /\ c \in Caller => calls[c] = MaxCalls
    /\ UNCHANGED vars

Next ==
    \/ \E c \in Cpu :
        \/ \E op \in Ops, p \in Page : Begin(c, op, p)
        \/ MainStep(c)
        \/ WaitPause(c)
        \/ HandlerStep(c)
        \/ StartStep(c)
    \/ Finished

Spec == Init /\ [][Next]_vars

\* A CPU keeps executing, takes the interrupts it lets in, and application
\* processors come up.
Fairness ==
    \A c \in Cpu : /\ WF_vars(MainStep(c))
                   /\ WF_vars(HandlerStep(c))
                   /\ WF_vars(StartStep(c))

FairSpec == Spec /\ Fairness

------------------------------------------------------------------------------
NodesOf(q) == {q[i] : i \in 1..Len(q)}

\* The nodes that wait in the queue of CPU c or in the hands of its handler.
NodesAt(c) ==
    NodesOf(queue[c]) \cup (IF handler[c] = "apply" THEN {cur[c]} ELSE {})

\* Does the node belong to the call that CPU c is making?
OfCall(node, c) ==
    node.owner = c /\ node.number = calls[c] /\ call[c] # NoCall

\* The CPUs that have still to signal the state of c's call.
Owing(c) == {d \in Cpu : \E n \in NodesAt(d) : n.has_state /\ OfCall(n, c)}

\* The queues that c's loop has yet to push to.
ToPush(c) ==
    IF pc[c] = "push" THEN {d \in Cpu \ {c} : d >= index[c] /\ active[d]} ELSE {}

\* The variables of the shootdown subsystem have the types of their
\* declarations; a CPU that is off has nothing in hand.
TypeOK ==
    /\ pc \in [Cpu -> {"off", "boot", "flush", "enable", "idle", "count", "push",
                       "ipi", "wait", "done"}]
    /\ iflag \in [Cpu -> BOOLEAN]
    /\ pending \in [Cpu -> BOOLEAN]
    /\ handler \in [Cpu -> {"none", "loop", "apply"}]
    /\ cur \in [Cpu -> Node \cup {NoNode}]
    /\ active \in [Cpu -> BOOLEAN]
    /\ queue \in [Cpu -> Seq(Node)]
    /\ call \in [Cpu -> [op : Ops \cup {"none"}, range : VMMCacheShootdownRange]]
    /\ calls \in [Cpu -> 0..MaxCalls]
    /\ index \in [Cpu -> Cpu]
    /\ to_wait \in [Cpu -> 0..(N - 1)]
    /\ emptied \in [Cpu -> Nat]
    /\ stale \in [Cpu -> SUBSET Page]
    /\ skipped \in [Cpu -> SUBSET Page]

\* "DO NOT DEALLOCATE STATE BEFORE CALLING wait_for_vmmcache_shootdown_
\* completition": a node that will signal a state never outlives the call that
\* holds the state on its stack, so no handler writes through a dead pointer.
StateOutlivesNodes ==
    \A c \in Cpu : \A n \in NodesAt(c) : n.has_state => StateAlive(n)

\* What a caller waits for adds up: the queues it counted are those that have
\* signalled, those that still hold its node and those it has yet to push to.
\* So the wait ends exactly when every other CPU has dropped the node.
AckAccounting ==
    \A c \in Cpu :
        pc[c] \in {"push", "ipi", "wait", "done"} /\ HasState(call[c].op) =>
            to_wait[c] = emptied[c] + Cardinality(Owing(c) \cup ToPush(c))

\* A node with a state is never forgotten: its CPU's local APIC has an
\* interrupt to deliver, or its handler is still emptying the queue, or the
\* caller has not sent the IPI yet.
NoLostWakeup ==
    \A c \in Cpu : \A n \in NodesAt(c) : n.has_state =>
        \/ pending[c]
        \/ handler[c] # "none"
        \/ OfCall(n, n.owner) /\ pc[n.owner] \in {"push", "ipi"}

\* "we may lose some shootdowns this is taken care of in activate_this_cpu_
\* vmmcache_shootdown": a CPU that has activated its queue has flushed away
\* every page of which a shootdown passed it by.
LostShootdownsCovered ==
    \A c \in Cpu : pc[c] \notin {"off", "boot", "flush"} => skipped[c] = {}

\* Every call returns: all the CPUs that were asked answer, also while they
\* themselves wait for the others.
CallReturns == \A c \in Cpu : pc[c] = "count" ~> pc[c] = "idle"

\* "shootdown of the virtual addresses translation caches of the range": when
\* the wait is over no other active CPU holds an old translation of it.
ShootdownFlushes ==
    \A c \in Cpu : pc[c] = "done" /\ call[c].op = "shootdown" =>
        \A d \in Cpu \ {c} : active[d] => stale[d] \cap call[c].range.pages = {}

\* "Because the null range with the state is pushed after all the other
\* shootdown ranges we are sure that when the state is set as completed all the
\* previous range had been executed": nothing the caller enqueued earlier is
\* left when its checkpoint is complete.
CheckpointIsLast ==
    \A c \in Cpu : pc[c] = "done" /\ call[c].op = "empty_others" =>
        \A d \in Cpu \ {c} : \A n \in NodesAt(d) :
            n.owner = c => n.number >= calls[c]

------------------------------------------------------------------------------
(* The strengthening that makes NoLostWakeup and LostShootdownsCovered     *)
(* inductive.                                                              *)

\* A queue is active from activate_this_cpu_vmmcache_shootdown on, for good.
ActiveForGood ==
    \A c \in Cpu : active[c] <=> pc[c] \notin {"off", "boot"}

\* Only a CPU that runs with its queue active makes calls or takes interrupts.
InCall ==
    \A c \in Cpu :
        /\ pc[c] \in {"count", "push", "ipi", "wait", "done"} =>
                call[c].op \in Ops /\ calls[c] >= 1
        /\ pc[c] \in {"ipi", "wait"} => HasState(call[c].op)
        /\ handler[c] # "none" => active[c]
        /\ handler[c] = "apply" => cur[c] \in Node
        /\ pc[c] \in {"off", "boot", "flush", "enable"} => ~iflag[c]

\* Nodes are pushed to the active queues of other CPUs, by a call that is made
\* now or was made before.
PushedToOthers ==
    \A c \in Cpu : \A n \in NodesAt(c) :
        /\ active[c]
        /\ n.owner # c
        /\ n.number <= calls[n.owner]
        /\ OfCall(n, n.owner) => (n.has_state <=> HasState(call[n.owner].op))

\* The count of a state is at most the number of queues looked at, less the
\* caller's own.
CountBounded ==
    \A c \in Cpu : pc[c] = "count" =>
        /\ to_wait[c] <= index[c]
        /\ c < index[c] => to_wait[c] < index[c]

\* The inductive invariant of the shootdown subsystem.
IndInv ==
    /\ TypeOK
    /\ ActiveForGood
    /\ InCall
    /\ PushedToOthers
    /\ CountBounded
    /\ NoLostWakeup
    /\ LostShootdownsCovered
=============================================================================

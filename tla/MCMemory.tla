------------------------------ MODULE MCMemory ------------------------------
(***************************************************************************)
(* The kernel's virtual memory and its heap, on small instances: two CPUs  *)
(* and ranges of a few pages for Vmm, a heap of a few chunks for Heap.     *)
(* The two share no variable (Heap keeps what it needs of its descriptor), *)
(* so a behaviour is that of one of them.  Vmm is extended; Heap is an     *)
(* instance, and its properties are looked at in its own behaviours.       *)
(***************************************************************************)
EXTENDS Vmm, TLC

VARIABLES
    part,   \* the part that is looked at
    kheap, upper_padding, allocated, panic, broken

heapVars == <<kheap, upper_padding, allocated, panic, broken>>

MCSegment == {<<7, 2>>}
MCIdentityRange == {<<1, 2>>, <<2, 1>>}
MCPaddings == {<<1, 1>>}
Symmetry == Permutations(CPU)

\* Requests that need the smallest chunk, a chunk of each kind of bucket, and
\* one that makes the heap grow.
Malloc == INSTANCE Heap WITH
    PAGE_SIZE <- 32, KERNEL_HEAP_SIZE <- 192, KERNEL_HEAP_GROWTH_STEP <- 32, PADDING <- 64,
    BUCKETS_COUNT <- 8, FIRST_COUNT <- 4, SECOND_COUNT <- 2, SECOND_STEP <- 16, THIRD_STEP <- 32,
    Request <- {10, 17, 40, 96}

MemoryInit == part \in {"vmm", "heap"} /\ Init /\ Malloc!Init

MemoryNext ==
    \/ part = "vmm" /\ Next /\ UNCHANGED <<part, heapVars>>
    \/ part = "heap" /\ Malloc!Next /\ UNCHANGED <<part, vars>>

MemorySpec == MemoryInit /\ [][MemoryNext]_<<part, vars, heapVars>>

------------------------------------------------------------------------------
\* The chunks fill the heap, each bucket lists exactly the free ones of its
\* sizes, and callers own theirs.
HeapSound == part = "heap" => Malloc!HeapSound /\ Malloc!BucketsExact

\* Neighbours are merged: a heap that is all free is one chunk.
AllFreedIsOneChunk == part = "heap" => Malloc!AllFreedIsOneChunk

\* A chunk that would do is not overlooked.
SearchMissesNothing == part = "heap" => Malloc!SearchMissesNothing
=============================================================================

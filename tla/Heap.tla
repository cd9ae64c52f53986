-------------------------------- MODULE Heap --------------------------------
(***************************************************************************)
(* The kernel heap, kernel/mem/heap.c.                                     *)
(*                                                                         *)
(* kmalloc, kfree and the getters hold kheap_lock (module Spinlock) from   *)
(* their first line to their last: each is one step, and a function of the *)
(* heap to the heap.  The heap's memory is what its code reads: headers    *)
(* and footers by their address, and the links that free chunks keep in    *)
(* their user data.  Addresses count bytes from the start of the heap.     *)
(***************************************************************************)
EXTENDS Integers, FiniteSets, Functions, TLC

CONSTANTS
    PAGE_SIZE,        \* a multiple of 8
    KERNEL_HEAP_SIZE, \* whole pages, more than 128 bytes
    KERNEL_HEAP_GROWTH_STEP,
    PADDING,          \* how much the heap's virtual memory can grow
    BUCKETS_COUNT,    \* 128
    FIRST_COUNT,      \* 64: buckets of one size each, up to 8 * 64 bytes
    SECOND_COUNT,     \* 32: the buckets that follow ...
    SECOND_STEP,      \* 64: ... take a range of sizes each
    THIRD_STEP,       \* 512: and so do the rest, the last without a limit
    Request           \* the sizes kmalloc is called with

HEAP_CHUNK_MIN_SIZE == 16
HEADER   == 8
FOOTER   == 8
OVERHEAD == HEADER + FOOTER
NULL     == -1

VARIABLES
    kheap,          \* struct Heap and the memory it manages
    upper_padding,  \* of the heap's virtual memory descriptor (vmm.c)
    allocated,      \* user pointer -> requested size, for what callers hold
    panic,          \* "none" or the kpanic the kernel died with
    broken          \* has a caller been given a chunk that is still free?

vars == <<kheap, upper_padding, allocated, panic, broken>>

------------------------------------------------------------------------------
(* Chunks.                                                                 *)

Chunks(h) == DOMAIN h.hdr
get_fixed_heap_chunk_size(h, a) == h.hdr[a].size
IsFree(h, a) == h.hdr[a].free
is_last_chunk_of_heap(h, a) == h.hdr[a].wilderness
is_first_chunk_of_heap(a) == a = 0

get_next_heap_chunk_header(h, a) == a + h.hdr[a].size + OVERHEAD
get_heap_chunk_footer_from_header(h, a) == a + HEADER + h.hdr[a].size
get_prev_heap_chunk_header(h, a) == (a - FOOTER) - h.ftr[a - FOOTER] - HEADER
get_heap_chunk_user_data(a) == a + HEADER
get_heap_chunk_from_user_data(p) == p - HEADER

is_heap_chunk_corrupted(h, a) ==
    LET footer == get_heap_chunk_footer_from_header(h, a) IN
    \/ footer \notin DOMAIN h.ftr
    \/ h.ftr[footer] # h.hdr[a].size
    \/ h.ftr[footer] < HEAP_CHUNK_MIN_SIZE
    \/ h.ftr[footer] % 8 # 0

\* A KASSERT of the code: the heap remembers whether all of them held.
KASSERT(h, cond) == [h EXCEPT !.asserts = @ /\ cond]

\* Header, footer and, in its user data, no links yet.
WriteChunk(h, a, size, free, wilderness) ==
    [h EXCEPT
        !.hdr  = (a :> [size |-> size, free |-> free, wilderness |-> wilderness]) @@ @,
        !.ftr  = (a + HEADER + size :> size) @@ @,
        !.next = (a :> NULL) @@ @,
        !.prev = (a :> NULL) @@ @]

\* Headers and footers that become user data of another chunk.
Forget(h, chunks) ==
    LET feet == {get_heap_chunk_footer_from_header(h, a) : a \in chunks} IN
    [h EXCEPT !.hdr  = Restrict(@, Chunks(h) \ chunks),
              !.next = Restrict(@, Chunks(h) \ chunks),
              !.prev = Restrict(@, Chunks(h) \ chunks),
              !.ftr  = Restrict(@, (DOMAIN @) \ feet)]

------------------------------------------------------------------------------
(* The bucket lists.                                                       *)

get_bucket_index_from_size(size) ==
    LET max_first  == 8 * FIRST_COUNT
        max_second == max_first + SECOND_STEP * SECOND_COUNT
        index == IF size <= max_first THEN (size \div 8) - 1
                 ELSE IF size <= max_second
                 THEN FIRST_COUNT + (size - max_first) \div SECOND_STEP
                 ELSE FIRST_COUNT + SECOND_COUNT + (size - max_second) \div THIRD_STEP
    IN  IF index >= BUCKETS_COUNT THEN BUCKETS_COUNT - 1 ELSE index

get_bucket_index_from_header(h, a) ==
    IF is_last_chunk_of_heap(h, a) THEN BUCKETS_COUNT - 1
    ELSE get_bucket_index_from_size(h.hdr[a].size)

set_bucket_list_next(h, a, n) == [KASSERT(h, IsFree(h, a)) EXCEPT !.next[a] = n]
set_bucket_list_prev(h, a, p) == [KASSERT(h, IsFree(h, a)) EXCEPT !.prev[a] = p]

\* Mutant: the next element keeps pointing back to the chunk that left.
remove_from_bucket_list_NoPrev(h, a) ==
    LET index == get_bucket_index_from_header(h, a)
        n     == h.next[a]
        p     == h.prev[a]
        h1    == [h EXCEPT !.free_buckets[index] = IF @ = a THEN n ELSE @]
        h2    == IF p # NULL THEN set_bucket_list_next(h1, p, n) ELSE h1
    IN  set_bucket_list_prev(set_bucket_list_next(h2, a, NULL), a, NULL)

remove_from_bucket_list(h, a) ==
    LET index == get_bucket_index_from_header(h, a)
        n     == h.next[a]
        p     == h.prev[a]
        h1    == [h EXCEPT !.free_buckets[index] = IF @ = a THEN n ELSE @]
        h2    == IF p # NULL THEN set_bucket_list_next(h1, p, n) ELSE h1
        h3    == IF n # NULL THEN set_bucket_list_prev(h2, n, p) ELSE h2
    IN  set_bucket_list_prev(set_bucket_list_next(h3, a, NULL), a, NULL)

add_to_bucket_list(h, a) ==
    LET index == get_bucket_index_from_header(h, a)
        head  == h.free_buckets[index]
        h1    == set_bucket_list_next(set_bucket_list_prev(h, a, NULL), a, head)
        h2    == IF head # NULL THEN set_bucket_list_prev(h1, head, a) ELSE h1
    IN  [h2 EXCEPT !.free_buckets[index] = a]

\* The k-th element of a bucket's list, NULL beyond its end.
InBucket(h, index) ==
    LET nth[k \in 0..Cardinality(Chunks(h))] ==
            IF k = 0 THEN h.free_buckets[index]
            ELSE IF nth[k - 1] = NULL THEN NULL ELSE h.next[nth[k - 1]]
    IN  nth

------------------------------------------------------------------------------
(* Splitting, merging and growing.                                         *)

\* The chunks in "gone" join the one at a, which takes up their room.
Join(h, a, gone, size, wilderness) ==
    [WriteChunk(Forget(h, gone \cup {a}), a, size, TRUE, wilderness)
        EXCEPT !.wilderness_chunk = IF wilderness THEN a ELSE @,
               !.number_of_chunks = @ - Cardinality(gone)]

merge_with_next_chunk(h, a) ==
    LET next == get_next_heap_chunk_header(h, a)
        size == h.hdr[a].size + h.hdr[next].size + OVERHEAD
        h1   == KASSERT(h, ~is_last_chunk_of_heap(h, a) /\ IsFree(h, a) /\ IsFree(h, next))
        h2   == remove_from_bucket_list(remove_from_bucket_list(h1, a), next)
    IN  add_to_bucket_list(Join(h2, a, {next}, size, h.hdr[next].wilderness), a)

merge_with_next_and_prev_chunk(h, a) ==
    LET next == get_next_heap_chunk_header(h, a)
        prev == get_prev_heap_chunk_header(h, a)
        size == h.hdr[a].size + h.hdr[next].size + h.hdr[prev].size + 2 * OVERHEAD
        foot == get_heap_chunk_footer_from_header(h, next)
        h1   == KASSERT(h, /\ ~is_last_chunk_of_heap(h, a) /\ ~is_first_chunk_of_heap(a)
                           /\ IsFree(h, a) /\ IsFree(h, next) /\ IsFree(h, prev))
        h2   == remove_from_bucket_list(remove_from_bucket_list(
                    remove_from_bucket_list(h1, a), next), prev)
        h3   == Join(h2, prev, {a, next}, size, h.hdr[next].wilderness)
        h4   == KASSERT(h3, get_heap_chunk_footer_from_header(h3, prev) = foot)
    IN  add_to_bucket_list(h4, prev)

\* What a split leaves for the second chunk; negative if there is no room.
SecondChunkSize(h, a, size) == h.hdr[a].size - (size + OVERHEAD)

\* split_chunk_and_alloc returns false, and does nothing, if this is false.
Splits(h, a, size) == SecondChunkSize(h, a, size) >= HEAP_CHUNK_MIN_SIZE

split_chunk_and_alloc(h, a, size) ==
    LET wild   == is_last_chunk_of_heap(h, a)
        second == a + size + OVERHEAD
        h1     == KASSERT(h, /\ IsFree(h, a) /\ size % 8 = 0
                             /\ size >= HEAP_CHUNK_MIN_SIZE)
        h2     == Forget(remove_from_bucket_list(h1, a), {a})
        h3     == WriteChunk(h2, a, size, FALSE, FALSE)
        h4     == WriteChunk(h3, second, SecondChunkSize(h, a, size), TRUE, wild)
        h5     == KASSERT(h4, /\ SecondChunkSize(h, a, size) % 8 = 0
                              /\ get_heap_chunk_footer_from_header(h4, second) =
                                    get_heap_chunk_footer_from_header(h, a))
    IN  [add_to_bucket_list(h5, second)
            EXCEPT !.wilderness_chunk = IF wild THEN second ELSE @,
                   !.number_of_chunks = @ + 1]

alloc_chunk(h, a) ==
    LET h1 == remove_from_bucket_list(KASSERT(h, ~is_last_chunk_of_heap(h, a)), a)
    IN  [h1 EXCEPT !.hdr[a].free = FALSE]

RoundUp(n, m) == IF n % m = 0 THEN n ELSE n + m - (n % m)

\* Mutant: the request alone, without the new header and footer.
GrowthSize_NoOverhead(size) ==
    RoundUp(IF KERNEL_HEAP_GROWTH_STEP < size THEN size ELSE KERNEL_HEAP_GROWTH_STEP,
            PAGE_SIZE)

GrowthSize(size) ==
    LET min_size_increase == size + OVERHEAD
    IN  RoundUp(IF KERNEL_HEAP_GROWTH_STEP < min_size_increase
                THEN min_size_increase ELSE KERNEL_HEAP_GROWTH_STEP, PAGE_SIZE)

\* try_expand_vmem_top gives memory as long as the padding lasts.
try_expand_vmem_top(size) == kheap.enable_growth /\ size <= upper_padding

try_increase_wilderness_chunk(h, growth_size) ==
    LET w  == h.wilderness_chunk
        h1 == [h EXCEPT !.size = @ + growth_size]
        h2 == [Forget(h1, {w}) EXCEPT
                 !.hdr  = (w :> [h.hdr[w] EXCEPT !.size = @ + growth_size]) @@ @,
                 !.next = (w :> h.next[w]) @@ @,
                 !.prev = (w :> h.prev[w]) @@ @]
        footer == get_heap_chunk_footer_from_header(h2, w)
        h3 == KASSERT(h2, is_last_chunk_of_heap(h2, w) /\ footer + FOOTER = h2.size)
    IN  [h3 EXCEPT !.ftr = (footer :> h3.hdr[w].size) @@ @]

------------------------------------------------------------------------------
(* kheap_init.                                                             *)

initialize_heap ==
    LET none == [size |-> KERNEL_HEAP_SIZE, enable_growth |-> FALSE,
                 number_of_chunks |-> 1, wilderness_chunk |-> 0,
                 free_buckets |-> [i \in 0..(BUCKETS_COUNT - 1) |-> NULL],
                 hdr |-> <<>>, ftr |-> <<>>, next |-> <<>>, prev |-> <<>>,
                 asserts |-> TRUE]
    IN  add_to_bucket_list(
            WriteChunk(none, 0, KERNEL_HEAP_SIZE - OVERHEAD, TRUE, TRUE), 0)

Init ==
    /\ kheap = initialize_heap
    /\ upper_padding = PADDING
    /\ allocated = <<>>
    /\ panic = "none"
    /\ broken = FALSE

Running == panic = "none" /\ ~broken

enable_kheap_growth ==
    /\ Running
    /\ ~kheap.enable_growth
    /\ kheap' = [kheap EXCEPT !.enable_growth = TRUE]
    /\ UNCHANGED <<upper_padding, allocated, panic, broken>>

------------------------------------------------------------------------------
(* kmalloc: one action for each way it can end.                            *)

\* The size in whole words, large enough for the links of a free chunk.
ChunkSize(request) ==
    RoundUp(IF request < HEAP_CHUNK_MIN_SIZE THEN HEAP_CHUNK_MIN_SIZE ELSE request, 8)

Suitable(h, a, size) ==
    \/ h.hdr[a].size = size
    \/ h.hdr[a].size >= HEAP_CHUNK_MIN_SIZE + OVERHEAD

\* Mutant: the search starts one bucket late.
FirstBucket_Late(size) == get_bucket_index_from_size(size) + 1

FirstBucket(size) == get_bucket_index_from_size(size)

\* The first suitable chunk of the first bucket that has one, else the
\* wilderness chunk.
found_chunk(h, size) ==
    LET hits == {<<i, k>> \in (FirstBucket(size) .. (BUCKETS_COUNT - 1))
                              \X (0 .. Cardinality(Chunks(h))) :
                    LET a == InBucket(h, i)[k] IN a # NULL /\ Suitable(h, a, size)}
        first == CHOOSE x \in hits : \A y \in hits :
                    x[1] < y[1] \/ (x[1] = y[1] /\ x[2] <= y[2])
    IN  IF hits = {} THEN h.wilderness_chunk ELSE InBucket(h, first[1])[first[2]]

HandOut(a, request) ==
    allocated' = (get_heap_chunk_user_data(a) :> request) @@ allocated

AllocExact(request) ==
    LET size == ChunkSize(request)  a == found_chunk(kheap, size) IN
    /\ ~is_last_chunk_of_heap(kheap, a)
    /\ kheap.hdr[a].size = size
    /\ kheap' = alloc_chunk(kheap, a)
    /\ HandOut(a, request)
    /\ UNCHANGED <<upper_padding, panic, broken>>

\* Of an ordinary chunk or of the wilderness.
AllocSplit(request) ==
    LET size == ChunkSize(request)  a == found_chunk(kheap, size) IN
    /\ is_last_chunk_of_heap(kheap, a) \/ kheap.hdr[a].size # size
    /\ Splits(kheap, a, size)
    /\ kheap' = split_chunk_and_alloc(kheap, a, size)
    /\ HandOut(a, request)
    /\ UNCHANGED <<upper_padding, panic, broken>>

\* The result of split_chunk_and_alloc is ignored: the caller gets a chunk that
\* is still free and in its bucket, and the first thing it writes there
\* overwrites the links.  What follows is undefined and not modelled.
AllocUnsplit(request) ==
    LET size == ChunkSize(request)  a == found_chunk(kheap, size) IN
    /\ ~is_last_chunk_of_heap(kheap, a)
    /\ kheap.hdr[a].size # size
    /\ ~Splits(kheap, a, size)
    /\ HandOut(a, request)
    /\ broken' = TRUE
    /\ UNCHANGED <<kheap, upper_padding, panic>>

AllocGrown(request) ==
    LET size == ChunkSize(request)
        a    == found_chunk(kheap, size)
        grown == try_increase_wilderness_chunk(kheap, GrowthSize(size))
    IN
    /\ is_last_chunk_of_heap(kheap, a)
    /\ ~Splits(kheap, a, size)
    /\ try_expand_vmem_top(GrowthSize(size))
    /\ upper_padding' = upper_padding - GrowthSize(size)
    /\ IF Splits(grown, a, size)
       THEN /\ kheap' = split_chunk_and_alloc(grown, a, size)
            /\ HandOut(a, request)
            /\ UNCHANGED <<panic, broken>>
       ELSE /\ kheap' = grown
            /\ panic' = "out of memory after growth"
            /\ UNCHANGED <<allocated, broken>>

AllocPanics(request) ==
    LET size == ChunkSize(request)  a == found_chunk(kheap, size) IN
    /\ is_last_chunk_of_heap(kheap, a)
    /\ ~Splits(kheap, a, size)
    /\ ~try_expand_vmem_top(GrowthSize(size))
    /\ panic' = "HEAP_OUT_OF_MEM"
    /\ UNCHANGED <<kheap, upper_padding, allocated, broken>>

kmalloc(request) ==
    /\ Running
    /\ \/ AllocExact(request)
       \/ AllocSplit(request)
       \/ AllocUnsplit(request)
       \/ AllocGrown(request)
       \/ AllocPanics(request)

------------------------------------------------------------------------------
(* kfree.                                                                  *)

\* Mutant: the previous chunk is not looked at.
FreeChunk_NextOnly(h, a) ==
    LET h1   == [h EXCEPT !.hdr[a].free = TRUE]
        next == get_next_heap_chunk_header(h1, a)
    IN  IF IsFree(h1, next) THEN merge_with_next_chunk(h1, a) ELSE add_to_bucket_list(h1, a)

\* The chunk is marked free and joined with its free neighbours.
FreeChunk(h, a) ==
    LET h1   == set_bucket_list_prev(
                    set_bucket_list_next([h EXCEPT !.hdr[a].free = TRUE], a, NULL),
                    a, NULL)
        prev == get_prev_heap_chunk_header(h1, a)
        next == get_next_heap_chunk_header(h1, a)
        join_prev == ~is_first_chunk_of_heap(a) /\ IsFree(h1, prev)
        join_next == ~is_last_chunk_of_heap(h1, a) /\ IsFree(h1, next)
    IN  CASE join_prev /\ join_next   -> merge_with_next_and_prev_chunk(h1, a)
          [] join_prev /\ ~join_next  -> merge_with_next_chunk(h1, prev)
          [] ~join_prev /\ join_next  -> merge_with_next_chunk(h1, a)
          [] ~join_prev /\ ~join_next -> add_to_bucket_list(h1, a)

kfree(p) ==
    LET a   == get_heap_chunk_from_user_data(p)
        bad == \/ a \notin Chunks(kheap)
               \/ IsFree(kheap, a)
               \/ is_last_chunk_of_heap(kheap, a)
               \/ is_heap_chunk_corrupted(kheap, a)
    IN
    /\ Running
    /\ allocated' = Restrict(allocated, (DOMAIN allocated) \ {p})
    /\ panic' = IF bad THEN "HEAP_CORRUPTED" ELSE panic
    /\ kheap' = IF bad THEN kheap ELSE FreeChunk(kheap, a)
    /\ UNCHANGED <<upper_padding, broken>>

\* After a kpanic, or once the behaviour is undefined, nothing more is said.
Halted == ~Running /\ UNCHANGED vars

Next ==
    \/ enable_kheap_growth
    \/ \E request \in Request : kmalloc(request)
    \/ \E p \in DOMAIN allocated : kfree(p)
    \/ Halted

Spec == Init /\ [][Next]_vars

------------------------------------------------------------------------------
\* The heap's variables have the types heap.h declares.
TypeOK ==
    /\ kheap.hdr \in [Chunks(kheap) -> [size : Nat, free : BOOLEAN, wilderness : BOOLEAN]]
    /\ kheap.next \in [Chunks(kheap) -> Chunks(kheap) \cup {NULL}]
    /\ kheap.prev \in [Chunks(kheap) -> Chunks(kheap) \cup {NULL}]
    /\ kheap.free_buckets \in [0..(BUCKETS_COUNT - 1) -> Chunks(kheap) \cup {NULL}]
    /\ kheap.ftr \in [DOMAIN kheap.ftr -> Nat]
    /\ kheap.wilderness_chunk \in Chunks(kheap)
    /\ kheap.number_of_chunks \in Nat
    /\ upper_padding \in 0..PADDING
    /\ allocated \in [DOMAIN allocated -> Request]

\* unsync_is_kheap_corrupted walks the chunks up to the wilderness.
Walk ==
    LET nth[k \in 1..kheap.number_of_chunks] ==
            IF k = 1 THEN 0
            ELSE IF nth[k - 1] \notin Chunks(kheap) THEN NULL
            ELSE get_next_heap_chunk_header(kheap, nth[k - 1])
    IN  nth

\* The heap's self check, is_kheap_corrupted(), never reports corruption, and
\* the chunks it walks over are all there are: they fill the heap from its start
\* to its end, the last one is the wilderness chunk, and there is no other footer.
NotCorrupted ==
    LET last == kheap.number_of_chunks IN
    /\ kheap.size % PAGE_SIZE = 0
    /\ {Walk[k] : k \in 1..last} = Chunks(kheap)
    /\ \A k \in 1..last :
        /\ ~is_heap_chunk_corrupted(kheap, Walk[k])
        /\ is_last_chunk_of_heap(kheap, Walk[k]) <=> k = last
    /\ kheap.wilderness_chunk = Walk[last]
    /\ get_next_heap_chunk_header(kheap, Walk[last]) = kheap.size
    /\ Cardinality(DOMAIN kheap.ftr) = last

\* No KASSERT of heap.c fails: links are only written to free chunks, the
\* footers of merged and split chunks are where the old ones were, the grown
\* wilderness ends where the heap ends.
AssertionsHold == kheap.asserts

\* Each bucket is a proper doubly linked list, and holds exactly the free
\* chunks of its sizes, whatever order they were freed, merged and split in.
BucketsExact ==
    \A i \in 0..(BUCKETS_COUNT - 1) :
        LET list == InBucket(kheap, i)
            free == {a \in Chunks(kheap) :
                        IsFree(kheap, a) /\ get_bucket_index_from_header(kheap, a) = i}
        IN  /\ {list[k] : k \in DOMAIN list} = free \cup {NULL}
            /\ list[0] # NULL => kheap.prev[list[0]] = NULL
            /\ \A a \in free : kheap.next[a] # NULL => kheap.prev[kheap.next[a]] = a

\* What callers hold are exactly the chunks that are not free, and each is as
\* large as it was asked for, until kmalloc hands out a chunk it failed to split.
CallersOwnTheirChunks ==
    ~broken =>
        /\ {get_heap_chunk_from_user_data(p) : p \in DOMAIN allocated}
                = {a \in Chunks(kheap) : ~IsFree(kheap, a)}
        /\ \A p \in DOMAIN allocated :
                allocated[p] <= kheap.hdr[get_heap_chunk_from_user_data(p)].size

\* heap_stress_test: when everything is freed again the heap is one chunk, as
\* it was at the start.  Neighbours are always merged.
AllFreedIsOneChunk ==
    Running /\ allocated = <<>> => kheap.number_of_chunks = 1

\* The kernel dies in the heap only for want of memory: kfree never finds a
\* chunk corrupted, and a heap that has grown always has room for the request.
OnlyOutOfMemory == panic \in {"none", "HEAP_OUT_OF_MEM"}

\* kmalloc takes from the wilderness only if no free chunk would do, but for
\* those that share the last bucket with the wilderness and come after it: the
\* search from the bucket of the requested size on misses none.
SearchMissesNothing ==
    \A request \in Request :
        LET size == ChunkSize(request) IN
        Running /\ is_last_chunk_of_heap(kheap, found_chunk(kheap, size)) =>
            \A a \in Chunks(kheap) :
                IsFree(kheap, a)
                /\ get_bucket_index_from_header(kheap, a) < BUCKETS_COUNT - 1 =>
                    kheap.hdr[a].size # size /\ ~Splits(kheap, a, size)

\* The memory of the heap is well formed after every kmalloc and kfree, whatever
\* their order: no assertion has failed, and callers own what is not free.
HeapSound ==
    TypeOK /\ NotCorrupted /\ AssertionsHold /\ CallersOwnTheirChunks /\ OnlyOutOfMemory

\* "assert that the chunk is free and that we are not going to override some
\* user data": the user data that callers hold is in no free chunk.
UserDataNotInFreeChunks ==
    \A p \in DOMAIN allocated : ~IsFree(kheap, get_heap_chunk_from_user_data(p))
=============================================================================

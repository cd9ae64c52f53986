-------------------------------- MODULE Vmm ---------------------------------
(***************************************************************************)
(* The kernel's virtual memory manager, kernel/mem/vmm.c: a doubly linked  *)
(* list of descriptors that tiles the identity mapped range and the        *)
(* kernel's range, and the page tables that follow it.                     *)
(*                                                                         *)
(* Everything the code does under vmm->lock is one step.  The pages are    *)
(* mapped after the lock is released, so that is a step of its own and the *)
(* other CPUs run in between.  Addresses and sizes count pages.            *)
(***************************************************************************)
EXTENDS Integers, FiniteSets, FiniteSetsExt, Functions

CONSTANTS
    CPU,
    IDENTITY_END,        \* the identity mapped range is 1 .. IDENTITY_END - 1
    KERNEL_START, KERNEL_END,   \* the kernel's range is KERNEL_START .. KERNEL_END - 1
    EARLY_ALLOCATION_SIZE,      \* descriptors of the bump allocator
    MEMORY_MAP_PADDING,
    Sizes, Paddings,     \* what callers ask for; a padding is <<upper, lower>>
    MaxHandles           \* bound: handles in use at the same time

ASSUME VmmAssumption ==
    /\ {IDENTITY_END, KERNEL_START, KERNEL_END, MEMORY_MAP_PADDING} \subseteq Nat
    /\ 1 < IDENTITY_END /\ IDENTITY_END < KERNEL_START /\ KERNEL_START < KERNEL_END
    /\ EARLY_ALLOCATION_SIZE \in Nat /\ EARLY_ALLOCATION_SIZE >= 2
    /\ Sizes \subseteq Nat \ {0} /\ Paddings \subseteq Nat \X Nat

NULL == 0
Page == (1 .. IDENTITY_END - 1) \cup (KERNEL_START .. KERNEL_END - 1)
Pages(start, size) == start .. start + size - 1
Bind(f, k, x) == [j \in DOMAIN f \cup {k} |-> IF j = k THEN x ELSE f[j]]
FreeTypes == {"FREE", "IDENTITY_MAP_FREE"}
OwnFrames == {"HEAP", "STACK", "GENERAL_USE"}

VARIABLES
    vm,       \* the descriptors by their address, vm_list_head, the bump
              \* allocator's index, is_kheap_initialzed() and the kpanic, if any
    pt,       \* what a page is mapped to: "none", a "frame" of the allocator, "phys"
    frames,   \* alloc_frame() calls less dealloc_frame() calls
    held,     \* handle (a descriptor's address) -> the pages its owner may use
    job,      \* what a CPU still has to map, after it released the lock
    locked    \* has an operation returned with vmm->lock taken?

vars == <<vm, pt, frames, held, job, locked>>
NoJob == [h |-> NULL, pages |-> {}, range |-> {}]

------------------------------------------------------------------------------
(* Descriptors.                                                            *)

\* Mutant: the paddings are swapped.
get_no_padding_start_addr_Upper(d) == d.start + d.up

get_no_padding_start_addr(d) == d.start + d.low
get_no_padding_size(d) == d.size - d.up - d.low
Usable(d) == Pages(get_no_padding_start_addr(d), get_no_padding_size(d))

VM(desc, head, bump, heap, panic) ==
    [desc |-> desc, head |-> head, bump |-> bump, heap |-> heap, panic |-> panic]
WithDesc(v, desc) == VM(desc, v.head, v.bump, v.heap, v.panic)

Kpanic(v, error) ==
    VM(v.desc, v.head, v.bump, v.heap, IF v.panic = "none" THEN error ELSE v.panic)

\* kmalloc returns an address that is not in use.  Which one does not matter;
\* naming it after the range that the descriptor is for keeps the states few.
HeapAddress(v, start) ==
    LET named == EARLY_ALLOCATION_SIZE + start IN
    IF named \notin DOMAIN v.desc THEN named
    ELSE Min((EARLY_ALLOCATION_SIZE + KERNEL_END .. EARLY_ALLOCATION_SIZE + 2 * KERNEL_END)
                 \ DOMAIN v.desc)

\* The paddings are zeroed; the caller links the descriptor in.
allocate_vmem_descriptor(v, start, size, type) ==
    LET at == IF v.heap THEN HeapAddress(v, start) ELSE v.bump + 1
        new == [start |-> start, size |-> size, up |-> 0, low |-> 0, type |-> type,
                next |-> NULL, prev |-> NULL, is_from_heap |-> v.heap]
        room == v.heap \/ v.bump < EARLY_ALLOCATION_SIZE
        v1 == VM(Bind(v.desc, at, new), v.head, IF v.heap THEN v.bump ELSE v.bump + 1,
                 v.heap, v.panic)
    IN  [v |-> IF room THEN v1 ELSE Kpanic(v1, "VMM_ERROR"), at |-> at]

update_head(v) ==
    LET first[k \in DOMAIN v.desc] ==
            IF v.desc[k].prev = NULL THEN k ELSE first[v.desc[k].prev]
    IN  VM(v.desc, first[v.head], v.bump, v.heap, v.panic)

SetPrev(desc, k, p) == IF k = NULL THEN desc ELSE [desc EXCEPT ![k].prev = p]
SetNext(desc, k, n) == IF k = NULL THEN desc ELSE [desc EXCEPT ![k].next = n]

\* Splits descriptor i after its first `first' pages and links the rest behind it.
Split(v, i, first) ==
    LET d == v.desc[i]
        a == allocate_vmem_descriptor(v, d.start + first, d.size - first, d.type)
        n == a.at
        desc == [a.v.desc EXCEPT ![i].size = first, ![i].next = n,
                                 ![n].prev = i, ![n].next = d.next]
    IN  [v |-> update_head(WithDesc(a.v, SetPrev(desc, d.next, n))), at |-> n]

cut_descriptor_start(v, i, size) ==
    IF v.desc[i].size < size \/ v.desc[i].type \notin FreeTypes
    THEN [v |-> Kpanic(v, "FAILED_ASSERT"), at |-> i]
    ELSE IF v.desc[i].size = size THEN [v |-> v, at |-> i]
    ELSE [v |-> Split(v, i, size).v, at |-> i]

\* A range inside descriptor i: exactly it, its start, its end, or its middle,
\* which keeps the descriptor's address while a new one takes the part before.
CutMiddle(v, i, start, size) ==
    LET d == v.desc[i]
        a == allocate_vmem_descriptor(v, d.start, start - d.start, d.type)
        p == a.at
        desc == [a.v.desc EXCEPT ![p].prev = d.prev, ![p].next = i, ![i].prev = p,
                                 ![i].start = start, ![i].size = d.start + d.size - start]
    IN  [v |-> Split(WithDesc(a.v, SetNext(desc, d.prev, p)), i, size).v, at |-> i]

cut_descriptor(v, i, start, size) ==
    LET d == v.desc[i] IN
    IF d.start = start THEN cut_descriptor_start(v, i, size)
    ELSE IF d.start + d.size = start + size THEN Split(v, i, start - d.start)
    ELSE CutMiddle(v, i, start, size)

\* The walks of the list: to a descriptor of `stop', or to the last one.
WalkTo(v, stop) ==
    LET walk[k \in DOMAIN v.desc] ==
            IF k \in stop \/ v.desc[k].next = NULL THEN k ELSE walk[v.desc[k].next]
    IN  walk[v.head]

\* Mutant: the first free range is taken, whatever its size.
FirstFit_AnyFree(v, size) == WalkTo(v, {k \in DOMAIN v.desc : v.desc[k].type = "FREE"})

FirstFit(v, size) ==
    WalkTo(v, {k \in DOMAIN v.desc : v.desc[k].size >= size /\ v.desc[k].type = "FREE"})

FindContaining(v, addr) ==
    WalkTo(v, {k \in DOMAIN v.desc : v.desc[k].start + v.desc[k].size > addr})
Contains(d, start, size) == d.start <= start /\ start + size <= d.start + d.size

\* Takes no lock; NULL is the invalid handle.
get_vmem_from_address(v, addr) ==
    LET i == WalkTo(v, {k \in DOMAIN v.desc : addr \in Pages(v.desc[k].start, v.desc[k].size)})
        d == v.desc[i]
    IN  IF addr >= d.start + d.size \/ addr < d.start THEN NULL ELSE i

------------------------------------------------------------------------------
(* Initialisation and the operations that take a range.                    *)

\* initialize_kernel_VMM: page 0 is the null page, and between the two ranges
\* lies the users' memory, which belongs to no descriptor.
Init ==
    LET d(start, end, type, next, prev) ==
            [start |-> start, size |-> end - start, up |-> 0, low |-> 0, type |-> type,
             next |-> next, prev |-> prev, is_from_heap |-> FALSE]
    IN  /\ vm = VM([k \in {1, 2} |->
                       IF k = 1 THEN d(1, IDENTITY_END, "IDENTITY_MAP_FREE", 2, NULL)
                       ELSE d(KERNEL_START, KERNEL_END, "FREE", NULL, 1)],
                    1, 2, FALSE, "none")
        /\ pt = [p \in Page |-> "none"]
        /\ frames = 0 /\ held = <<>> /\ job = [c \in CPU |-> NoJob]
        /\ locked = FALSE

\* A CPU that can call the VMM and take its lock.
Ready(c) == job[c] = NoJob /\ ~locked /\ vm.panic = "none"
\* The bound on handles; and before the heap is up callers take only what the
\* bump allocator has descriptors for (a cut needs two).
CanAllocate ==
    /\ Cardinality((DOMAIN held \cup {job[c].h : c \in CPU}) \ {NULL}) < MaxHandles
    /\ vm.heap \/ vm.bump + 2 <= EARLY_ALLOCATION_SIZE

\* kheap_init has finished.
HeapInitialized ==
    /\ ~vm.heap /\ vm.panic = "none"
    /\ vm' = VM(vm.desc, vm.head, vm.bump, TRUE, vm.panic)
    /\ UNCHANGED <<pt, frames, held, job, locked>>

\* The range given to shootdown(): where the mapping loop has advanced vaddr
\* itself, it is the one behind the range.
ShotDown(start, size, advance) == Pages(IF advance THEN start + size ELSE start, size)

\* The locked part: the descriptor gets its type and paddings, and the CPU
\* goes on to map its pages, as `kind', and to shoot down `range'.
Take(c, cut, type, up, low, kind, advance) ==
    LET v == WithDesc(cut.v, [cut.v.desc EXCEPT ![cut.at].type = type, ![cut.at].up = up,
                                                ![cut.at].low = low])
        d == v.desc[cut.at]
        start == get_no_padding_start_addr(d)
        size == get_no_padding_size(d)
    IN  /\ vm' = IF v.panic = "none" THEN v ELSE Kpanic(vm, v.panic)
        /\ job' = IF v.panic # "none" THEN job
                  ELSE [job EXCEPT ![c] = [h |-> cut.at, pages |-> Pages(start, size),
                            kind |-> kind, type |-> type, range |-> ShotDown(start, size, advance)]]
        /\ UNCHANGED <<pt, frames, held, locked>>

\* The range is only reserved: its pages are loaded by load_identity_map_pages
\* or by the page fault handler.
identity_map(c, paddr, size) ==
    LET i == FindContaining(vm, paddr)
        d == vm.desc[i]
        cut == cut_descriptor(vm, i, paddr, size)
    IN  /\ Ready(c) /\ CanAllocate
        /\ Contains(d, paddr, size) /\ d.type = "IDENTITY_MAP_FREE"
        /\ vm' = IF cut.v.panic # "none" THEN Kpanic(vm, cut.v.panic)
                 ELSE WithDesc(cut.v, [cut.v.desc EXCEPT ![cut.at].type = "IDENTITY_MAP"])
        /\ held' = IF cut.v.panic # "none" THEN held
                   ELSE Bind(held, cut.at, [type |-> "IDENTITY_MAP", pages |-> Pages(paddr, size)])
        /\ UNCHANGED <<pt, frames, job, locked>>

load_identity_map_pages(c, h, paddr, size) ==
    /\ Ready(c) /\ h \in DOMAIN held /\ held[h].type = "IDENTITY_MAP"
    /\ Pages(paddr, size) \subseteq held[h].pages
    /\ pt' = [p \in Page |-> IF p \in Pages(paddr, size) THEN "phys" ELSE pt[p]]
    /\ UNCHANGED <<vm, frames, held, job, locked>>

\* copy_memory_mapping_from_paging_structure: the kernel's ELF segments.
copy_memory_mapping(c, vaddr, size) ==
    LET i == FindContaining(vm, vaddr) IN
    /\ Ready(c) /\ CanAllocate
    /\ Contains(vm.desc[i], vaddr, size) /\ vm.desc[i].type = "FREE"
    /\ Take(c, cut_descriptor(vm, i, vaddr, size), "MEMORY_MAPPING", 0, 0, "phys", FALSE)

\* No descriptor is large enough: the walk ended at the last one, which is
\* either in use (VMM_ERROR) or too small (cut_descriptor_start's KASSERT).
AllocateRange(c, size, type, up, low, kind, advance) ==
    LET i == FirstFit(vm, size + up + low) IN
    /\ Ready(c) /\ CanAllocate
    /\ Take(c, IF vm.desc[i].type # "FREE"
               THEN [v |-> Kpanic(vm, "VMM_ERROR"), at |-> i]
               ELSE cut_descriptor_start(vm, i, size + up + low),
            type, up, low, kind, advance)

memory_map(c, size) ==
    AllocateRange(c, size, "MEMORY_MAPPING", MEMORY_MAP_PADDING, MEMORY_MAP_PADDING, "phys", FALSE)

allocate_kernel_virtual_memory(c, size, type, up, low) ==
    AllocateRange(c, size, type, up, low, "frame", TRUE)

\* The loop of paging_map calls and the shootdown, outside the lock; the caller
\* has its handle, or its larger range, when it is done.
MapPages(c) ==
    LET j == job[c]
        before == IF j.h \in DOMAIN held THEN held[j.h].pages ELSE {}
    IN  /\ j # NoJob /\ vm.panic = "none"
        /\ pt' = [p \in Page |-> IF p \in j.pages THEN j.kind ELSE pt[p]]
        /\ frames' = frames + (IF j.kind = "frame" THEN Cardinality(j.pages) ELSE 0)
        /\ held' = Bind(held, j.h, [type |-> j.type, pages |-> before \cup j.pages])
        /\ job' = [job EXCEPT ![c] = NoJob]
        /\ UNCHANGED <<vm, locked>>

------------------------------------------------------------------------------
(* Expansion into a padding, and deallocation.                             *)

Owned(h) == h \in DOMAIN held /\ \A c \in CPU : job[c].h # h
Expandable(d, size, padding) == d.type \in OwnFrames /\ size <= padding

\* A refused expansion returns without releasing vmm->lock.
Expand(c, h, size, padding, start, v) ==
    /\ Ready(c) /\ Owned(h)
    /\ IF Expandable(vm.desc[h], size, padding)
       THEN /\ vm' = v
            /\ job' = [job EXCEPT ![c] = [h |-> h, pages |-> Pages(start, size),
                          kind |-> "frame", type |-> vm.desc[h].type,
                          range |-> ShotDown(start, size, TRUE)]]
            /\ UNCHANGED locked
       ELSE locked' = TRUE /\ UNCHANGED <<vm, job>>
    /\ UNCHANGED <<pt, frames, held>>

try_expand_vmem_top(c, h, size) ==
    LET d == vm.desc[h] IN
    Expand(c, h, size, d.up, get_no_padding_start_addr(d) + get_no_padding_size(d),
           WithDesc(vm, [vm.desc EXCEPT ![h].up = @ - size]))

try_expand_vmem_bottom(c, h, size) ==
    LET d == vm.desc[h] IN
    Expand(c, h, size, d.low, get_no_padding_start_addr(d) - size,
           WithDesc(vm, [vm.desc EXCEPT ![h].low = @ - size]))

free_type(d) == IF d.start < IDENTITY_END THEN "IDENTITY_MAP_FREE" ELSE "FREE"

\* Mutant: the mapped frames of every descriptor are given back.
FramesToFree_All(d) == {p \in Usable(d) : pt[p] # "none"}

\* Frames of memory mappings and identity mapped pages are not the VMM's.
FramesToFree(d) == {p \in Usable(d) : d.type \in OwnFrames /\ pt[p] # "none"}

\* Mutant: a free predecessor is not looked at.
MergeInto_Self(v, h, free) == h

\* The descriptor that takes over the free ranges behind it.
MergeInto(v, h, free) ==
    LET p == v.desc[h].prev IN
    IF p # NULL /\ v.desc[IF p = NULL THEN h ELSE p].type = free THEN p ELSE h

\* The free descriptors from k on, their total size, and the first that is not free.
FreeRun(v, k, free) ==
    LET run[j \in DOMAIN v.desc \cup {NULL}] ==
            IF j = NULL THEN [gone |-> {}, size |-> 0, last |-> NULL]
            ELSE IF v.desc[j].type # free THEN [gone |-> {}, size |-> 0, last |-> j]
            ELSE [gone |-> run[v.desc[j].next].gone \cup {j},
                  size |-> run[v.desc[j].next].size + v.desc[j].size,
                  last |-> run[v.desc[j].next].last]
    IN  run[k]

\* Reads desc->next->type: a descriptor at the end of the list has no next.
Merge(v, i, free) ==
    LET k == v.desc[i].next
        run == FreeRun(v, k, free)
        desc == [v.desc EXCEPT ![i].size = @ + run.size, ![i].next = run.last]
    IN  IF k = NULL THEN Kpanic(v, "NULL_DEREFERENCE")
        ELSE WithDesc(v, Restrict(SetPrev(desc, run.last, i), DOMAIN desc \ run.gone))

deallocate_kernel_virtual_memory(c, h) ==
    LET d == vm.desc[h]
        free == free_type(d)
        freed == WithDesc(vm, [vm.desc EXCEPT ![h].type = free, ![h].low = 0, ![h].up = 0])
    IN  /\ Ready(c) /\ Owned(h)
        /\ pt' = [p \in Page |-> IF p \in Usable(d) THEN "none" ELSE pt[p]]
        /\ frames' = frames - Cardinality(FramesToFree(d))
        /\ vm' = Merge(freed, MergeInto(freed, h, free), free)
        /\ held' = Restrict(held, DOMAIN held \ {h})
        /\ UNCHANGED <<job, locked>>

CONSTANTS Segment,        \* the kernel's ELF segments, as <<start, size>>
          IdentityRange   \* what is identity mapped

ASSUME RangeAssumption == Segment \cup IdentityRange \subseteq Nat \X (Nat \ {0})

Step(c) ==
    \/ \E r \in IdentityRange : identity_map(c, r[1], r[2])
    \/ \E h \in DOMAIN held, r \in IdentityRange : load_identity_map_pages(c, h, r[1], r[2])
    \/ \E r \in Segment : copy_memory_mapping(c, r[1], r[2])
    \/ \E size \in Sizes : memory_map(c, size)
    \/ \E size \in Sizes, p \in Paddings :
           allocate_kernel_virtual_memory(c, size, "STACK", p[1], p[2])
    \/ MapPages(c)
    \/ \E h \in DOMAIN held, size \in Sizes :
           try_expand_vmem_top(c, h, size) \/ try_expand_vmem_bottom(c, h, size)
    \/ \E h \in DOMAIN held : deallocate_kernel_virtual_memory(c, h)

Next == HeapInitialized \/ \E c \in CPU : Step(c)
Spec == Init /\ [][Next]_vars

------------------------------------------------------------------------------
(* Properties.                                                             *)

Descriptor == [start : Nat, size : Nat \ {0}, up : Nat, low : Nat,
               type : FreeTypes \cup OwnFrames \cup {"IDENTITY_MAP", "MEMORY_MAPPING"},
               next : Nat, prev : Nat, is_from_heap : BOOLEAN]

\* The types of the variables; no size, padding or count of frames wraps.
TypeOK ==
    /\ \A k \in DOMAIN vm.desc : vm.desc[k] \in Descriptor
    /\ vm.head \in DOMAIN vm.desc
    /\ DOMAIN pt = Page /\ frames \in Nat /\ locked \in BOOLEAN

\* Whatever is cut and merged, the list starts at the null page's successor,
\* ends at the last page, and each descriptor is followed by the one that starts
\* where it ends (or at the kernel's range), which points back to it.
ListTilesMemory ==
    /\ vm.desc[vm.head].prev = NULL /\ vm.desc[vm.head].start = 1
    /\ \A k \in DOMAIN vm.desc :
        LET d == vm.desc[k]
            end == d.start + d.size
        IN  IF d.next = NULL THEN end = KERNEL_END
            ELSE /\ d.next \in DOMAIN vm.desc /\ vm.desc[d.next].prev = k
                 /\ vm.desc[d.next].start = IF end = IDENTITY_END THEN KERNEL_START ELSE end

\* vmm.c:132, "there cannot be two contiguos consecutive descriptors": of the
\* same free type, so that the search of a range may look at one descriptor.
NoTwoFreeNeighbours ==
    \A k \in DOMAIN vm.desc :
        vm.desc[k].next # NULL /\ vm.desc[k].type \in FreeTypes
            => vm.desc[vm.desc[k].next].type # vm.desc[k].type

\* A handle keeps naming the descriptor of the pages its owner was given, through
\* all the cuts, merges and frees of other descriptors by other CPUs.
HandlesStayValid ==
    \A h \in DOMAIN held :
        /\ h \in DOMAIN vm.desc /\ vm.desc[h].type = held[h].type
        /\ Owned(h) => Usable(vm.desc[h]) = held[h].pages

\* The page tables follow the handles: an owner's pages are mapped, paddings and
\* free memory are not, and every frame taken is under a page or given back.
MappedExactly ==
    LET owned(types) == UNION {held[h].pages : h \in {g \in DOMAIN held : held[g].type \in types}}
    IN  /\ {p \in Page : pt[p] = "frame"} = owned(OwnFrames)
        /\ owned({"MEMORY_MAPPING"}) \subseteq {p \in Page : pt[p] = "phys"}
        /\ {p \in Page : pt[p] = "phys"} \subseteq owned({"MEMORY_MAPPING", "IDENTITY_MAP"})
        /\ frames = Cardinality(owned(OwnFrames))

\* get_vmem_from_address finds the descriptor of every address, paddings
\* included, and none for the null page, the users' memory and the last page.
LookupExact ==
    \A a \in 0 .. KERNEL_END :
        LET in == {k \in DOMAIN vm.desc : a \in Pages(vm.desc[k].start, vm.desc[k].size)}
        IN  in = IF get_vmem_from_address(vm, a) = NULL THEN {} ELSE {get_vmem_from_address(vm, a)}

\* The list of descriptors is well formed after every operation of any CPU, and
\* every lookup in it finds the one that is meant.
ListSound == TypeOK /\ ListTilesMemory /\ NoTwoFreeNeighbours /\ LookupExact

\* What callers may ask of allocate_kernel_virtual_memory and memory_map, and
\* whether a free range is there for it and the list ends with a free range.
Request == {size + 2 * MEMORY_MAP_PADDING : size \in Sizes}
             \cup {size + p[1] + p[2] : size \in Sizes, p \in Paddings}
Room ==
    /\ \A n \in Request : \E k \in DOMAIN vm.desc : vm.desc[k].type = "FREE" /\ vm.desc[k].size >= n
    /\ \E k \in DOMAIN vm.desc : vm.desc[k].type = "FREE" /\ vm.desc[k].next = NULL

\* The VMM panics only for want of room: while it has some no KASSERT fails, a
\* search finds its range, and a deallocation finds desc->next to look at.
PanicsOnlyWhenFull == [][Room => vm'.panic = vm.panic]_vars

\* _try_expand_vmem_top's comments give ACQUIRE_ and RELEASE_SPINLOCK_HARD as the
\* equivalent of its lock handling: a call that returns has released the lock.
LockReleased == ~locked

\* "shootdown of the virtual addresses translation caches of the range": the
\* range that is shot down holds the pages whose mapping changes.
ShootdownCoversChange == \A c \in CPU : job[c].pages \subseteq job[c].range
=============================================================================

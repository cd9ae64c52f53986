--------------------------- MODULE FrameAllocator ---------------------------
(***************************************************************************)
(* The physical frame allocator, kernel/mem/frame_allocator.c.             *)
(*                                                                         *)
(* Addresses and sizes are counted in pages: the ranges that               *)
(* free_mem_bootloader() returns are page aligned, so start_address and    *)
(* size are exact multiples of PAGE_SIZE.  The frame stack holds one       *)
(* 8-byte entry per freed frame, EntriesPerPage of them to a page.  Every  *)
(* operation runs from the acquisition to the release of                   *)
(* frame_allocator.lock (a hard spinlock, module Spinlock), so each is one *)
(* action; kpanic stops the machine and leaves phase at the panic's site.  *)
(***************************************************************************)
EXTENDS Integers, Sequences, FiniteSets

CONSTANTS MemoryMaps,      \* the memory maps the bootloader may report
          BootLimit,       \* first page beyond the bootstage identity map
          LastFrame,       \* the last page of the machine's RAM
          EntriesPerPage,  \* PAGE_SIZE / sizeof(uint64_t)
          UINT64_MAX

\* Page 0 is never free: free_mem_bootloader() drops the first megabyte.
Frame == 1..LastFrame

\* get_bootstage_indentity_mapped_RAM() starts at address 0.
BootStart == 0

RangeFrames(r) == r.start .. (r.start + r.size - 1)

FramesOf(ranges) == UNION {RangeFrames(ranges[i]) : i \in 1..Len(ranges)}

PhysicalMemoryRange == [start : Nat \ {0}, size : Nat]

Disjoint(ranges) ==
    \A i, j \in 1..Len(ranges) :
        i # j => RangeFrames(ranges[i]) \cap RangeFrames(ranges[j]) = {}

\* A memory map lists disjoint free ranges above the first page, all of them
\* inside the usable RAM whose size get_total_usable_RAM_size() reports.
ASSUME MapAssumption ==
    \A m \in MemoryMaps :
        /\ m.free_ranges \in Seq(PhysicalMemoryRange)
        /\ m.usable_ram \in Nat
        /\ m.usable_ram < UINT64_MAX
        /\ Disjoint(m.free_ranges)
        /\ FramesOf(m.free_ranges) \subseteq Frame
        /\ Cardinality(FramesOf(m.free_ranges)) <= m.usable_ram

ASSUME ConstAssumption ==
    /\ BootLimit \in Nat
    /\ LastFrame \in Nat
    /\ EntriesPerPage \in Nat \ {0}
    /\ UINT64_MAX \in Nat

VARIABLES
    phase,            \* "find", "count", "ready" or the site of a kpanic
    usable_ram,       \* get_total_usable_RAM_size(), in pages
    free_ranges,      \* frame_allocator.free_memory.free_ranges
    cached,           \* cached_memory_range_index (0: none chosen yet)
    stack_base,       \* frame_stack.base, as a page (0: no stack)
    stack_max,        \* frame_stack.max_size_bytes, in entries
    stack,            \* the entries between frame_stack.base and .top
    counted,          \* ranges already summed by the loop of init
    free_frames,      \* frame_allocator.free_frames
    hal_initialized,  \* is_hal_arch_initialized()
    allocated         \* the frames the callers hold

vars == <<phase, usable_ram, free_ranges, cached, stack_base, stack_max,
          stack, counted, free_frames, hal_initialized, allocated>>

------------------------------------------------------------------------------
\* Mutant: the counter is not incremented.
Inc_Forgotten(n) == n

\* uint64_t arithmetic on the free frame counter.
Inc(n) == IF n = UINT64_MAX THEN 0 ELSE n + 1
Dec(n) == IF n = 0 THEN UINT64_MAX ELSE n - 1

\* The stack's size: an entry per page of RAM, an extra page, and then up to
\* the next page boundary (a whole page more when already on one).
NeededEntries(usable) ==
    LET n == usable + EntriesPerPage
    IN  n - (n % EntriesPerPage) + EntriesPerPage

NeededPages(usable) == NeededEntries(usable) \div EntriesPerPage

\* Is page p, with the pages up to p + n, inside the bootstage identity map?
UsableInBootstage(p, n) == p + n < BootLimit /\ p >= BootStart

IsFirst(i, S) == i \in S /\ \A j \in S : i <= j

StackCandidates ==
    {i \in 1..Len(free_ranges) :
        /\ free_ranges[i].size >= NeededPages(usable_ram)
        /\ UsableInBootstage(free_ranges[i].start, NeededPages(usable_ram))}

Init ==
    /\ \E m \in MemoryMaps : /\ free_ranges = m.free_ranges
                             /\ usable_ram = m.usable_ram
    /\ phase = "find"
    /\ cached = 0
    /\ stack_base = 0
    /\ stack_max = 0
    /\ stack = <<>>
    /\ counted = 0
    /\ free_frames = 0
    /\ hal_initialized = FALSE
    /\ allocated = {}

\* Mutant: the size shrinks, the start address stays.
Advance_SizeOnly(ranges, i, n) ==
    [ranges EXCEPT ![i] = [start |-> ranges[i].start,
                           size  |-> ranges[i].size - n]]

Advance(ranges, i, n) ==
    [ranges EXCEPT ![i] = [start |-> ranges[i].start + n,
                           size  |-> ranges[i].size - n]]

\* Mutant: max_size_bytes is set to a number of pages.
FindStackRange_Units ==
    /\ phase = "find"
    /\ phase' = "count"
    /\ \E i \in 1..Len(free_ranges) :
            /\ IsFirst(i, StackCandidates)
            /\ cached' = i
            /\ stack_base' = free_ranges[i].start
            /\ stack_max' = NeededPages(usable_ram)
            /\ free_ranges' = Advance(free_ranges, i, NeededPages(usable_ram))
    /\ UNCHANGED <<usable_ram, stack, counted, free_frames, hal_initialized,
                   allocated>>

\* init_frame_allocator, the search for room for the frame stack.
FindStackRange ==
    /\ phase = "find"
    /\ phase' = "count"
    /\ \/ \E i \in 1..Len(free_ranges) :
            /\ IsFirst(i, StackCandidates)
            /\ cached' = i
            /\ stack_base' = free_ranges[i].start
            /\ stack_max' = NeededEntries(usable_ram)
            /\ free_ranges' = Advance(free_ranges, i, NeededPages(usable_ram))
       \/ /\ StackCandidates = {}
          /\ UNCHANGED <<cached, stack_base, stack_max, free_ranges>>
    /\ UNCHANGED <<usable_ram, stack, counted, free_frames, hal_initialized,
                   allocated>>

\* init_frame_allocator, one turn of the loop that sums the free frames.
CountRange ==
    /\ phase = "count"
    /\ counted < Len(free_ranges)
    /\ counted' = counted + 1
    /\ free_frames' = free_frames + free_ranges[counted + 1].size
    /\ UNCHANGED <<phase, usable_ram, free_ranges, cached, stack_base,
                   stack_max, stack, hal_initialized, allocated>>

\* init_frame_allocator returns, or panics for want of a frame stack.
FinishInit ==
    /\ phase = "count"
    /\ counted = Len(free_ranges)
    /\ phase' = IF cached = 0 THEN "panic_init" ELSE "ready"
    /\ UNCHANGED <<usable_ram, free_ranges, cached, stack_base, stack_max,
                   stack, counted, free_frames, hal_initialized, allocated>>

\* set_up_arch_layer: from here on all of the RAM is reachable.
HalInitialized ==
    /\ phase = "ready"
    /\ ~hal_initialized
    /\ hal_initialized' = TRUE
    /\ UNCHANGED <<phase, usable_ram, free_ranges, cached, stack_base,
                   stack_max, stack, counted, free_frames, allocated>>

------------------------------------------------------------------------------
\* The ranges alloc_frame may cut a frame from: in the bootstage the frame
\* must be identity mapped as well.
Usable ==
    {i \in 1..Len(free_ranges) :
        /\ free_ranges[i].size >= 1
        /\ hal_initialized \/ UsableInBootstage(free_ranges[i].start, 1)}

\* The frame on top of the stack is reused first.
PopFrame ==
    /\ stack # <<>>
    /\ stack' = SubSeq(stack, 1, Len(stack) - 1)
    /\ allocated' = allocated \cup {stack[Len(stack)]}
    /\ UNCHANGED <<phase, free_ranges, cached>>

CutFrame(i) ==
    /\ allocated' = allocated \cup {free_ranges[i].start}
    /\ free_ranges' = Advance(free_ranges, i, 1)
    /\ cached' = i
    /\ UNCHANGED <<phase, stack>>

\* Without a freed frame: the cached range, else the first range that will do.
CutFromRange ==
    /\ stack = <<>>
    /\ \/ cached \in Usable /\ CutFrame(cached)
       \/ /\ cached \notin Usable
          /\ \E i \in 1..Len(free_ranges) : IsFirst(i, Usable) /\ CutFrame(i)

OutOfFrames ==
    /\ stack = <<>>
    /\ Usable = {}
    /\ phase' = "panic_alloc"
    /\ UNCHANGED <<free_ranges, cached, stack, allocated>>

alloc_frame ==
    /\ phase = "ready"
    /\ free_frames' = Dec(free_frames)
    /\ PopFrame \/ CutFromRange \/ OutOfFrames
    /\ UNCHANGED <<usable_ram, stack_base, stack_max, counted,
                   hal_initialized>>

\* Mutant: the frame never reaches the stack.
frame_stack_push_Lost(f) == stack' = stack /\ phase' = phase

\* frame_stack_push panics when the entry does not fit.
frame_stack_push(f) ==
    /\ stack' = IF Len(stack) + 1 > stack_max THEN stack ELSE Append(stack, f)
    /\ phase' = IF Len(stack) + 1 > stack_max THEN "panic_push" ELSE phase

\* A caller returns a frame it holds.
dealloc_frame(f) ==
    /\ phase = "ready"
    /\ f \in allocated
    /\ free_frames' = Inc(free_frames)
    /\ frame_stack_push(f)
    /\ allocated' = allocated \ {f}
    /\ UNCHANGED <<usable_ram, free_ranges, cached, stack_base, stack_max,
                   counted, hal_initialized>>

Next ==
    \/ FindStackRange \/ CountRange \/ FinishInit
    \/ HalInitialized
    \/ alloc_frame
    \/ \E f \in allocated : dealloc_frame(f)

Spec == Init /\ [][Next]_vars

------------------------------------------------------------------------------
StackFrames == {stack[i] : i \in 1..Len(stack)}

\* The frames that alloc_frame can still hand out.
FreeFrames == FramesOf(free_ranges) \cup StackFrames

\* The pages the frame stack itself lives in.
StackArea ==
    IF cached = 0 THEN {}
    ELSE stack_base .. (stack_base + NeededPages(usable_ram) - 1)

get_number_of_free_frames == free_frames

\* The allocator's state has the types its declarations say.
TypeOK ==
    /\ phase \in {"find", "count", "ready",
                  "panic_init", "panic_alloc", "panic_push"}
    /\ usable_ram \in Nat
    /\ free_ranges \in Seq(PhysicalMemoryRange)
    /\ cached \in 0..Len(free_ranges)
    /\ stack_base \in Nat
    /\ stack_max \in Nat
    /\ stack \in Seq(Frame)
    /\ counted \in 0..Len(free_ranges)
    /\ free_frames \in 0..UINT64_MAX
    /\ hal_initialized \in BOOLEAN
    /\ allocated \subseteq Frame

\* No frame is in two places: held by a caller, waiting on the frame stack
\* (once at most) or still part of one free range.  This is what keeps
\* alloc_frame from handing the same frame to two callers.
NoFrameTwice ==
    /\ Disjoint(free_ranges)
    /\ \A i, j \in 1..Len(stack) : stack[i] = stack[j] => i = j
    /\ StackFrames \cap FramesOf(free_ranges) = {}
    /\ allocated \cap FreeFrames = {}

\* get_number_of_free_frames() is the number of frames alloc_frame can still
\* hand out, whatever mix of allocations, frees and range changes came before.
Accounting ==
    phase = "ready" => get_number_of_free_frames = Cardinality(FreeFrames)

\* Returning a frame never fails: the stack sized in init_frame_allocator has
\* an entry for every frame that can ever be freed.
DeallocNeverPanics == phase # "panic_push"

\* The memory of the frame stack is never handed out.
StackMemoryReserved == StackArea \cap (FreeFrames \cup allocated) = {}

\* Until the HAL is up every frame in use, and the frame stack, lie in the
\* identity mapped memory ("all the data must be inside the bootstage identity
\* mapped memory").
BootstageReachable ==
    ~hal_initialized =>
        \A f \in allocated \cup StackArea : f >= BootStart /\ f < BootLimit

\* alloc_frame panics only when there is really nothing left to give: no free
\* frame at all, or in the bootstage none inside the identity map.
PanicOnlyWhenExhausted ==
    phase = "panic_alloc" =>
        \A f \in FreeFrames : ~hal_initialized /\ ~UsableInBootstage(f, 1)

------------------------------------------------------------------------------
(* The strengthening that makes the properties above inductive.            *)

Booting == phase \in {"find", "count"}

\* The frames the loop of init has summed so far.
CountedFrames == UNION {RangeFrames(free_ranges[i]) : i \in 1..counted}

BootProgress ==
    /\ phase = "find" => counted = 0 /\ cached = 0
    /\ Booting => /\ stack = <<>>
                  /\ allocated = {}
                  /\ ~hal_initialized
                  /\ free_frames = Cardinality(CountedFrames)

\* All the frames there are fit in the RAM the stack was sized for.
FramesBounded ==
    /\ usable_ram < UINT64_MAX
    /\ FreeFrames \cup allocated \subseteq Frame
    /\ Cardinality(FreeFrames \cup allocated) <= usable_ram

StackSized ==
    /\ Len(stack) = Cardinality(StackFrames)
    /\ phase = "ready" => cached # 0
    /\ cached # 0 => /\ stack_max = NeededEntries(usable_ram)
                     /\ UsableInBootstage(stack_base, NeededPages(usable_ram))

\* Before the HAL is up a freed frame is one that alloc_frame gave out, so it
\* is reachable too when it comes back from the stack.
BootFrames ==
    ~hal_initialized =>
        \A f \in allocated \cup StackFrames : UsableInBootstage(f, 1)

\* The inductive invariant of the allocator: together these say where every
\* frame is at every moment of init_frame_allocator, alloc_frame and
\* dealloc_frame.
IndInv ==
    /\ TypeOK
    /\ NoFrameTwice
    /\ Accounting
    /\ DeallocNeverPanics
    /\ StackMemoryReserved
    /\ PanicOnlyWhenExhausted
    /\ BootProgress
    /\ FramesBounded
    /\ StackSized
    /\ BootFrames

------------------------------------------------------------------------------
\* The refinement mapping: during init no frame is on offer yet.
Pool == INSTANCE FramePool WITH
    Frame      <- Frame,
    BootUsable <- {f \in Frame : UsableInBootstage(f, 1)},
    pool       <- IF Booting THEN {} ELSE FreeFrames,
    held       <- allocated,
    halBooted  <- hal_initialized,
    status     <- IF Booting THEN "down"
                  ELSE IF phase = "ready" THEN "up" ELSE "halted"

\* The allocator implements the frame pool its callers rely on: each step of
\* alloc_frame and dealloc_frame moves one frame between the free frames and
\* the callers, and none is lost, invented or given to a second caller.
ImplementsPool == Pool!PoolSpec
==============================================================================

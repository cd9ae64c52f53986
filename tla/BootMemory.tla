------------------------------ MODULE BootMemory ----------------------------
(***************************************************************************)
(* The memory map that the kernel starts from (HAL/bios/bootloader_data.c):*)
(* the firmware's list of memory ranges, what the boot loader has taken    *)
(* from it (boot/kernel_load.asm, boot/frame_allocator.asm), and the free  *)
(* ranges, the RAM ranges and the typed map that the kernel computes.      *)
(*                                                                         *)
(* Addresses are scaled down: a page has PAGE_SIZE bytes, and MB stands    *)
(* for the first megabyte.  Sizes are unsigned words, modulo WORD.         *)
(***************************************************************************)
EXTENDS Integers, Sequences, FiniteSets, SequencesExt, FiniteSetsExt

CONSTANTS
    PAGE_SIZE, MB, WORD,    \* MB is a multiple of PAGE_SIZE
    Lists,              \* the lists of items the firmware may report: no two items
                        \* overlap, and all lie below WORD
    KernelSize,         \* size of the kernel image
    EXTRA_SPACE,        \* what the loader wants behind the image (15 MB): more
                        \* than the frames it takes
    MaxLoaderFrames     \* frames the boot loader takes for itself, at most

MEMORY_MAP_FREE == 1

VARIABLES
    items,          \* the firmware's list
    loader,         \* the boot loader's item (an index) and first free frame
    free,           \* free_range_buffer
    ram,            \* ram_range_buffer
    map,            \* memory_map_buff
    pc
vars == <<items, loader, free, ram, map, pc>>

Free(item) == item.type = MEMORY_MAP_FREE /\ item.size # 0
End(r) == r.start_address + r.size

\* Unsigned words wrap around.
Sub(a, b) == (a - b) % WORD

RoundUp(a) == ((a + PAGE_SIZE - 1) \div PAGE_SIZE) * PAGE_SIZE

------------------------------------------------------------------------------
(* The firmware and the boot loader.                                       *)

\* find_allocatable_memory: the first usable item behind the first megabyte
\* that has room for the kernel and the loader's frames.
Allocatable(item) ==
    /\ item.type = MEMORY_MAP_FREE /\ item.acpi % 4 = 1
    /\ item.base_addr >= MB /\ item.size > KernelSize + EXTRA_SPACE
find_allocatable_memory(list) == {i \in DOMAIN list : Allocatable(list[i]) /\
                                     \A j \in 1 .. i - 1 : ~Allocatable(list[j])}

\* The frame after the kernel image, and after the frames that pmode_alloc_frame
\* and lmode_alloc_frame have handed out.
FirstFrames(item) ==
    {RoundUp(item.base_addr + KernelSize + 1) + k * PAGE_SIZE : k \in 0 .. MaxLoaderFrames}

Init ==
    /\ items \in Lists
    /\ \E i \in find_allocatable_memory(items) : \E f \in FirstFrames(items[i]) :
           loader = [item |-> i, first_frame |-> f]
    /\ free = <<>> /\ ram = <<>> /\ map = <<>> /\ pc = "fill"

------------------------------------------------------------------------------
(* free_mem_bootloader, get_ram_space and get_memory_map.                  *)

\* One pass of the bubble sort over the first n elements.
BubblePass(s, n) ==
    FoldLeft(LAMBDA t, j : IF t[j].start_address > t[j + 1].start_address
                           THEN [t EXCEPT ![j] = t[j + 1], ![j + 1] = t[j]] ELSE t,
             s, [j \in 1 .. n - 1 |-> j])

BubbleSort(s) == FoldLeft(LAMBDA t, i : BubblePass(t, Len(s) - i), s, [i \in 1 .. Len(s) |-> i - 1])

FreeItems ==
    LET chosen == SelectSeq(items, Free) IN
    [i \in DOMAIN chosen |-> [start_address |-> chosen[i].base_addr, size |-> chosen[i].size]]

FillAndSort ==
    /\ pc = "fill" /\ pc' = "loader"
    /\ free' = BubbleSort(FreeItems) /\ ram' = BubbleSort(FreeItems)
    /\ UNCHANGED <<items, loader, map>>

CutTo(r, start) == [start_address |-> start, size |-> Sub(r.size, start - r.start_address)]

\* The kernel image and the loader's frames are at the start of its item.
RemoveLoader ==
    /\ pc = "loader" /\ pc' = "first_mb"
    /\ free' = [i \in DOMAIN free |->
                   IF free[i].start_address = items[loader.item].base_addr
                   THEN CutTo(free[i], loader.first_frame) ELSE free[i]]
    /\ UNCHANGED <<items, loader, ram, map>>

\* Mutant: a range that crosses the first megabyte is kept whole.
BelowMB_WholeOnly(r) ==
    IF r.start_address < MB /\ End(r) <= MB THEN [r EXCEPT !.size = 0] ELSE r

BelowMB(r) ==
    IF r.start_address >= MB THEN r
    ELSE IF End(r) > MB THEN CutTo(r, MB) ELSE [r EXCEPT !.size = 0]

RemoveFirstMB ==
    /\ pc = "first_mb" /\ pc' = "align"
    /\ free' = [i \in DOMAIN free |-> BelowMB(free[i])]
    /\ UNCHANGED <<items, loader, ram, map>>

\* Up to the next page; the rest of the size is rounded down.
AlignRange(r) ==
    IF r.size = 0 THEN r
    ELSE LET up == CutTo(r, RoundUp(r.start_address)) IN
         [up EXCEPT !.size = up.size - (up.size % PAGE_SIZE)]

Align ==
    /\ pc = "align" /\ pc' = "map"
    /\ free' = [i \in DOMAIN free |-> AlignRange(free[i])]
    /\ ram' = [i \in DOMAIN ram |-> AlignRange(ram[i])]
    /\ UNCHANGED <<items, loader, map>>

MapType(item) ==
    IF (item.acpi \div 2) % 2 = 1 THEN "non_volatile"
    ELSE IF item.acpi % 2 = 0 THEN "reserved"
    ELSE CASE item.type = 1 -> "usable" [] item.type = 3 -> "acpi_table"
           [] item.type = 4 -> "acpi_nvs" [] item.type = 5 -> "bad" [] OTHER -> "reserved"

get_memory_map ==
    /\ pc = "map" /\ pc' = "done"
    /\ map' = BubbleSort([i \in DOMAIN items |-> [start_address |-> items[i].base_addr,
                                                  size |-> items[i].size,
                                                  type |-> MapType(items[i])]])
    /\ UNCHANGED <<items, loader, free, ram>>

Done == pc = "done" /\ UNCHANGED vars

Next == FillAndSort \/ RemoveLoader \/ RemoveFirstMB \/ Align \/ get_memory_map \/ Done
Spec == Init /\ [][Next]_vars

\* What the kernel derives from the list for its statistics and its pool.
get_total_usable_RAM_size ==
    MapThenSumSet(LAMBDA i : items[i].size, {i \in DOMAIN items : Free(items[i])})

LowPart(item) ==
    (IF item.base_addr + item.size > MB THEN MB ELSE item.base_addr + item.size) - item.base_addr
get_bootloader_memory_usage ==
    loader.first_frame - items[loader.item].base_addr +
    MapThenSumSet(LAMBDA i : LowPart(items[i]),
                  {i \in DOMAIN items : Free(items[i]) /\ items[i].base_addr < MB})

------------------------------------------------------------------------------
(* Properties.                                                             *)

\* The types of the variables.
TypeOK ==
    /\ pc \in {"fill", "loader", "first_mb", "align", "map", "done"}
    /\ \A s \in {free, ram} : \A i \in DOMAIN s :
           s[i].start_address \in 0 .. WORD - 1 /\ s[i].size \in 0 .. WORD - 1
    /\ pc = "done" => Len(map) = Len(items) /\ Len(free) = Len(ram)

\* The pages of a list of ranges, and the pages all of whose bytes satisfy P.
PagesOf(s) == UNION {{a \div PAGE_SIZE : a \in s[i].start_address .. End(s[i]) - 1} : i \in DOMAIN s}
InFreeItem(a) ==
    \E i \in DOMAIN items : Free(items[i]) /\ items[i].base_addr <= a /\ a < items[i].base_addr + items[i].size
\* A page belongs to one range: ranges that touch inside a page give none.
WholePages(P(_)) ==
    {p \in 0 .. WORD \div PAGE_SIZE - 1 :
        /\ \A a \in p * PAGE_SIZE .. (p + 1) * PAGE_SIZE - 1 : P(a)
        /\ \E i \in DOMAIN items : /\ Free(items[i]) /\ items[i].base_addr <= p * PAGE_SIZE
                                   /\ (p + 1) * PAGE_SIZE <= items[i].base_addr + items[i].size}
Sorted(s) == \A i, j \in DOMAIN s : i < j => s[i].start_address <= s[j].start_address

\* The free ranges are exactly the whole pages of usable memory behind the first
\* megabyte that neither the kernel image nor the loader's frames take: nothing
\* that is in use is handed to the frame allocator and nothing is given away.
FreeExact ==
    pc = "done" =>
        PagesOf(free) = WholePages(LAMBDA a :
            /\ InFreeItem(a) /\ a >= MB
            /\ ~(items[loader.item].base_addr <= a /\ a < loader.first_frame))

\* get_ram_space gives all whole pages of usable memory, those in use included.
RamExact == pc = "done" => PagesOf(ram) = WholePages(InFreeItem)

\* The frame allocator walks the ranges in order: they are sorted and aligned
\* (hal.h: "a sorted array of free physical memory ranges aligned to the PAGE_SIZE").
FreeSortedAligned ==
    pc = "done" =>
        /\ Sorted(free) /\ Sorted(ram) /\ Sorted(map)
        /\ \A i \in DOMAIN free : free[i].size # 0 =>
               free[i].start_address % PAGE_SIZE = 0 /\ free[i].size % PAGE_SIZE = 0

\* The frame allocator gets only memory that the map calls usable: "if the bit 0
\* is not setted it must be ignored(specified in the ACPI specification)"
\* (get_memory_map).
FreeIsUsable ==
    pc = "done" =>
        PagesOf(free) \subseteq PagesOf(SelectSeq(map, LAMBDA r : r.type = "usable"))

\* What the boot loader uses and what is left free is all of the usable memory,
\* but for the parts of pages that alignment drops, less than two pages a range.
UsageAccounted ==
    pc = "done" =>
        LET dropped == get_total_usable_RAM_size - get_bootloader_memory_usage
                       - MapThenSumSet(LAMBDA i : free[i].size, DOMAIN free)
        IN  0 <= dropped /\ dropped <= 2 * (PAGE_SIZE - 1) * Len(free)

\* What the kernel derives from the firmware's list and from what the boot loader
\* left behind is exact: the free pages, the RAM, their order and their sums.
MemoryMapExact ==
    TypeOK /\ FreeExact /\ RamExact /\ FreeSortedAligned /\ FreeIsUsable /\ UsageAccounted
=============================================================================

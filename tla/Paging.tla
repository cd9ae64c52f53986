------------------------------- MODULE Paging -------------------------------
(***************************************************************************)
(* The four-level paging structures of src/kernel/HAL/x86-64/x64-memory.c. *)
(* Tables live in frames; unsync_get_page_table_entry walks down from the  *)
(* root, allocating the tables that are missing, one memory access at a    *)
(* time and without a lock (the lock of the structure is commented out).   *)
(*                                                                         *)
(* A virtual page is the sequence of its indices, root first.  An entry is *)
(* the frame or the mapped target in its address bits, and its present     *)
(* bit.  Frames are taken in order, which names them canonically.          *)
(***************************************************************************)
EXTENDS Integers, FiniteSets

CONSTANTS
  Cpu,       \* CPUs
  Src, Dst,  \* the boot loader's paging structure and the kernel's
  Index,     \* indices of a table (512 in the code)
  Pages,     \* virtual pages
  ImagePages,\* those of the kernel's image, which the boot loader maps too
  Targets,   \* frames that pages are mapped to
  ImageTarget, \* the one that holds the kernel's image
  MaxFrames, \* bound: frames for tables
  Exclusive  \* whether the callers' lock keeps other CPUs out

Levels == 4
Roots == {Src, Dst}
Nothing == 0
Frames == 1..MaxFrames

VARIABLES
  mem,   \* the tables: what each frame holds
  used,  \* frames handed out by alloc_frame so far
  op     \* what each CPU does

vars == <<mem, used, op>>

-----------------------------------------------------------------------------
Zero == [i \in Index |-> [to |-> Nothing, present |-> FALSE]]

(* What an allocated frame may hold before it is cleared.                   *)
Garbage == [i \in Index |-> [to |-> 1, present |-> TRUE]]

Cleared_Not(f) == mem[f]

Cleared(f) == Zero

RootFrame(r) == IF r = Src THEN 1 ELSE 2

(* create_empty_kernel_paging_structure fills the root with empty tables.   *)
FirstTable(r, i) == 2 + (IF r = Src THEN 0 ELSE Cardinality(Index)) + i + 1

InitialFrames == 2 + 2 * Cardinality(Index)

InitialMem ==
  [f \in Frames |->
     IF \E r \in Roots : f = RootFrame(r)
     THEN LET r == CHOOSE r \in Roots : f = RootFrame(r)
          IN [i \in Index |-> [to |-> FirstTable(r, i), present |-> TRUE]]
     ELSE IF f <= InitialFrames THEN Zero ELSE Garbage]

-----------------------------------------------------------------------------
(* The table that entry i of table t points to, if it is present.           *)
Child(t, i) == IF t # Nothing /\ mem[t][i].present THEN mem[t][i].to ELSE Nothing

(* The walk of get_physical_address: the table that holds the entry of page *)
(* p, or Nothing when a table on the way is not present.                    *)
TableOf(r, p) == Child(Child(Child(RootFrame(r), p[1]), p[2]), p[3])

get_physical_address(r, p) ==
  IF TableOf(r, p) = Nothing THEN [to |-> Nothing, present |-> FALSE]
  ELSE mem[TableOf(r, p)][p[Levels]]

(* count_map_tables_frames: the tables that can be reached from a root.     *)
Below(tables) == {Child(t, i) : t \in tables, i \in Index} \ {Nothing}

TablesAt(r) ==
  LET second == Below({RootFrame(r)})
      third == Below(second)
  IN {RootFrame(r)} \cup second \cup third \cup Below(third)

count_map_tables_frames == Cardinality(TablesAt(Src)) + Cardinality(TablesAt(Dst))

-----------------------------------------------------------------------------
Idle == [kind |-> "none"]

(* A CPU calls paging_map, invalidate_paging_mapping or, for one page,      *)
(* copy_paging_structure_mapping_no_page_invalidation, which walks the      *)
(* source first.                                                            *)
Begin(kind, r, p, t) ==
  [kind |-> kind, page |-> p, target |-> t, root |-> r, level |-> 1,
   table |-> RootFrame(r), pc |-> "walk", found |-> Nothing]

Free(c) == op[c] = Idle /\ (Exclusive => \A d \in Cpu : op[d] = Idle)

Start(c, o) ==
  /\ Free(c)
  /\ op' = [op EXCEPT ![c] = o]
  /\ UNCHANGED <<mem, used>>

(* The test of PAGE_PRESENT.                                                *)
Present(e) == e.present

At(c) == mem[op[c].table][op[c].page[op[c].level]]

(* The test of an entry on the way down.  When it is not present a frame is *)
(* allocated and cleared.                                                   *)
Look(c) ==
  /\ op[c] # Idle /\ op[c].pc = "walk" /\ op[c].level < Levels
  /\ \/ /\ Present(At(c))
        /\ op' = [op EXCEPT ![c].pc = "descend"]
        /\ UNCHANGED <<mem, used>>
     \/ /\ ~Present(At(c)) /\ used < MaxFrames
        /\ used' = used + 1
        /\ mem' = [mem EXCEPT ![used + 1] = Cleared(used + 1)]
        /\ op' = [op EXCEPT ![c].pc = "link", ![c].found = used + 1]

(* The new table is written into the entry.                                 *)
Link(c) ==
  /\ op[c] # Idle /\ op[c].pc = "link"
  /\ mem' = [mem EXCEPT ![op[c].table][op[c].page[op[c].level]] =
               [to |-> op[c].found, present |-> TRUE]]
  /\ op' = [op EXCEPT ![c].pc = "descend", ![c].found = Nothing]
  /\ UNCHANGED used

(* The entry is read once more for the address of the next table.           *)
Descend(c) ==
  /\ op[c] # Idle /\ op[c].pc = "descend"
  /\ op' = [op EXCEPT ![c].table = At(c).to, ![c].level = @ + 1, ![c].pc = "walk"]
  /\ UNCHANGED <<mem, used>>

(* The walk is over: the operation changes the page's entry.                *)
Mapped(c) == [to |-> op[c].target, present |-> TRUE]

Invalidated_Erased(e) == [to |-> Nothing, present |-> FALSE]

Invalidated(e) == [e EXCEPT !.present = FALSE]

Copied(e) == [to |-> e.to, present |-> TRUE]

PutEntry(c, e) ==
  /\ mem' = [mem EXCEPT ![op[c].table][op[c].page[Levels]] = e]
  /\ op' = [op EXCEPT ![c] = Idle]
  /\ UNCHANGED used

AtEntry(c, kind) ==
  op[c] # Idle /\ op[c].pc = "walk" /\ op[c].level = Levels /\ op[c].kind = kind

paging_map(c) == AtEntry(c, "map") /\ PutEntry(c, Mapped(c))

invalidate_paging_mapping(c) == AtEntry(c, "invalidate") /\ PutEntry(c, Invalidated(At(c)))

(* A copy has found the source's entry and walks the destination.           *)
CopySource(c) ==
  /\ AtEntry(c, "copy") /\ op[c].root = Src
  /\ op' = [op EXCEPT ![c] = [Begin("copy", Dst, op[c].page, Nothing) EXCEPT !.target = op[c].table]]
  /\ UNCHANGED <<mem, used>>

CopyEntry(c) ==
  /\ AtEntry(c, "copy") /\ op[c].root = Dst
  /\ PutEntry(c, Copied(mem[op[c].target][op[c].page[Levels]]))

Init ==
  /\ mem = InitialMem
  /\ used = InitialFrames
  /\ op = [c \in Cpu |-> Idle]

Next ==
  \E c \in Cpu :
    \/ \E p \in Pages, t \in Targets : Start(c, Begin("map", Dst, p, t))
    \/ \E p \in ImagePages : Start(c, Begin("map", Src, p, ImageTarget))
    \/ \E p \in Pages : Start(c, Begin("invalidate", Dst, p, Nothing))
    \/ \E p \in ImagePages : Start(c, Begin("copy", Src, p, Nothing))
    \/ Look(c) \/ Link(c) \/ Descend(c)
    \/ paging_map(c) \/ invalidate_paging_mapping(c) \/ CopySource(c) \/ CopyEntry(c)

Spec == Init /\ [][Next]_vars
-----------------------------------------------------------------------------
(* The type of the state.                                                   *)
TypeOK ==
  /\ used \in InitialFrames..MaxFrames
  /\ \A f \in 1..used, i \in Index :
       mem[f][i] \in [to : Frames \cup Targets \cup {Nothing}, present : BOOLEAN]
  /\ \A c \in Cpu : op[c] = Idle \/ (op[c].level \in 1..Levels /\ op[c].table \in Frames)

(* Every frame allocated for a table is part of a paging structure, or is   *)
(* about to be linked into one, so that get_paging_mem_overhead reports all *)
(* of them and none is lost.                                                *)
OverheadExact ==
  count_map_tables_frames + Cardinality({c \in Cpu : op[c] # Idle /\ op[c].pc = "link"}) = used

(* The tables are well formed, all of them and at any time.                 *)
TablesSound == TypeOK /\ OverheadExact

Space == INSTANCE AddressSpace WITH
  Spaces <- Roots,
  space <- [x \in Roots \X Pages |-> get_physical_address(x[1], x[2])]

(* The two structures, walked as the hardware walks them, behave like the   *)
(* functions of AddressSpace: a mapping appears in one step, and building   *)
(* tables or changing one page never changes what another page maps to.     *)
BehavesAsFunction == Space!Spec

(* The same, without what was invalid: a page that paging_map has mapped    *)
(* stays mapped until it is invalidated or mapped again.                    *)
MappingKept ==
  [][\A r \in Roots, p \in Pages :
       get_physical_address(r, p).present /\ ~get_physical_address(r, p)'.present =>
         \E c \in Cpu : op[c] # Idle /\ op[c].kind = "invalidate" /\ op[c].page = p]_vars
=============================================================================

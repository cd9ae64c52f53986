-------------------------- MODULE MCFrameAllocator --------------------------
(***************************************************************************)
(* Frames and the page tables made of them: small memory maps for          *)
(* FrameAllocator and pages of two structures for Paging.  The two share   *)
(* no variable (Paging names its frames in the order it takes them), so a  *)
(* behaviour is that of one of them.  FrameAllocator is extended; Paging   *)
(* is an instance, and its properties are looked at in its own behaviours. *)
(***************************************************************************)
EXTENDS FrameAllocator

CONSTANT MCPages   \* given a value in the configuration

VARIABLES
    part,   \* the part that is looked at
    mem, used, op

tableVars == <<mem, used, op>>

R(s, n) == [start |-> s, size |-> n]

\* A small range the bootstage can only use after its cached one is spent, the
\* range that takes the frame stack and straddles BootLimit, and one beyond it.
StraddlingMap == [free_ranges |-> <<R(1, 1), R(3, 5), R(10, 2)>>,
                  usable_ram  |-> 9]

\* The stack exactly fills its range, and the next range starts one page short
\* of the bootstage limit.
TightMap == [free_ranges |-> <<R(2, 2), R(7, 4)>>, usable_ram |-> 7]

\* An empty range first, and all of the rest adjacent.
AdjacentMap == [free_ranges |-> <<R(4, 0), R(1, 3), R(4, 2), R(6, 2)>>,
                usable_ram  |-> 7]

\* The one range large enough for the stack starts below BootLimit and ends
\* beyond it: init must panic.
HighMap == [free_ranges |-> <<R(5, 1), R(7, 4)>>, usable_ram |-> 6]

MCMemoryMaps == {StraddlingMap, TightMap, AdjacentMap, HighMap}

\* Pages that share all tables, and one that shares those above the last.
ThreePages == {<<0, 0, 0, 0>>, <<0, 0, 0, 1>>, <<0, 0, 1, 0>>}

Tables == INSTANCE Paging WITH
    Cpu <- {0}, Src <- "src", Dst <- "dst", Index <- {0, 1}, Pages <- MCPages,
    ImagePages <- {<<0, 0, 0, 0>>}, Targets <- {101, 102}, ImageTarget <- 101,
    MaxFrames <- 12, Exclusive <- TRUE

FramesInit ==
    /\ part \in {"frames", "tables"}
    /\ Init /\ Tables!Init
    /\ part = "tables" => usable_ram = HighMap.usable_ram

FramesNext ==
    \/ part = "frames" /\ Next /\ UNCHANGED <<part, tableVars>>
    \/ part = "tables" /\ Tables!Next /\ UNCHANGED <<part, vars>>

FramesSpec == FramesInit /\ [][FramesNext]_<<part, vars, tableVars>>

------------------------------------------------------------------------------
\* No table is lost, and no entry points to what is not one.
TablesSound == part = "tables" => Tables!TablesSound

\* Two paging structures behave like functions from pages to frames.
BehavesAsFunction == Tables!BehavesAsFunction
=============================================================================

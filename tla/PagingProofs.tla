---------------------------- MODULE PagingProofs ----------------------------
(***************************************************************************)
(* Proofs about paging: the page fault handler for any number of CPUs and  *)
(* any sizes of the identity mapping, the stacks and their padding, and    *)
(* the four-level structures (module Paging) for any number of CPUs, of    *)
(* pages, of entries of a table and of frames.                             *)
(***************************************************************************)
EXTENDS PageFault, FiniteSets, FiniteSetTheorems, TLAPS

Fault == Identity \cup Stack \cup {[kind |-> "none"]}

(* A CPU that handles a fault has one: what the functions called by         *)
(* page_fault rely on.                                                      *)
Handling == {"enter", "lock", "service", "release", "clear"}

Types ==
  /\ TypeOK
  /\ pc \in [Cpu -> Handling \cup {"running", "vmm", "nested"}]
  /\ fault \in [Cpu -> Fault]
  /\ \A c \in Cpu : pc[c] \in Handling => fault[c] \in Identity \cup Stack

IndInv == Types /\ FlagMeansServicing /\ PaddingKept

(* The pages one fault loads lie in the identity mapping or just behind it. *)
LEMMA LoadedBounded ==
  ASSUME NEW f \in Identity, InIdentityMap(f)
  PROVE  LoadedPages(f) \subseteq 0..LastPage + Extra
BY PageFaultAssumption DEF Identity, InIdentityMap, LoadedPages, FirstLoaded

(* A fault of another kind than the stack's is in page 0 if it is not in    *)
(* the identity mapping.                                                    *)
LEMMA OutsideIsNull ==
  ASSUME NEW f \in Identity, ~InIdentityMap(f)
  PROVE  f.kind = "identity" /\ f.page = 0
BY PageFaultAssumption DEF Identity, InIdentityMap

LEMMA InitHolds == Init => IndInv
<1> SUFFICES ASSUME Init PROVE IndInv
  BY Zenon
<1>1. Types
  <2>1. mapped \subseteq 0..LastPage + Extra
    BY PageFaultAssumption DEF Init
  <2>2. padding \in [Cpu -> 0..Padding]
    BY PageFaultAssumption DEF Init
  <2>3. fault \in [Cpu -> Fault]
    BY Zenon DEF Init, Fault
  <2> QED
    BY <2>1, <2>2, <2>3, Zenon DEF Init, Types, TypeOK, Handling
<1>2. FlagMeansServicing
  BY Zenon DEF Init, FlagMeansServicing, Serving
<1>3. PaddingKept
  BY PageFaultAssumption, Zenon DEF Init, PaddingKept
<1> QED
  BY <1>1, <1>2, <1>3, Zenon DEF IndInv

LEMMA TouchStep ==
  ASSUME IndInv, NEW c \in Cpu, NEW f \in Identity \cup Stack, Touch(c, f)
  PROVE  IndInv'
<1>1. Types'
  BY Zenon DEF IndInv, Types, TypeOK, Touch, Fault, Handling
<1>2. FlagMeansServicing'
  <2>1. Serving' = Serving
    BY Zenon DEF IndInv, Types, Touch, Serving
  <2> QED
    BY <2>1, Zenon DEF IndInv, FlagMeansServicing, Touch
<1>3. PaddingKept'
  BY Zenon DEF IndInv, PaddingKept, Touch
<1> QED
  BY <1>1, <1>2, <1>3, Zenon DEF IndInv

LEMMA EnterStep ==
  ASSUME IndInv, NEW c \in Cpu, Enter(c)
  PROVE  IndInv'
<1>1. CASE servicing
  <2>1. panic' = "double page fault detected" /\ UNCHANGED <<mapped, padding, servicing, servedBy, vlock, pc, fault>>
    BY <1>1, Zenon DEF Enter, FlagTaken
  <2>2. Types'
    BY <2>1, Zenon DEF IndInv, Types, TypeOK
  <2>3. FlagMeansServicing'
    BY <2>1, Zenon DEF FlagMeansServicing
  <2>4. PaddingKept'
    BY <2>1, Zenon DEF IndInv, PaddingKept
  <2> QED
    BY <2>2, <2>3, <2>4, Zenon DEF IndInv
<1>2. CASE ~servicing
  <2>1. /\ servicing' = TRUE /\ servedBy' = {c} /\ panic' = panic /\ panic = "no"
        /\ pc' = [pc EXCEPT ![c] = "lock"] /\ pc[c] = "enter"
        /\ UNCHANGED <<mapped, padding, vlock, fault>>
    BY <1>2, Zenon DEF Enter, FlagTaken
  <2>2. Types'
    BY <2>1, Zenon DEF IndInv, Types, TypeOK, Handling
  <2>3. Serving = {}
    BY <1>2, <2>1, Zenon DEF IndInv, FlagMeansServicing
  <2>4. Serving' = {c}
    BY <2>1, <2>3, Zenon DEF IndInv, Types, Serving
  <2>5. FlagMeansServicing'
    BY <2>1, <2>4, Zenon DEF FlagMeansServicing
  <2>6. PaddingKept'
    BY <2>1, Zenon DEF IndInv, PaddingKept
  <2> QED
    BY <2>2, <2>5, <2>6, Zenon DEF IndInv
<1> QED
  BY <1>1, <1>2, Zenon

(* A step of page_fault that changes no more than the lock.                 *)
LEMMA TakeLockStep ==
  ASSUME IndInv, NEW c \in Cpu, TakeLock(c)
  PROVE  IndInv'
<1>1. Types'
  BY Zenon DEF IndInv, Types, TypeOK, TakeLock, Handling
<1>2. FlagMeansServicing'
  <2>1. Serving' = Serving
    BY Zenon DEF IndInv, Types, TakeLock, Serving
  <2> QED
    BY <2>1, Zenon DEF IndInv, FlagMeansServicing, TakeLock
<1>3. PaddingKept'
  BY Zenon DEF IndInv, PaddingKept, TakeLock
<1> QED
  BY <1>1, <1>2, <1>3, Zenon DEF IndInv

LEMMA ServiceStep ==
  ASSUME IndInv, NEW c \in Cpu, Service(c)
  PROVE  IndInv'
<1> DEFINE f == fault[c]
<1>0. /\ panic = "no" /\ pc[c] = "service" /\ pc' = [pc EXCEPT ![c] = "release"]
      /\ UNCHANGED <<servicing, servedBy, vlock, fault>>
  BY Zenon DEF Service
<1>1. f \in Identity \cup Stack
  BY <1>0, Zenon DEF IndInv, Types, Handling
<1>2. Serving' = Serving
  BY <1>0, Zenon DEF IndInv, Types, Serving
<1>3. FlagMeansServicing'
  BY <1>0, <1>2, Zenon DEF IndInv, FlagMeansServicing
<1>4. CASE InIdentityMap(f)
  <2>1. mapped' = mapped \cup LoadedPages(f) /\ UNCHANGED <<padding, panic>>
    BY <1>4, Zenon DEF Service
  <2>2. f \in Identity
    BY <1>1, <1>4, Zenon DEF InIdentityMap, Stack
  <2>3. mapped' \subseteq 0..LastPage + Extra
    BY <2>1, <2>2, <1>4, LoadedBounded, Zenon DEF IndInv, Types, TypeOK
  <2>4. Types'
    BY <1>0, <2>1, <2>3, Zenon DEF IndInv, Types, TypeOK, Handling
  <2>5. PaddingKept'
    BY <1>0, <2>1, Zenon DEF IndInv, PaddingKept
  <2> QED
    BY <1>3, <2>4, <2>5, Zenon DEF IndInv
<1>5. CASE ~InIdentityMap(f) /\ f.kind = "stack" /\ MayExpand(c)
  <2>1. padding' = [padding EXCEPT ![c] = @ - Step] /\ UNCHANGED <<mapped, panic>>
    BY <1>5, Zenon DEF Service
  <2>2. padding \in [Cpu -> 0..Padding] /\ padding[c] \in 0..Padding
    BY Zenon DEF IndInv, Types, TypeOK
  <2>3. padding[c] - Step \in 0..Padding /\ padding[c] - Step >= MinPadding
    BY <1>5, <2>2, PageFaultAssumption DEF MayExpand
  <2>6. padding' \in [Cpu -> 0..Padding] /\ \A d \in Cpu : padding'[d] >= MinPadding
    BY <2>1, <2>2, <2>3, Zenon DEF IndInv, PaddingKept
  <2>4. Types'
    BY <1>0, <2>1, <2>6, Zenon DEF IndInv, Types, TypeOK, Handling
  <2>5. PaddingKept'
    BY <1>0, <2>1, <2>6, Zenon DEF IndInv, PaddingKept
  <2> QED
    BY <1>3, <2>4, <2>5, Zenon DEF IndInv
<1>6. CASE ~InIdentityMap(f) /\ ~(f.kind = "stack" /\ MayExpand(c))
  <2>1. panic' = "unrecoverable" /\ UNCHANGED <<mapped, padding>>
    BY <1>6, Zenon DEF Service
  <2>2. Types'
    BY <1>0, <2>1, Zenon DEF IndInv, Types, TypeOK, Handling
  <2>3. pc'[c] = "release" /\ fault'[c] = f /\ padding' = padding
    BY <1>0, <2>1, Zenon DEF IndInv, Types
  <2>4. CASE f \in Stack
    <3>1. f.kind = "stack" /\ ~(padding[c] - Step >= MinPadding)
      BY <1>6, <2>4, Zenon DEF Stack, MayExpand
    <3>2. padding[c] \in 0..Padding
      BY Zenon DEF IndInv, Types, TypeOK
    <3>3. padding[c] - Step < MinPadding
      BY <3>1, <3>2, PageFaultAssumption
    <3> QED
      BY <1>0, <2>1, <2>2, <2>3, <3>1, <3>3, <1>3, Zenon DEF IndInv, PaddingKept
  <2>5. CASE f \in Identity
    <3>1. f.kind = "identity" /\ f.page = 0
      BY <1>6, <2>5, OutsideIsNull, Zenon
    <3> QED
      BY <1>0, <2>1, <2>2, <2>3, <3>1, <1>3, Zenon DEF IndInv, PaddingKept
  <2> QED
    BY <1>1, <2>4, <2>5, Zenon
<1> QED
  BY <1>4, <1>5, <1>6, Zenon

(* A fault in the handler finds the flag set, and stops the kernel.         *)
LEMMA FaultInHandlerStep ==
  ASSUME IndInv, NEW c \in Cpu, FaultInHandler(c)
  PROVE  IndInv'
<1>1. c \in Serving /\ panic = "no"
  BY Zenon DEF FaultInHandler, Serving
<1>2. servicing
  BY <1>1, Zenon DEF IndInv, FlagMeansServicing
<1>3. panic' = "double page fault detected"
  BY <1>2, Zenon DEF FaultInHandler, FlagTaken
<1>4. Types'
  BY <1>3, Zenon DEF IndInv, Types, TypeOK, FaultInHandler, Handling
<1>5. FlagMeansServicing'
  BY <1>3, Zenon DEF FlagMeansServicing
<1>6. PaddingKept'
  BY <1>3, Zenon DEF IndInv, PaddingKept, FaultInHandler
<1> QED
  BY <1>4, <1>5, <1>6, Zenon DEF IndInv

LEMMA ReleaseLockStep ==
  ASSUME IndInv, NEW c \in Cpu, ReleaseLock(c)
  PROVE  IndInv'
<1>1. Types'
  BY Zenon DEF IndInv, Types, TypeOK, ReleaseLock, Handling
<1>2. FlagMeansServicing'
  <2>1. Serving' = Serving
    BY Zenon DEF IndInv, Types, ReleaseLock, Serving
  <2> QED
    BY <2>1, Zenon DEF IndInv, FlagMeansServicing, ReleaseLock
<1>3. PaddingKept'
  BY Zenon DEF IndInv, PaddingKept, ReleaseLock
<1> QED
  BY <1>1, <1>2, <1>3, Zenon DEF IndInv

(* The CPU that clears the flag is the only one that was served, so no      *)
(* other is left behind with the flag cleared.                              *)
LEMMA ClearStep ==
  ASSUME IndInv, NEW c \in Cpu, Clear(c)
  PROVE  IndInv'
<1>1. PICK p \in {"enter", "running"} : pc' = [pc EXCEPT ![c] = p]
  BY Zenon DEF Clear
<1>2. /\ panic = "no" /\ pc[c] = "clear" /\ servicing' = FALSE /\ servedBy' = {}
      /\ UNCHANGED <<mapped, padding, vlock, fault, panic>>
  BY Zenon DEF Clear
<1>3. Types'
  BY <1>1, <1>2, Zenon DEF IndInv, Types, TypeOK, Handling
<1>4. c \in Serving /\ \A d \in Serving : d = c
  BY <1>2, Zenon DEF IndInv, FlagMeansServicing, Serving
<1>5. Serving' = {}
  BY <1>1, <1>4, Zenon DEF IndInv, Types, Serving
<1>6. FlagMeansServicing'
  BY <1>2, <1>5, Zenon DEF FlagMeansServicing
<1>7. PaddingKept'
  BY <1>2, Zenon DEF IndInv, PaddingKept
<1> QED
  BY <1>3, <1>6, <1>7, Zenon DEF IndInv

LEMMA VmmStep ==
  ASSUME IndInv, NEW c \in Cpu, VmmLock(c) \/ VmmUnlock(c)
  PROVE  IndInv'
<1>1. Types'
  BY Zenon DEF IndInv, Types, TypeOK, VmmLock, VmmUnlock, Handling
<1>2. FlagMeansServicing'
  <2>1. Serving' = Serving
    BY Zenon DEF IndInv, Types, VmmLock, VmmUnlock, Serving
  <2> QED
    BY <2>1, Zenon DEF IndInv, FlagMeansServicing, VmmLock, VmmUnlock
<1>3. PaddingKept'
  BY Zenon DEF IndInv, PaddingKept, VmmLock, VmmUnlock
<1> QED
  BY <1>1, <1>2, <1>3, Zenon DEF IndInv

LEMMA StepHolds == IndInv /\ [Next]_vars => IndInv'
<1> SUFFICES ASSUME IndInv, [Next]_vars PROVE IndInv'
  BY Zenon
<1>1. CASE UNCHANGED vars
  BY <1>1 DEF IndInv, Types, TypeOK, FlagMeansServicing, Serving, PaddingKept, vars
<1>2. CASE Next
  <2> PICK c \in Cpu :
        \/ \E f \in Identity \cup Stack : Touch(c, f)
        \/ Enter(c) \/ TakeLock(c) \/ Service(c) \/ ReleaseLock(c) \/ Clear(c)
        \/ FaultInHandler(c) \/ VmmLock(c) \/ VmmUnlock(c)
    BY <1>2, Zenon DEF Next
  <2> QED
    BY Zenon, TouchStep, EnterStep, TakeLockStep, ServiceStep, ReleaseLockStep, ClearStep,
       FaultInHandlerStep, VmmStep
<1> QED
  BY <1>1, <1>2, Zenon

(* The inductive invariant holds in every state of the handler.             *)
THEOREM Invariance == Spec => []IndInv
BY InitHolds, StepHolds, PTL DEF Spec

(* The state keeps its type: in particular no fault maps a page more than   *)
(* PAGE_FAULT_ADDITIONAL_PAGE_LOAD pages behind the identity mapping, and   *)
(* the padding of a stack never wraps below zero.                           *)
THEOREM TypeCorrect == Spec => []TypeOK
<1>1. IndInv => TypeOK
  BY Zenon DEF IndInv, Types
<1> QED
  BY <1>1, Invariance, PTL

(* The padding of every stack stays at its minimum or above, and a panic    *)
(* says unrecoverable only of a stack that cannot grow or of a null         *)
(* pointer.                                                                 *)
THEOREM PaddingIsKept == Spec => []PaddingKept
<1>1. IndInv => PaddingKept
  BY Zenon DEF IndInv
<1> QED
  BY <1>1, Invariance, PTL

(* servicing_page_fault is set exactly while one CPU serves a fault, for    *)
(* any number of CPUs that fault at the same time.                          *)
THEOREM FlagIsExact == Spec => []FlagMeansServicing
<1>1. IndInv => FlagMeansServicing
  BY Zenon DEF IndInv
<1> QED
  BY <1>1, Invariance, PTL

-----------------------------------------------------------------------------
(* The paging structures, for any number of CPUs, of pages, of entries of a *)
(* table and of frames.  Paging is an instance here.                        *)
CONSTANTS Src, Dst, Index, Pages, ImagePages, Targets, ImageTarget, MaxFrames, Exclusive

VARIABLES mem, used, op

Tables == INSTANCE Paging

(* What the theorems assume of the constants: tables of so many entries,    *)
(* pages named by four indices, room for the tables the structures are      *)
(* created with, and callers that hold the VMM's lock.                      *)
PagingFits ==
  /\ Src # Dst /\ IsFiniteSet(Index) /\ Index = 0 .. Cardinality(Index) - 1
  /\ Pages \subseteq [1 .. 4 -> Index] /\ ImagePages \subseteq Pages
  /\ IsFiniteSet(Cpu) /\ ImageTarget \in Targets
  /\ MaxFrames \in Nat /\ Tables!InitialFrames <= MaxFrames
  /\ Exclusive = TRUE

Roots == {Src, Dst}
Frames == 1 .. MaxFrames
TableEntry == [to : Frames \cup Targets \cup {0}, present : BOOLEAN]

(* A frame that is allocated and not linked yet, as a set.                  *)
Unlinked == {op[c].found : c \in {d \in Cpu : op[d] # Tables!Idle /\ op[d].pc = "link"}}
Linked == (1 .. used) \ Unlinked

Points(t, i) == mem[t][i].present
To(t, i) == mem[t][i].to

(* The tables in use form a tree of four levels below each root: lv and rt  *)
(* give the level and the root of a table.                                  *)
TreeTypes(lv, rt) == lv \in [Linked -> 1 .. 4] /\ rt \in [Linked -> Roots]

TreeRoots(lv, rt) ==
  /\ \A r \in Roots : /\ Tables!RootFrame(r) \in Linked
                      /\ lv[Tables!RootFrame(r)] = 1 /\ rt[Tables!RootFrame(r)] = r
  /\ \A t \in Linked : lv[t] = 1 => t = Tables!RootFrame(rt[t])

TreeDown(lv, rt) ==
  \A t \in Linked, i \in Index :
    lv[t] < 4 /\ Points(t, i) =>
      To(t, i) \in Linked /\ lv[To(t, i)] = lv[t] + 1 /\ rt[To(t, i)] = rt[t]

TreeOnce(lv) ==
  \A t, u \in Linked, i, j \in Index :
    lv[t] < 4 /\ lv[u] < 4 /\ Points(t, i) /\ Points(u, j) /\ To(t, i) = To(u, j) =>
      t = u /\ i = j

TreeUp(lv) ==
  \A f \in Linked :
    lv[f] # 1 => \E t \in Linked, i \in Index : lv[t] < 4 /\ Points(t, i) /\ To(t, i) = f

Tree(lv, rt) ==
  TreeTypes(lv, rt) /\ TreeRoots(lv, rt) /\ TreeDown(lv, rt) /\ TreeOnce(lv) /\ TreeUp(lv)

(* The table that the walk for a page meets at a level.                     *)
Second(r, p) == Tables!Child(Tables!RootFrame(r), p[1])
Third(r, p) == Tables!Child(Second(r, p), p[2])
Reached(r, p, l) ==
  CASE l = 1 -> Tables!RootFrame(r) [] l = 2 -> Second(r, p)
    [] l = 3 -> Third(r, p) [] l = 4 -> Tables!TableOf(r, p)

OpRecord ==
  [kind : {"map", "invalidate", "copy"}, page : Pages, target : Targets \cup Frames \cup {0},
   root : Roots, level : 1 .. 4, table : Frames, pc : {"walk", "link", "descend"},
   found : Frames \cup {0}]

(* A CPU has walked so far for its page, and has a new table to link or     *)
(* an entry that is present to follow.                                      *)
Walking(lv, rt, o) ==
  /\ o.table \in Linked /\ lv[o.table] = o.level /\ rt[o.table] = o.root
  /\ o.table = Reached(o.root, o.page, o.level)
  /\ o.pc # "walk" => o.level < 4
  /\ o.pc = "link" => /\ ~Points(o.table, o.page[o.level])
                      /\ o.found = used /\ mem[used] = Tables!Zero
  /\ o.pc = "descend" => Points(o.table, o.page[o.level])
  /\ o.kind = "map" => o.target \in Targets
  /\ o.kind = "copy" /\ o.root = Dst =>
       o.target \in Linked /\ lv[o.target] = 4 /\ o.target = Tables!TableOf(Src, o.page)

TablesTypes ==
  /\ used \in Tables!InitialFrames .. MaxFrames
  /\ mem \in [Frames -> [Index -> TableEntry]]
  /\ op \in [Cpu -> OpRecord \cup {Tables!Idle}]
  /\ \A c, d \in Cpu : op[c] # Tables!Idle /\ op[d] # Tables!Idle => c = d

TablesOK(lv, rt) ==
  /\ Tree(lv, rt)
  /\ \A c \in Cpu : op[c] # Tables!Idle => Walking(lv, rt, op[c])

TablesInv == TablesTypes /\ \E lv, rt : TablesOK(lv, rt)

(* Levels are numbers.                                                      *)
LEMMA LevelBounds ==
  ASSUME NEW lv, NEW rt, TreeTypes(lv, rt), NEW t \in Linked
  PROVE  lv[t] \in 1 .. 4 /\ rt[t] \in Roots /\ t # 0
BY DEF TreeTypes, Linked

(* One step of a walk: down to the next level, or to nothing.               *)
StepsDown(lv, rt, t, i) ==
  /\ Points(t, i) => /\ Tables!Child(t, i) = To(t, i) /\ To(t, i) \in Linked
                     /\ lv[To(t, i)] = lv[t] + 1 /\ rt[To(t, i)] = rt[t]
  /\ ~Points(t, i) => Tables!Child(t, i) = 0

LEMMA ChildIs ==
  ASSUME NEW lv, NEW rt, Tree(lv, rt), NEW t \in Linked, lv[t] < 4, NEW i \in Index
  PROVE  StepsDown(lv, rt, t, i)
<1>1. t # 0
  BY LevelBounds, Zenon DEF Tree
<1>2. Points(t, i) => Tables!Child(t, i) = To(t, i)
  BY <1>1, Zenon DEF Points, To, Tables!Child, Tables!Nothing
<1>3. ~Points(t, i) => Tables!Child(t, i) = 0
  BY <1>1, Zenon DEF Points, Tables!Child, Tables!Nothing
<1> QED
  BY <1>2, <1>3, Zenon DEF Tree, TreeDown, StepsDown

LEMMA ChildOfNothing ==
  ASSUME NEW i PROVE Tables!Child(0, i) = 0
BY Zenon DEF Tables!Child, Tables!Nothing

(* A table of a level, or nothing.                                          *)
AtLevel(lv, rt, t, r, l) == t = 0 \/ (t \in Linked /\ lv[t] = l /\ rt[t] = r)

LEMMA ChildAtLevel ==
  ASSUME NEW lv, NEW rt, Tree(lv, rt), NEW t, NEW r, NEW l \in 1 .. 3, NEW m, m = l + 1,
         AtLevel(lv, rt, t, r, l), NEW i \in Index
  PROVE  AtLevel(lv, rt, Tables!Child(t, i), r, m)
<1>1. CASE t = 0
  BY <1>1, ChildOfNothing, Zenon DEF AtLevel
<1>2. CASE t \in Linked /\ lv[t] = l /\ rt[t] = r
  <2>1. lv[t] < 4
    BY <1>2
  <2>2. CASE Points(t, i)
    <3>1. /\ Tables!Child(t, i) = To(t, i) /\ To(t, i) \in Linked
          /\ lv[To(t, i)] = lv[t] + 1 /\ rt[To(t, i)] = rt[t]
      <4>1. StepsDown(lv, rt, t, i)
        BY <1>2, <2>1, ChildIs, Zenon
      <4> QED
        BY <2>2, <4>1, Zenon DEF StepsDown
    <3> QED
      BY <1>2, <3>1, Zenon DEF AtLevel
  <2>3. CASE ~Points(t, i)
    BY <1>2, <2>1, <2>3, ChildIs, Zenon DEF AtLevel, StepsDown
  <2> QED
    BY <2>2, <2>3, Zenon
<1> QED
  BY <1>1, <1>2, Zenon DEF AtLevel

LEMMA Indices ==
  ASSUME PagingFits, NEW p \in Pages
  PROVE  p[1] \in Index /\ p[2] \in Index /\ p[3] \in Index /\ p[4] \in Index
BY DEF PagingFits

LEMMA RootAtLevel ==
  ASSUME NEW lv, NEW rt, Tree(lv, rt), NEW r \in Roots
  PROVE  AtLevel(lv, rt, Tables!RootFrame(r), r, 1)
BY Zenon DEF Tree, TreeRoots, AtLevel

LEMMA WalkLevels ==
  ASSUME PagingFits, NEW lv, NEW rt, Tree(lv, rt), NEW r \in Roots, NEW p \in Pages
  PROVE  /\ AtLevel(lv, rt, Second(r, p), r, 2) /\ AtLevel(lv, rt, Third(r, p), r, 3)
         /\ AtLevel(lv, rt, Tables!TableOf(r, p), r, 4)
         /\ Tables!TableOf(r, p) = Tables!Child(Third(r, p), p[3])
<1>1. p[1] \in Index /\ p[2] \in Index /\ p[3] \in Index
  BY Indices, Zenon
<1>2. AtLevel(lv, rt, Second(r, p), r, 2)
  BY <1>1, RootAtLevel, ChildAtLevel, 2 = 1 + 1, 1 \in 1 .. 3, Zenon DEF Second
<1>3. AtLevel(lv, rt, Third(r, p), r, 3)
  BY <1>1, <1>2, ChildAtLevel, 3 = 2 + 1, 2 \in 1 .. 3, Zenon DEF Third
<1>4. Tables!TableOf(r, p) = Tables!Child(Third(r, p), p[3])
  BY Zenon DEF Tables!TableOf, Third, Second
<1>5. AtLevel(lv, rt, Tables!Child(Third(r, p), p[3]), r, 4)
  BY <1>1, <1>3, ChildAtLevel, 4 = 3 + 1, 3 \in 1 .. 3, Zenon
<1> QED
  BY <1>2, <1>3, <1>4, <1>5, Zenon

(* Two walks that end in one table have come the same way.                  *)
SameStep(t, u, i, j) == t = u /\ i = j /\ t # 0

LEMMA ChildOnce ==
  ASSUME NEW lv, NEW rt, Tree(lv, rt), NEW l \in 1 .. 3, NEW t, NEW u, NEW r, NEW s,
         AtLevel(lv, rt, t, r, l), AtLevel(lv, rt, u, s, l), NEW i \in Index, NEW j \in Index,
         Tables!Child(t, i) = Tables!Child(u, j), Tables!Child(t, i) # 0
  PROVE  SameStep(t, u, i, j)
<1>1. t # 0 /\ u # 0
  BY ChildOfNothing, Zenon
<1>2. t \in Linked /\ u \in Linked /\ lv[t] = l /\ lv[u] = l
  BY <1>1, Zenon DEF AtLevel
<1>3. lv[t] < 4 /\ lv[u] < 4
  BY <1>2
<1>4. Points(t, i) /\ Tables!Child(t, i) = To(t, i)
  BY <1>1, <1>2, <1>3, ChildIs, Zenon DEF StepsDown
<1>5. Points(u, j) /\ Tables!Child(u, j) = To(u, j)
  BY <1>1, <1>2, <1>3, ChildIs, Zenon DEF StepsDown
<1>6. To(t, i) = To(u, j)
  BY <1>4, <1>5, Zenon
<1> QED
  BY <1>1, <1>2, <1>3, <1>4, <1>5, <1>6, Zenon DEF Tree, TreeOnce, SameStep

LEMMA WalkOnce ==
  ASSUME PagingFits, NEW lv, NEW rt, Tree(lv, rt), NEW r \in Roots, NEW s \in Roots,
         NEW p \in Pages, NEW q \in Pages,
         Tables!TableOf(r, p) = Tables!TableOf(s, q), Tables!TableOf(r, p) # 0, p[4] = q[4]
  PROVE  r = s /\ p = q
<1>1. /\ p[1] \in Index /\ p[2] \in Index /\ p[3] \in Index
      /\ q[1] \in Index /\ q[2] \in Index /\ q[3] \in Index
  BY Indices, Zenon
<1>2. /\ AtLevel(lv, rt, Second(r, p), r, 2) /\ AtLevel(lv, rt, Third(r, p), r, 3)
      /\ Tables!TableOf(r, p) = Tables!Child(Third(r, p), p[3])
  BY WalkLevels, Zenon
<1>3. /\ AtLevel(lv, rt, Second(s, q), s, 2) /\ AtLevel(lv, rt, Third(s, q), s, 3)
      /\ Tables!TableOf(s, q) = Tables!Child(Third(s, q), q[3])
  BY WalkLevels, Zenon
<1>4. SameStep(Third(r, p), Third(s, q), p[3], q[3])
  BY <1>1, <1>2, <1>3, ChildOnce, 3 \in 1 .. 3, Zenon
<1>5. SameStep(Second(r, p), Second(s, q), p[2], q[2])
  <2>1. /\ Tables!Child(Second(r, p), p[2]) = Tables!Child(Second(s, q), q[2])
        /\ Tables!Child(Second(r, p), p[2]) # 0
    BY <1>4, Zenon DEF Third, SameStep
  <2> QED
    BY <1>1, <1>2, <1>3, <2>1, ChildOnce, 2 \in 1 .. 3, Zenon
<1>6. SameStep(Tables!RootFrame(r), Tables!RootFrame(s), p[1], q[1])
  <2>1. /\ Tables!Child(Tables!RootFrame(r), p[1]) = Tables!Child(Tables!RootFrame(s), q[1])
        /\ Tables!Child(Tables!RootFrame(r), p[1]) # 0
    BY <1>5, Zenon DEF Second, SameStep
  <2>2. /\ AtLevel(lv, rt, Tables!RootFrame(r), r, 1)
        /\ AtLevel(lv, rt, Tables!RootFrame(s), s, 1)
    BY RootAtLevel, Zenon
  <2> QED
    BY <1>1, <2>1, <2>2, ChildOnce, 1 \in 1 .. 3, Zenon
<1>7. r = s
  <2>1. rt[Tables!RootFrame(r)] = r /\ rt[Tables!RootFrame(s)] = s
    BY Zenon DEF Tree, TreeRoots
  <2> QED
    BY <1>6, <2>1, Zenon DEF SameStep
<1>8. p = q
  <2>1. p \in [1 .. 4 -> Index] /\ q \in [1 .. 4 -> Index]
    BY Zenon DEF PagingFits
  <2>2. \A k \in 1 .. 4 : p[k] = q[k]
    BY <1>4, <1>5, <1>6 DEF SameStep
  <2> QED
    BY <2>1, <2>2
<1> QED
  BY <1>7, <1>8, Zenon

(* What changes no entry above the last level leaves the walks as they are. *)
SameAbove(lv) == /\ Linked' = Linked
                 /\ \A t \in Linked, i \in Index : lv[t] < 4 => mem'[t][i] = mem[t][i]

LEMMA TreeKept ==
  ASSUME NEW lv, NEW rt, Tree(lv, rt), SameAbove(lv)
  PROVE  Tree(lv, rt)'
<1>1. TreeTypes(lv, rt)' /\ TreeRoots(lv, rt)'
  BY Zenon DEF SameAbove, Tree, TreeTypes, TreeRoots
<1>2. \A t \in Linked, i \in Index :
        lv[t] < 4 => (Points(t, i)' <=> Points(t, i)) /\ To(t, i)' = To(t, i)
  BY Zenon DEF SameAbove, Points, To
<1>3. TreeDown(lv, rt)'
  <2>1. \A t \in Linked, i \in Index :
          lv[t] < 4 /\ Points(t, i)' =>
            /\ To(t, i)' \in Linked /\ lv[To(t, i)'] = lv[t] + 1
            /\ rt[To(t, i)'] = rt[t]
    BY <1>2, Zenon DEF Tree, TreeDown
  <2>2. Linked' = Linked
    BY Zenon DEF SameAbove
  <2> QED
    BY <2>1, <2>2, Zenon DEF TreeDown
<1>4. TreeOnce(lv)'
  <2>1. \A t, u \in Linked, i, j \in Index :
          lv[t] < 4 /\ lv[u] < 4 /\ Points(t, i)' /\ Points(u, j)' /\ To(t, i)' = To(u, j)' =>
            t = u /\ i = j
    BY <1>2, Zenon DEF Tree, TreeOnce
  <2>2. Linked' = Linked
    BY Zenon DEF SameAbove
  <2> QED
    BY <2>1, <2>2, Zenon DEF TreeOnce
<1>5. TreeUp(lv)'
  <2>1. \A f \in Linked :
          lv[f] # 1 => \E t \in Linked, i \in Index : lv[t] < 4 /\ Points(t, i)' /\ To(t, i)' = f
    <3> SUFFICES ASSUME NEW f \in Linked, lv[f] # 1
                 PROVE  \E t \in Linked, i \in Index : lv[t] < 4 /\ Points(t, i)' /\ To(t, i)' = f
      BY Zenon
    <3>1. PICK t \in Linked, i \in Index : lv[t] < 4 /\ Points(t, i) /\ To(t, i) = f
      BY Zenon DEF Tree, TreeUp
    <3> QED
      BY <1>2, <3>1, Zenon
  <2>2. Linked' = Linked
    BY Zenon DEF SameAbove
  <2> QED
    BY <2>1, <2>2, Zenon DEF TreeUp
<1> QED
  BY <1>1, <1>3, <1>4, <1>5, Zenon DEF Tree

LEMMA ChildKept ==
  ASSUME NEW lv, NEW rt, SameAbove(lv), NEW t, NEW r, NEW l \in 1 .. 3,
         AtLevel(lv, rt, t, r, l), NEW i \in Index
  PROVE  Tables!Child(t, i)' = Tables!Child(t, i)
<1>1. CASE t = 0
  BY <1>1, Zenon DEF Tables!Child, Tables!Nothing
<1>2. CASE t \in Linked /\ lv[t] = l
  <2>1. lv[t] < 4
    BY <1>2
  <2> QED
    BY <1>2, <2>1, Zenon DEF SameAbove, Tables!Child, Tables!Nothing
<1> QED
  BY <1>1, <1>2, Zenon DEF AtLevel

LEMMA WalkKept ==
  ASSUME PagingFits, NEW lv, NEW rt, Tree(lv, rt), SameAbove(lv),
         NEW r \in Roots, NEW p \in Pages
  PROVE  /\ Second(r, p)' = Second(r, p) /\ Third(r, p)' = Third(r, p)
         /\ Tables!TableOf(r, p)' = Tables!TableOf(r, p)
         /\ Tables!RootFrame(r)' = Tables!RootFrame(r)
<1>1. p[1] \in Index /\ p[2] \in Index /\ p[3] \in Index
  BY Indices, Zenon
<1>2. /\ AtLevel(lv, rt, Second(r, p), r, 2) /\ AtLevel(lv, rt, Third(r, p), r, 3)
      /\ Tables!TableOf(r, p) = Tables!Child(Third(r, p), p[3])
      /\ AtLevel(lv, rt, Tables!RootFrame(r), r, 1)
  BY WalkLevels, RootAtLevel, Zenon
<1>3. Tables!RootFrame(r)' = Tables!RootFrame(r)
  BY Zenon DEF Tables!RootFrame
<1>4. Second(r, p)' = Second(r, p)
  <2>1. Tables!Child(Tables!RootFrame(r), p[1])' = Tables!Child(Tables!RootFrame(r), p[1])
    <3> DEFINE t == Tables!RootFrame(r)
    <3>1. t' = t /\ AtLevel(lv, rt, t, r, 1)
      BY <1>2, <1>3, Zenon
    <3>2. PICK u : u = t
      BY Zenon
    <3>3. Tables!Child(u, p[1])' = Tables!Child(u, p[1])
      BY <1>1, <3>1, <3>2, ChildKept, 1 \in 1 .. 3, Zenon
    <3> QED
      BY <3>1, <3>2, <3>3, Zenon
  <2> QED
    BY <2>1, Zenon DEF Second
<1>5. Third(r, p)' = Third(r, p)
  <2>1. PICK u : u = Second(r, p)
    BY Zenon
  <2>2. Tables!Child(u, p[2])' = Tables!Child(u, p[2])
    BY <1>1, <1>2, <2>1, ChildKept, 2 \in 1 .. 3, Zenon
  <2> QED
    BY <1>4, <2>1, <2>2, Zenon DEF Third
<1>6. Tables!TableOf(r, p)' = Tables!TableOf(r, p)
  <2>1. PICK u : u = Third(r, p)
    BY Zenon
  <2>2. Tables!Child(u, p[3])' = Tables!Child(u, p[3])
    BY <1>1, <1>2, <2>1, ChildKept, 3 \in 1 .. 3, Zenon
  <2>3. Tables!TableOf(r, p)' = Tables!Child(Third(r, p), p[3])'
    BY Zenon DEF Tables!TableOf, Third, Second
  <2> QED
    BY <1>2, <1>5, <2>1, <2>2, <2>3, Zenon
<1> QED
  BY <1>3, <1>4, <1>5, <1>6, Zenon

-----------------------------------------------------------------------------
(* The tables that are reached from a root are those that have it as theirs.*)

(* Paging counts with the operator of its own FiniteSets, the same one.      *)
LEMMA SameCount ==
  ASSUME NEW S PROVE Tables!Cardinality(S) = Cardinality(S)
BY Zenon DEF Tables!Cardinality, Cardinality

LEMMA BelowIs ==
  ASSUME NEW lv, NEW rt, Tree(lv, rt), NEW r, NEW l \in 1 .. 3, NEW m, m = l + 1,
         NEW S, S = {t \in Linked : lv[t] = l /\ rt[t] = r}
  PROVE  Tables!Below(S) = {t \in Linked : lv[t] = m /\ rt[t] = r}
<1>1. ASSUME NEW f \in Tables!Below(S)
      PROVE  f \in Linked /\ lv[f] = m /\ rt[f] = r
  <2>1. PICK t \in S, i \in Index : f = Tables!Child(t, i) /\ f # 0
    BY <1>1 DEF Tables!Below, Tables!Nothing
  <2>2. AtLevel(lv, rt, t, r, l)
    BY Zenon DEF AtLevel
  <2>3. AtLevel(lv, rt, Tables!Child(t, i), r, m)
    BY <2>2, ChildAtLevel, Zenon
  <2> QED
    BY <2>1, <2>3, Zenon DEF AtLevel
<1>2. ASSUME NEW f \in Linked, lv[f] = m, rt[f] = r
      PROVE  f \in Tables!Below(S)
  <2>1. lv[f] # 1 /\ f # 0
    BY <1>2 DEF Linked
  <2>2. PICK t \in Linked, i \in Index : lv[t] < 4 /\ Points(t, i) /\ To(t, i) = f
    BY <2>1, Zenon DEF Tree, TreeUp
  <2>3. StepsDown(lv, rt, t, i)
    BY <2>2, ChildIs, Zenon
  <2>4. Tables!Child(t, i) = f /\ lv[f] = lv[t] + 1 /\ rt[f] = rt[t]
    BY <2>2, <2>3, Zenon DEF StepsDown
  <2>5. lv[t] \in 1 .. 4
    BY LevelBounds, Zenon DEF Tree
  <2>6. t \in S
    BY <1>2, <2>4, <2>5
  <2> QED
    BY <2>1, <2>4, <2>6, <2>2 DEF Tables!Below, Tables!Nothing
<1> QED
  BY <1>1, <1>2, Zenon

LEMMA TablesReached ==
  ASSUME NEW lv, NEW rt, Tree(lv, rt), NEW r \in Roots
  PROVE  Tables!TablesAt(r) = {t \in Linked : rt[t] = r}
<1> DEFINE L(l) == {t \in Linked : lv[t] = l /\ rt[t] = r}
<1>1. {Tables!RootFrame(r)} = L(1)
  BY Zenon DEF Tree, TreeRoots
<1>2. Tables!Below({Tables!RootFrame(r)}) = L(2)
  BY <1>1, BelowIs, 1 \in 1 .. 3, 2 = 1 + 1
<1>3. Tables!Below(L(2)) = L(3)
  BY BelowIs, 2 \in 1 .. 3, 3 = 2 + 1
<1>4. Tables!Below(L(3)) = L(4)
  BY BelowIs, 3 \in 1 .. 3, 4 = 3 + 1
<1>5. Tables!TablesAt(r) = L(1) \cup L(2) \cup L(3) \cup L(4)
  BY <1>1, <1>2, <1>3, <1>4, Zenon DEF Tables!TablesAt
<1>6. \A t \in Linked : lv[t] \in 1 .. 4
  BY LevelBounds, Zenon DEF Tree
<1>7. \A t \in Linked : lv[t] = 1 \/ lv[t] = 2 \/ lv[t] = 3 \/ lv[t] = 4
  BY <1>6
<1> QED
  BY <1>5, <1>7, Zenon

(* Only one CPU walks, so at most one frame waits to be linked.             *)
Linking == {c \in Cpu : op[c] # Tables!Idle /\ op[c].pc = "link"}

LEMMA OneWalks ==
  ASSUME TablesTypes, NEW c \in Cpu, op[c] # Tables!Idle
  PROVE  /\ op[c].pc = "link" => Linking = {c} /\ Unlinked = {op[c].found}
         /\ op[c].pc # "link" => Linking = {} /\ Unlinked = {}
<1>1. \A d \in Cpu : op[d] # Tables!Idle => d = c
  BY Zenon DEF TablesTypes
<1>2. op[c].pc = "link" => Linking = {c}
  BY <1>1, Zenon DEF Linking
<1>3. op[c].pc # "link" => Linking = {}
  BY <1>1, Zenon DEF Linking
<1>4. Unlinked = {op[d].found : d \in Linking}
  BY Zenon DEF Unlinked, Linking
<1> QED
  BY <1>2, <1>3, <1>4, Zenon

LEMMA NoneWalks ==
  ASSUME \A c \in Cpu : op[c] = Tables!Idle
  PROVE  Linking = {} /\ Unlinked = {}
BY Zenon DEF Linking, Unlinked

LEMMA UsedIsNat ==
  ASSUME PagingFits, TablesTypes
  PROVE  used \in Nat /\ used >= 2 /\ used <= MaxFrames /\ Cardinality(Index) \in Nat
<1>1. Cardinality(Index) \in Nat
  BY FS_CardinalityType, Zenon DEF PagingFits
<1> QED
  BY <1>1, SameCount DEF TablesTypes, PagingFits, Tables!InitialFrames

LEMMA CountIs ==
  ASSUME PagingFits, TablesTypes, NEW lv, NEW rt, TablesOK(lv, rt)
  PROVE  Cardinality(Linked) + Cardinality(Linking) = used
<1>1. used \in Nat
  BY UsedIsNat, Zenon
<1>2. IsFiniteSet(1 .. used) /\ Cardinality(1 .. used) = used
  BY <1>1, FS_Interval
<1>3. CASE \A c \in Cpu : op[c] = Tables!Idle
  <2>1. Linking = {} /\ Linked = 1 .. used
    BY <1>3, NoneWalks, Zenon DEF Linked
  <2> QED
    BY <1>1, <1>2, <2>1, FS_EmptySet
<1>4. CASE \E c \in Cpu : op[c] # Tables!Idle
  <2>1. PICK c \in Cpu : op[c] # Tables!Idle
    BY <1>4, Zenon
  <2>2. CASE op[c].pc # "link"
    <3>1. Linking = {} /\ Linked = 1 .. used
      BY <2>1, <2>2, OneWalks, Zenon DEF Linked
    <3> QED
      BY <1>1, <1>2, <3>1, FS_EmptySet
  <2>3. CASE op[c].pc = "link"
    <3>1. Linking = {c} /\ Unlinked = {op[c].found}
      BY <2>1, <2>3, OneWalks, Zenon
    <3>2. op[c].found = used
      BY <2>1, <2>3, Zenon DEF TablesOK, Walking
    <3>3. Linked = (1 .. used) \ {used}
      BY <3>1, <3>2, Zenon DEF Linked
    <3>4. used \in 1 .. used
      <4>1. Tables!RootFrame(Src) \in Linked
        BY Zenon DEF TablesOK, Tree, TreeRoots, Roots
      <4> QED
        BY <1>1, <4>1 DEF Linked
    <3>5. Cardinality(Linked) = used - 1
      BY <1>2, <3>3, <3>4, FS_RemoveElement, Zenon
    <3>6. Cardinality(Linking) = 1
      BY <3>1, FS_Singleton, Zenon
    <3> QED
      BY <1>1, <3>5, <3>6
  <2> QED
    BY <2>2, <2>3, Zenon
<1> QED
  BY <1>3, <1>4, Zenon

LEMMA OverheadIs ==
  ASSUME PagingFits, TablesTypes, NEW lv, NEW rt, TablesOK(lv, rt)
  PROVE  Tables!OverheadExact
<1>1. Tree(lv, rt)
  BY Zenon DEF TablesOK
<1> DEFINE A == {t \in Linked : rt[t] = Src}
           B == {t \in Linked : rt[t] = Dst}
<1>2. Tables!TablesAt(Src) = A /\ Tables!TablesAt(Dst) = B
  BY <1>1, TablesReached, Zenon DEF Roots
<1>3. A \cup B = Linked /\ A \cap B = {}
  BY <1>1, Zenon DEF Tree, TreeTypes, Roots, PagingFits
<1>4. IsFiniteSet(Linked)
  <2>1. used \in Nat
    BY UsedIsNat, Zenon
  <2>2. IsFiniteSet(1 .. used)
    BY <2>1, FS_Interval
  <2> QED
    BY <2>2, FS_Subset, Zenon DEF Linked
<1>5. IsFiniteSet(A) /\ IsFiniteSet(B)
  BY <1>4, FS_Subset, Zenon
<1> HIDE DEF A, B
<1>6. Cardinality(A) + Cardinality(B) = Cardinality(Linked)
  <2>1. Cardinality(A \cup B) = Cardinality(A) + Cardinality(B) - Cardinality(A \cap B)
    BY <1>5, FS_Union, Zenon
  <2>2. Cardinality(A \cap B) = 0
    BY <1>3, FS_EmptySet, Zenon
  <2>3. Cardinality(A) \in Nat /\ Cardinality(B) \in Nat
    BY <1>5, FS_CardinalityType, Zenon
  <2> QED
    BY <1>3, <2>1, <2>2, <2>3
<1>7. Tables!count_map_tables_frames = Cardinality(A) + Cardinality(B)
  BY <1>2, SameCount, Zenon DEF Tables!count_map_tables_frames
<1>8. Cardinality(Linked) + Cardinality(Linking) = used
  BY CountIs, Zenon
<1>9. Tables!count_map_tables_frames + Cardinality(Linking) = used
  BY <1>6, <1>7, <1>8, Zenon
<1> QED
  BY <1>9, SameCount, Zenon DEF Tables!OverheadExact, Linking

LEMMA TablesFollow ==
  ASSUME PagingFits, TablesInv
  PROVE  Tables!TablesSound
<1>1. PICK lv, rt : TablesOK(lv, rt)
  BY Zenon DEF TablesInv
<1>2. TablesTypes
  BY Zenon DEF TablesInv
<1>3. Tables!OverheadExact
  BY <1>1, <1>2, OverheadIs, Zenon
<1>4. Tables!TypeOK
  <2>1. used \in Tables!InitialFrames .. MaxFrames
    BY <1>2, Zenon DEF TablesTypes
  <2>2. \A f \in 1 .. used, i \in Index : mem[f][i] \in TableEntry
    <3>1. 1 .. used \subseteq Frames
      BY <2>1 DEF PagingFits, Tables!InitialFrames, Frames
    <3> QED
      BY <1>2, <3>1, Zenon DEF TablesTypes
  <2>3. \A c \in Cpu : op[c] = Tables!Idle \/ (op[c].level \in 1 .. 4 /\ op[c].table \in Frames)
    BY <1>2, Zenon DEF TablesTypes, OpRecord
  <2> QED
    BY <2>1, <2>2, <2>3, Zenon DEF Tables!TypeOK, Tables!Frames, Tables!Levels, Tables!Nothing,
       Frames, TableEntry
<1> QED
  BY <1>3, <1>4, Zenon DEF Tables!TablesSound

-----------------------------------------------------------------------------
(* The structures as they are created.                                      *)

LEMMA CountIndex ==
  ASSUME PagingFits
  PROVE  /\ Cardinality(Index) \in Nat /\ Index = 0 .. Cardinality(Index) - 1
         /\ Tables!InitialFrames = 2 + 2 * Cardinality(Index)
         /\ \A i \in Index : Tables!FirstTable(Src, i) = 3 + i
         /\ \A i \in Index : Tables!FirstTable(Dst, i) = 3 + Cardinality(Index) + i
<1>1. Cardinality(Index) \in Nat
  BY FS_CardinalityType, Zenon DEF PagingFits
<1>2. Tables!Cardinality(Index) = Cardinality(Index)
  BY SameCount, Zenon
<1>3. Index = 0 .. Cardinality(Index) - 1 /\ Src # Dst
  BY Zenon DEF PagingFits
<1>4. \A i \in Index : i \in Int
  BY <1>1, <1>3
<1>5. \A i \in Index : Tables!FirstTable(Src, i) = 3 + i
  BY <1>4 DEF Tables!FirstTable
<1> QED
  BY <1>1, <1>2, <1>3, <1>4, <1>5 DEF Tables!FirstTable, Tables!InitialFrames

LEMMA InitialTables ==
  ASSUME PagingFits, Tables!Init
  PROVE  /\ mem \in [Frames -> [Index -> TableEntry]]
         /\ \A i \in Index : /\ mem[1][i].present /\ mem[1][i].to = 3 + i
                             /\ mem[2][i].present /\ mem[2][i].to = 3 + Cardinality(Index) + i
         /\ \A f \in 3 .. Tables!InitialFrames, i \in Index : ~mem[f][i].present
<1> DEFINE n == Cardinality(Index)
<1>1. /\ n \in Nat /\ Index = 0 .. n - 1
      /\ Tables!InitialFrames = 2 + 2 * n
      /\ \A i \in Index : Tables!FirstTable(Src, i) = 3 + i
      /\ \A i \in Index : Tables!FirstTable(Dst, i) = 3 + n + i
  BY CountIndex, Zenon
<1>2. MaxFrames \in Nat /\ 2 + 2 * n <= MaxFrames /\ Src # Dst
  BY <1>1, Zenon DEF PagingFits
<1> HIDE DEF n
<1>3. Tables!RootFrame(Src) = 1 /\ Tables!RootFrame(Dst) = 2 /\ Tables!Roots = {Src, Dst}
  BY <1>2, Zenon DEF Tables!RootFrame, Tables!Roots
<1>4. Tables!Frames = Frames
  BY Zenon DEF Tables!Frames, Frames
<1>5. mem = Tables!InitialMem
  BY Zenon DEF Tables!Init
<1>6. ASSUME NEW r \in Tables!Roots, NEW f \in Frames, f = Tables!RootFrame(r)
      PROVE  mem[f] = [i \in Index |-> [to |-> Tables!FirstTable(r, i), present |-> TRUE]]
  <2>1. \A s \in Tables!Roots : f = Tables!RootFrame(s) <=> s = r
    BY <1>2, <1>3, <1>6
  <2>2. (CHOOSE s \in Tables!Roots : f = Tables!RootFrame(s)) = r
    BY <2>1, Zenon
  <2>3. \E s \in Tables!Roots : f = Tables!RootFrame(s)
    BY <1>6, Zenon
  <2> QED
    BY <1>4, <1>5, <2>2, <2>3, Zenon DEF Tables!InitialMem
<1>7. ASSUME NEW f \in Frames, f # 1, f # 2
      PROVE  mem[f] = IF f <= Tables!InitialFrames THEN Tables!Zero ELSE Tables!Garbage
  <2>1. ~\E s \in Tables!Roots : f = Tables!RootFrame(s)
    BY <1>3, <1>7, Zenon
  <2> QED
    BY <1>4, <1>5, <2>1, Zenon DEF Tables!InitialMem
<1>8. 1 \in Frames /\ 2 \in Frames
  BY <1>1, <1>2 DEF Frames
<1>9. \A i \in Index : /\ mem[1][i].present /\ mem[1][i].to = 3 + i
                       /\ mem[2][i].present /\ mem[2][i].to = 3 + n + i
  <2>1. mem[1] = [i \in Index |-> [to |-> Tables!FirstTable(Src, i), present |-> TRUE]]
    BY <1>3, <1>6, <1>8, Zenon
  <2>2. mem[2] = [i \in Index |-> [to |-> Tables!FirstTable(Dst, i), present |-> TRUE]]
    BY <1>3, <1>6, <1>8, Zenon
  <2> QED
    BY <1>1, <2>1, <2>2
<1>10. \A f \in 3 .. Tables!InitialFrames, i \in Index : ~mem[f][i].present
  <2> SUFFICES ASSUME NEW f \in 3 .. Tables!InitialFrames, NEW i \in Index
               PROVE  ~mem[f][i].present
    BY Zenon
  <2>1. f \in Frames /\ f # 1 /\ f # 2 /\ f <= Tables!InitialFrames
    BY <1>1, <1>2 DEF Frames
  <2>2. mem[f] = Tables!Zero
    BY <1>7, <2>1, Zenon
  <2> QED
    BY <2>2 DEF Tables!Zero
<1>11. mem \in [Frames -> [Index -> TableEntry]]
  <2>1. mem = [f \in Frames |-> mem[f]]
    BY <1>4, <1>5, Zenon DEF Tables!InitialMem
  <2>2. ASSUME NEW f \in Frames
        PROVE  mem[f] \in [Index -> TableEntry]
    <3>1. CASE f = 1
      <4>1. mem[f] = [i \in Index |-> [to |-> Tables!FirstTable(Src, i), present |-> TRUE]]
        BY <1>3, <1>6, <1>8, <3>1, Zenon
      <4>2. \A i \in Index : Tables!FirstTable(Src, i) \in Frames
        BY <1>1, <1>2 DEF Frames
      <4> QED
        BY <4>1, <4>2 DEF TableEntry
    <3>2. CASE f = 2
      <4>1. mem[f] = [i \in Index |-> [to |-> Tables!FirstTable(Dst, i), present |-> TRUE]]
        BY <1>3, <1>6, <1>8, <3>2, Zenon
      <4>2. \A i \in Index : Tables!FirstTable(Dst, i) \in Frames
        BY <1>1, <1>2 DEF Frames
      <4> QED
        BY <4>1, <4>2 DEF TableEntry
    <3>3. CASE f # 1 /\ f # 2
      <4>1. [to |-> 0, present |-> FALSE] \in TableEntry /\ [to |-> 1, present |-> TRUE] \in TableEntry
        BY <1>8, Zenon DEF TableEntry
      <4>2. Tables!Zero \in [Index -> TableEntry] /\ Tables!Garbage \in [Index -> TableEntry]
        BY <4>1, Zenon DEF Tables!Zero, Tables!Garbage, Tables!Nothing
      <4> QED
        BY <1>7, <3>3, <4>2, Zenon
    <3> QED
      BY <3>1, <3>2, <3>3, Zenon
  <2> QED
    BY <2>1, <2>2, Zenon
<1> QED
  BY <1>9, <1>10, <1>11, Zenon DEF n

LEMMA TablesStart ==
  ASSUME PagingFits, Tables!Init
  PROVE  TablesInv
<1> DEFINE n == Cardinality(Index)
<1>1. n \in Nat /\ Index = 0 .. n - 1 /\ Tables!InitialFrames = 2 + 2 * n
  BY CountIndex, Zenon
<1>2. MaxFrames \in Nat /\ 2 + 2 * n <= MaxFrames /\ Src # Dst
  BY <1>1, Zenon DEF PagingFits
<1>3. /\ mem \in [Frames -> [Index -> TableEntry]]
      /\ \A i \in Index : /\ mem[1][i].present /\ mem[1][i].to = 3 + i
                          /\ mem[2][i].present /\ mem[2][i].to = 3 + n + i
      /\ \A f \in 3 .. Tables!InitialFrames, i \in Index : ~mem[f][i].present
  BY InitialTables, Zenon
<1> HIDE DEF n
<1>4. used = 2 + 2 * n /\ op = [c \in Cpu |-> Tables!Idle]
  BY <1>1, Zenon DEF Tables!Init
<1>5. \A c \in Cpu : op[c] = Tables!Idle
  BY <1>4, Zenon
<1>6. TablesTypes
  BY <1>1, <1>2, <1>3, <1>4, <1>5 DEF TablesTypes
<1>7. Linked = 1 .. 2 + 2 * n
  BY <1>4, <1>5, NoneWalks, Zenon DEF Linked
<1> DEFINE lv == [t \in Linked |-> IF t <= 2 THEN 1 ELSE 2]
           rt == [t \in Linked |-> IF t = 1 \/ (2 < t /\ t <= 2 + n) THEN Src ELSE Dst]
<1>8. Tables!RootFrame(Src) = 1 /\ Tables!RootFrame(Dst) = 2
  BY <1>2, Zenon DEF Tables!RootFrame
<1>9. \A t \in Linked, i \in Index :
        Points(t, i) =>
          \/ t = 1 /\ lv[t] = 1 /\ rt[t] = Src /\ To(t, i) = 3 + i
          \/ t = 2 /\ lv[t] = 1 /\ rt[t] = Dst /\ To(t, i) = 3 + n + i
  <2> SUFFICES ASSUME NEW t \in Linked, NEW i \in Index, Points(t, i)
               PROVE  \/ t = 1 /\ lv[t] = 1 /\ rt[t] = Src /\ To(t, i) = 3 + i
                      \/ t = 2 /\ lv[t] = 1 /\ rt[t] = Dst /\ To(t, i) = 3 + n + i
    BY Zenon
  <2>1. t = 1 \/ t = 2 \/ t \in 3 .. Tables!InitialFrames
    BY <1>1, <1>7
  <2>2. t \notin 3 .. Tables!InitialFrames
    BY <1>3, Zenon DEF Points
  <2>3. t = 1 => To(t, i) = 3 + i
    BY <1>3, Zenon DEF To
  <2>4. t = 2 => To(t, i) = 3 + n + i
    BY <1>3, Zenon DEF To
  <2>5. (t = 1 => lv[t] = 1 /\ rt[t] = Src) /\ (t = 2 => lv[t] = 1 /\ rt[t] = Dst)
    OBVIOUS
  <2> QED
    BY <2>1, <2>2, <2>3, <2>4, <2>5, Zenon
<1>10. /\ \A t \in Linked : t \in Int /\ 1 <= t /\ t <= 2 + 2 * n
       /\ \A i \in Index : i \in Int /\ 0 <= i /\ i <= n - 1
  BY <1>1, <1>7
<1>11. TreeTypes(lv, rt)
  BY DEF TreeTypes, Roots
<1>12. TreeRoots(lv, rt)
  <2>1. 1 \in Linked /\ 2 \in Linked
    BY <1>1, <1>7
  <2>2. lv[1] = 1 /\ lv[2] = 1 /\ rt[1] = Src /\ rt[2] = Dst
    BY <2>1
  <2>3. \A t \in Linked : lv[t] = 1 => t = 1 \/ t = 2
    BY <1>10
  <2> QED
    BY <1>8, <2>1, <2>2, <2>3, Zenon DEF TreeRoots, Roots
<1>13. TreeDown(lv, rt)
  <2> SUFFICES ASSUME NEW t \in Linked, NEW i \in Index, Points(t, i)
               PROVE  To(t, i) \in Linked /\ lv[To(t, i)] = lv[t] + 1 /\ rt[To(t, i)] = rt[t]
    BY Zenon DEF TreeDown
  <2>1. CASE t = 1 /\ lv[t] = 1 /\ rt[t] = Src /\ To(t, i) = 3 + i
    <3>1. 3 + i \in Linked /\ ~(3 + i <= 2) /\ 3 + i <= 2 + n /\ 2 < 3 + i
      BY <1>1, <1>7, <1>10
    <3> QED
      BY <2>1, <3>1
  <2>2. CASE t = 2 /\ lv[t] = 1 /\ rt[t] = Dst /\ To(t, i) = 3 + n + i
    <3>1. 3 + n + i \in Linked /\ ~(3 + n + i <= 2) /\ ~(3 + n + i <= 2 + n) /\ 3 + n + i # 1
      BY <1>1, <1>7, <1>10
    <3> QED
      BY <2>2, <3>1
  <2> QED
    BY <1>9, <2>1, <2>2, Zenon
<1>14. TreeOnce(lv)
  <2> SUFFICES ASSUME NEW t \in Linked, NEW u \in Linked, NEW i \in Index, NEW j \in Index,
                      Points(t, i), Points(u, j), To(t, i) = To(u, j)
               PROVE  t = u /\ i = j
    BY Zenon DEF TreeOnce
  <2>1. (t = 1 /\ To(t, i) = 3 + i) \/ (t = 2 /\ To(t, i) = 3 + n + i)
    BY <1>9, Zenon
  <2>2. (u = 1 /\ To(u, j) = 3 + j) \/ (u = 2 /\ To(u, j) = 3 + n + j)
    BY <1>9, Zenon
  <2> QED
    BY <1>1, <1>10, <2>1, <2>2
<1>15. TreeUp(lv)
  <2> SUFFICES ASSUME NEW f \in Linked, lv[f] # 1
               PROVE  \E t \in Linked, i \in Index : lv[t] < 4 /\ Points(t, i) /\ To(t, i) = f
    BY Zenon DEF TreeUp
  <2>1. 2 < f /\ f <= 2 + 2 * n
    BY <1>10
  <2>2. 1 \in Linked /\ 2 \in Linked /\ lv[1] < 4 /\ lv[2] < 4
    BY <1>1, <1>7
  <2>3. CASE f <= 2 + n
    <3>1. PICK i \in Index : f = 3 + i
      <4>1. f - 3 \in Index /\ f = 3 + (f - 3)
        BY <1>1, <1>10, <2>1, <2>3
      <4> QED
        BY <4>1, Zenon
    <3> HIDE DEF lv
    <3>2. Points(1, i) /\ To(1, i) = f
      BY <1>3, <3>1, Zenon DEF Points, To
    <3> QED
      BY <2>2, <3>1, <3>2, Zenon
  <2>4. CASE f > 2 + n
    <3>1. PICK i \in Index : f = 3 + n + i
      <4>1. f - 3 - n \in Index /\ f = 3 + n + (f - 3 - n)
        BY <1>1, <1>10, <2>1, <2>4
      <4> QED
        BY <4>1, Zenon
    <3> HIDE DEF lv
    <3>2. Points(2, i) /\ To(2, i) = f
      BY <1>3, <3>1, Zenon DEF Points, To
    <3> QED
      BY <2>2, <3>1, <3>2, Zenon
  <2> QED
    BY <1>1, <1>10, <2>3, <2>4
<1>16. TablesOK(lv, rt)
  BY <1>5, <1>11, <1>12, <1>13, <1>14, <1>15, Zenon DEF TablesOK, Tree
<1> QED
  BY <1>6, <1>16, Zenon DEF TablesInv

-----------------------------------------------------------------------------
(* The steps.                                                               *)

(* What the hardware finds for every page stays.                            *)
SameSpace ==
  \A r \in Roots, p \in Pages :
    Tables!get_physical_address(r, p)' = Tables!get_physical_address(r, p)

LEMMA ReachedKept ==
  ASSUME PagingFits, NEW lv, NEW rt, Tree(lv, rt), SameAbove(lv),
         NEW r \in Roots, NEW p \in Pages, NEW l \in 1 .. 4
  PROVE  Reached(r, p, l)' = Reached(r, p, l)
<1>1. /\ Second(r, p)' = Second(r, p) /\ Third(r, p)' = Third(r, p)
      /\ Tables!TableOf(r, p)' = Tables!TableOf(r, p)
      /\ Tables!RootFrame(r)' = Tables!RootFrame(r)
  BY WalkKept, Zenon
<1>2. l = 1 \/ l = 2 \/ l = 3 \/ l = 4
  OBVIOUS
<1> QED
  BY <1>1, <1>2, Zenon DEF Reached

LEMMA SpaceKept ==
  ASSUME PagingFits, NEW lv, NEW rt, Tree(lv, rt), SameAbove(lv),
         \A t \in Linked : mem'[t] = mem[t]
  PROVE  SameSpace
<1> SUFFICES ASSUME NEW r \in Roots, NEW p \in Pages
             PROVE  Tables!get_physical_address(r, p)' = Tables!get_physical_address(r, p)
  BY Zenon DEF SameSpace
<1>1. Tables!TableOf(r, p)' = Tables!TableOf(r, p)
  BY WalkKept, Zenon
<1>2. AtLevel(lv, rt, Tables!TableOf(r, p), r, 4)
  BY WalkLevels, Zenon
<1>3. Tables!TableOf(r, p) # 0 => mem'[Tables!TableOf(r, p)] = mem[Tables!TableOf(r, p)]
  BY <1>2, Zenon DEF AtLevel
<1> QED
  BY <1>1, <1>3, Zenon DEF Tables!get_physical_address, Tables!Nothing, Tables!Levels

Others(c) == \A d \in Cpu : d # c => op[d] = Tables!Idle

LEMMA Sole ==
  ASSUME TablesTypes, NEW c \in Cpu, op[c] # Tables!Idle
  PROVE  Others(c)
BY Zenon DEF TablesTypes, Others

(* What a CPU does next, as long as no other does anything.                 *)
Goes(c, o) ==
  /\ op' \in [Cpu -> OpRecord \cup {Tables!Idle}] /\ op'[c] = o
  /\ \A d \in Cpu : d # c => op'[d] = Tables!Idle
  /\ \A d, e \in Cpu : op'[d] # Tables!Idle /\ op'[e] # Tables!Idle => d = e
  /\ (o # Tables!Idle /\ o.pc = "link") => Unlinked' = {o.found}
  /\ (o = Tables!Idle \/ o.pc # "link") => Unlinked' = {}

LEMMA GoesOn ==
  ASSUME TablesTypes, NEW c \in Cpu, Others(c), NEW o \in OpRecord \cup {Tables!Idle},
         op' = [op EXCEPT ![c] = o]
  PROVE  Goes(c, o)
<1>1. op \in [Cpu -> OpRecord \cup {Tables!Idle}]
  BY Zenon DEF TablesTypes
<1>2. op' \in [Cpu -> OpRecord \cup {Tables!Idle}] /\ op'[c] = o
  BY <1>1, Zenon
<1>3. \A d \in Cpu : d # c => op'[d] = Tables!Idle
  BY <1>1, Zenon DEF Others
<1>4. \A d, e \in Cpu : op'[d] # Tables!Idle /\ op'[e] # Tables!Idle => d = e
  BY <1>3, Zenon
<1> DEFINE L == {d \in Cpu : op'[d] # Tables!Idle /\ op'[d].pc = "link"}
<1>5. Unlinked' = {op'[d].found : d \in L}
  BY Zenon DEF Unlinked
<1>6. (o # Tables!Idle /\ o.pc = "link") => L = {c}
  BY <1>2, <1>3, Zenon
<1>7. (o = Tables!Idle \/ o.pc # "link") => L = {}
  BY <1>2, <1>3, Zenon
<1> HIDE DEF L
<1> QED
  BY <1>2, <1>3, <1>4, <1>5, <1>6, <1>7, Zenon DEF Goes

LEMMA NotLinking ==
  ASSUME TablesTypes, NEW c \in Cpu, Others(c), op[c] = Tables!Idle \/ op[c].pc # "link"
  PROVE  Linked = 1 .. used /\ Unlinked = {}
<1>1. Unlinked = {}
  BY Zenon DEF Unlinked, Others
<1> QED
  BY <1>1, Zenon DEF Linked

LEMMA AllWalk ==
  ASSUME NEW lv, NEW rt, NEW c \in Cpu, NEW o, Goes(c, o), Tree(lv, rt)',
         o # Tables!Idle => Walking(lv, rt, o)'
  PROVE  TablesOK(lv, rt)'
<1>1. ASSUME NEW d \in Cpu, op'[d] # Tables!Idle
      PROVE  Walking(lv, rt, op[d])'
  <2>1. d = c /\ op'[d] = o
    BY <1>1, Zenon DEF Goes
  <2>2. Walking(lv, rt, o)'
    BY <1>1, <2>1, Zenon
  <2> QED
    BY <2>1, <2>2, Zenon DEF Walking
<1> QED
  BY <1>1, Zenon DEF TablesOK

(* A step that only changes what the CPU is about to do.                    *)
LEMMA QuietStep ==
  ASSUME PagingFits, TablesTypes, NEW lv, NEW rt, TablesOK(lv, rt), NEW c \in Cpu, Others(c),
         op[c] = Tables!Idle \/ op[c].pc # "link",
         NEW o \in OpRecord, o # Tables!Idle, o.pc # "link", Walking(lv, rt, o),
         op' = [op EXCEPT ![c] = o], mem' = mem, used' = used
  PROVE  TablesTypes' /\ TablesOK(lv, rt)' /\ SameSpace
<1>1. Goes(c, o)
  BY GoesOn, Zenon
<1>2. Linked' = Linked
  <2>1. Linked = 1 .. used
    BY NotLinking, Zenon
  <2>2. Unlinked' = {}
    BY <1>1, Zenon DEF Goes
  <2> QED
    BY <2>1, <2>2, Zenon DEF Linked
<1>3. Tree(lv, rt)
  BY Zenon DEF TablesOK
<1>4. SameAbove(lv)
  BY <1>2, Zenon DEF SameAbove
<1>5. Tree(lv, rt)'
  BY <1>3, <1>4, TreeKept, Zenon
<1>6. SameSpace
  BY <1>3, <1>4, SpaceKept, Zenon
<1>7. o.root \in Roots /\ o.page \in Pages /\ o.level \in 1 .. 4
  BY Zenon DEF OpRecord
<1>8. Reached(o.root, o.page, o.level)' = Reached(o.root, o.page, o.level)
  BY <1>3, <1>4, <1>7, ReachedKept, Zenon
<1>9. Tables!TableOf(Src, o.page)' = Tables!TableOf(Src, o.page)
  BY <1>3, <1>4, <1>7, WalkKept, Zenon DEF Roots
<1>10. Walking(lv, rt, o)'
  BY <1>2, <1>8, <1>9, Zenon DEF Walking, Points
<1>11. TablesOK(lv, rt)'
  BY <1>1, <1>5, <1>10, AllWalk, Zenon
<1>12. TablesTypes'
  BY <1>1, Zenon DEF TablesTypes, Goes
<1> QED
  BY <1>6, <1>11, <1>12, Zenon

LEMMA NotIdle ==
  ASSUME NEW o \in OpRecord PROVE o # Tables!Idle
BY DEF OpRecord, Tables!Idle

LEMMA LinkedFrames ==
  ASSUME PagingFits, TablesTypes, NEW t \in Linked
  PROVE  t \in Frames /\ t \in 1 .. used
BY UsedIsNat DEF Linked, Frames, PagingFits

LEMMA StartStep ==
  ASSUME PagingFits, TablesTypes, NEW lv, NEW rt, TablesOK(lv, rt), NEW c \in Cpu,
         NEW kind \in {"map", "invalidate", "copy"}, NEW r \in Roots, NEW p \in Pages,
         NEW t \in Targets \cup {0}, kind = "map" => t \in Targets, kind = "copy" => r = Src,
         Tables!Start(c, Tables!Begin(kind, r, p, t))
  PROVE  TablesTypes' /\ TablesOK(lv, rt)' /\ SameSpace
<1>1. PICK o : o = Tables!Begin(kind, r, p, t)
  BY Zenon
<1>2. op[c] = Tables!Idle /\ Others(c) /\ op' = [op EXCEPT ![c] = o] /\ mem' = mem /\ used' = used
  BY <1>1, Zenon DEF Tables!Start, Tables!Free, Others, PagingFits
<1>3. /\ Tables!RootFrame(r) \in Linked /\ lv[Tables!RootFrame(r)] = 1
      /\ rt[Tables!RootFrame(r)] = r
  BY Zenon DEF TablesOK, Tree, TreeRoots
<1>4. Tables!RootFrame(r) \in Frames
  BY <1>3, LinkedFrames, Zenon
<1>5. /\ o.kind = kind /\ o.page = p /\ o.target = t /\ o.root = r /\ o.level = 1
      /\ o.table = Tables!RootFrame(r) /\ o.pc = "walk" /\ o \in OpRecord
  BY <1>1, <1>4 DEF Tables!Begin, OpRecord, Tables!Nothing
<1>6. Reached(r, p, 1) = Tables!RootFrame(r)
  BY DEF Reached
<1>7. Src # Dst
  BY Zenon DEF PagingFits
<1>8. Walking(lv, rt, o)
  BY <1>3, <1>5, <1>6, <1>7, Zenon DEF Walking
<1>9. o # Tables!Idle /\ o.pc # "link"
  BY <1>5, NotIdle, Zenon
<1> QED
  BY <1>2, <1>5, <1>8, <1>9, QuietStep, Zenon

(* What a CPU that walks is known to do.                                    *)
LEMMA Walker ==
  ASSUME TablesTypes, NEW lv, NEW rt, TablesOK(lv, rt), NEW c \in Cpu, op[c] # Tables!Idle
  PROVE  /\ op[c] \in OpRecord /\ Others(c) /\ Walking(lv, rt, op[c])
         /\ op[c].root \in Roots /\ op[c].page \in Pages /\ op[c].level \in 1 .. 4
         /\ Tree(lv, rt)
<1>1. op[c] \in OpRecord
  BY Zenon DEF TablesTypes
<1>2. Others(c)
  BY Sole, Zenon
<1> QED
  BY <1>1, <1>2, Zenon DEF TablesOK, OpRecord

LEMMA IndexAt ==
  ASSUME PagingFits, NEW p \in Pages, NEW l \in 1 .. 4
  PROVE  p[l] \in Index
BY Zenon DEF PagingFits

LEMMA PresentStep ==
  ASSUME PagingFits, TablesTypes, NEW lv, NEW rt, TablesOK(lv, rt), NEW c \in Cpu,
         op[c] # Tables!Idle, op[c].pc = "walk", op[c].level < 4, Tables!Present(Tables!At(c)),
         op' = [op EXCEPT ![c].pc = "descend"], mem' = mem, used' = used
  PROVE  TablesTypes' /\ TablesOK(lv, rt)' /\ SameSpace
<1>1. op[c] \in OpRecord /\ Others(c) /\ Walking(lv, rt, op[c])
  BY Walker, Zenon
<1>2. PICK o : o = [op[c] EXCEPT !.pc = "descend"]
  BY Zenon
<1>3. op' = [op EXCEPT ![c] = o]
  BY <1>2, Zenon
<1>4. /\ o \in OpRecord /\ o.kind = op[c].kind /\ o.page = op[c].page /\ o.target = op[c].target
      /\ o.root = op[c].root /\ o.level = op[c].level /\ o.table = op[c].table /\ o.pc = "descend"
  BY <1>1, <1>2, Zenon DEF OpRecord
<1>5. Points(o.table, o.page[o.level])
  BY <1>4, Zenon DEF Tables!Present, Tables!At, Points
<1>6. Walking(lv, rt, o)
  BY <1>1, <1>4, <1>5, Zenon DEF Walking
<1>7. o # Tables!Idle /\ o.pc # "link" /\ op[c].pc # "link"
  BY <1>4, NotIdle, Zenon
<1> QED
  BY <1>1, <1>3, <1>4, <1>6, <1>7, QuietStep, Zenon

LEMMA NextReached ==
  ASSUME NEW r, NEW p, NEW l \in 1 .. 3, NEW m, m = l + 1
  PROVE  Reached(r, p, m) = Tables!Child(Reached(r, p, l), p[l])
<1>1. (l = 1 /\ m = 2) \/ (l = 2 /\ m = 3) \/ (l = 3 /\ m = 4)
  OBVIOUS
<1>2. Tables!TableOf(r, p) = Tables!Child(Third(r, p), p[3])
  BY Zenon DEF Tables!TableOf, Third, Second
<1> QED
  BY <1>1, <1>2 DEF Reached, Second, Third

LEMMA DescendStep ==
  ASSUME PagingFits, TablesTypes, NEW lv, NEW rt, TablesOK(lv, rt), NEW c \in Cpu,
         Tables!Descend(c)
  PROVE  TablesTypes' /\ TablesOK(lv, rt)' /\ SameSpace
<1>1. op[c] # Tables!Idle /\ op[c].pc = "descend" /\ mem' = mem /\ used' = used
  BY Zenon DEF Tables!Descend
<1>2. /\ op[c] \in OpRecord /\ Others(c) /\ Walking(lv, rt, op[c])
      /\ op[c].root \in Roots /\ op[c].page \in Pages /\ op[c].level \in 1 .. 4 /\ Tree(lv, rt)
  BY <1>1, Walker, Zenon
<1>3. PICK t, l, i, p, r, m : /\ t = op[c].table /\ l = op[c].level /\ p = op[c].page
                              /\ i = p[l] /\ r = op[c].root /\ m = l + 1
  BY Zenon
<1>4. /\ l \in 1 .. 3 /\ t \in Linked /\ lv[t] = l /\ rt[t] = r /\ t = Reached(r, p, l)
      /\ Points(t, i) /\ i \in Index /\ m \in 1 .. 4
  <2>1. l < 4 /\ t \in Linked /\ lv[t] = l /\ rt[t] = r /\ t = Reached(r, p, l) /\ Points(t, i)
    BY <1>1, <1>2, <1>3, Zenon DEF Walking
  <2>2. i \in Index
    BY <1>2, <1>3, IndexAt, Zenon
  <2> QED
    BY <1>2, <1>3, <2>1, <2>2
<1>5. PICK u : u = To(t, i)
  BY Zenon
<1>6. StepsDown(lv, rt, t, i)
  <2>1. lv[t] < 4
    BY <1>4
  <2> QED
    BY <1>2, <1>4, <2>1, ChildIs, Zenon
<1>7. Tables!Child(t, i) = u /\ u \in Linked /\ lv[u] = m /\ rt[u] = r
  BY <1>3, <1>4, <1>5, <1>6, Zenon DEF StepsDown
<1>8. Reached(r, p, m) = u
  <2>1. m = l + 1 /\ i = p[l]
    BY <1>3, Zenon
  <2>2. Reached(r, p, m) = Tables!Child(Reached(r, p, l), p[l])
    BY <1>4, <2>1, NextReached, Zenon
  <2> QED
    BY <1>4, <1>7, <2>1, <2>2, Zenon
<1>9. u \in Frames
  BY <1>7, LinkedFrames, Zenon
<1>10. PICK o : o = [op[c] EXCEPT !.table = u, !.level = m, !.pc = "walk"]
  BY Zenon
<1>11. Tables!At(c).to = u
  BY <1>3, <1>5, Zenon DEF Tables!At, To
<1>12. op' = [op EXCEPT ![c] = o]
  BY <1>3, <1>10, <1>11, Zenon DEF Tables!Descend
<1>13. /\ o \in OpRecord /\ o.kind = op[c].kind /\ o.page = p /\ o.target = op[c].target
       /\ o.root = r /\ o.level = m /\ o.table = u /\ o.pc = "walk"
  BY <1>2, <1>3, <1>4, <1>9, <1>10, Zenon DEF OpRecord
<1>14. Walking(lv, rt, o)
  BY <1>2, <1>3, <1>7, <1>8, <1>13, Zenon DEF Walking
<1>15. o # Tables!Idle /\ o.pc # "link" /\ op[c].pc # "link"
  BY <1>1, <1>13, NotIdle, Zenon
<1> QED
  BY <1>1, <1>2, <1>12, <1>13, <1>14, <1>15, QuietStep, Zenon

LEMMA CopySourceStep ==
  ASSUME PagingFits, TablesTypes, NEW lv, NEW rt, TablesOK(lv, rt), NEW c \in Cpu,
         Tables!CopySource(c)
  PROVE  TablesTypes' /\ TablesOK(lv, rt)' /\ SameSpace
<1>1. /\ op[c] # Tables!Idle /\ op[c].pc = "walk" /\ op[c].level = 4 /\ op[c].kind = "copy"
      /\ op[c].root = Src /\ mem' = mem /\ used' = used
  BY Zenon DEF Tables!CopySource, Tables!AtEntry, Tables!Levels
<1>2. /\ op[c] \in OpRecord /\ Others(c) /\ Walking(lv, rt, op[c])
      /\ op[c].root \in Roots /\ op[c].page \in Pages /\ op[c].level \in 1 .. 4 /\ Tree(lv, rt)
  BY <1>1, Walker, Zenon
<1>3. PICK t, p : t = op[c].table /\ p = op[c].page
  BY Zenon
<1>4. t \in Linked /\ lv[t] = 4 /\ t = Tables!TableOf(Src, p)
  BY <1>1, <1>2, <1>3 DEF Walking, Reached
<1>5. PICK o : o = [Tables!Begin("copy", Dst, p, Tables!Nothing) EXCEPT !.target = t]
  BY Zenon
<1>6. op' = [op EXCEPT ![c] = o]
  BY <1>3, <1>5, Zenon DEF Tables!CopySource
<1>7. /\ Tables!RootFrame(Dst) \in Linked /\ lv[Tables!RootFrame(Dst)] = 1
      /\ rt[Tables!RootFrame(Dst)] = Dst
  BY <1>2, Zenon DEF Tree, TreeRoots, Roots
<1>8. Tables!RootFrame(Dst) \in Frames /\ t \in Frames
  BY <1>4, <1>7, LinkedFrames, Zenon
<1>9. /\ o.kind = "copy" /\ o.page = p /\ o.target = t /\ o.root = Dst /\ o.level = 1
      /\ o.table = Tables!RootFrame(Dst) /\ o.pc = "walk" /\ o \in OpRecord
  BY <1>2, <1>3, <1>5, <1>8 DEF Tables!Begin, OpRecord, Tables!Nothing, Roots
<1>10. Reached(Dst, p, 1) = Tables!RootFrame(Dst)
  BY DEF Reached
<1>11. Walking(lv, rt, o)
  BY <1>4, <1>7, <1>9, <1>10, Zenon DEF Walking
<1>12. o # Tables!Idle /\ o.pc # "link" /\ op[c].pc # "link"
  BY <1>1, <1>9, NotIdle, Zenon
<1> QED
  BY <1>1, <1>2, <1>6, <1>9, <1>11, <1>12, QuietStep, Zenon

LEMMA AllocateStep ==
  ASSUME PagingFits, TablesTypes, NEW lv, NEW rt, TablesOK(lv, rt), NEW c \in Cpu,
         op[c] # Tables!Idle, op[c].pc = "walk", op[c].level < 4, ~Tables!Present(Tables!At(c)),
         used < MaxFrames, used' = used + 1, mem' = [mem EXCEPT ![used + 1] = Tables!Zero],
         op' = [op EXCEPT ![c].pc = "link", ![c].found = used + 1]
  PROVE  TablesTypes' /\ TablesOK(lv, rt)' /\ SameSpace
<1>1. /\ op[c] \in OpRecord /\ Others(c) /\ Walking(lv, rt, op[c])
      /\ op[c].root \in Roots /\ op[c].page \in Pages /\ op[c].level \in 1 .. 4 /\ Tree(lv, rt)
  BY Walker, Zenon
<1>2. used \in Nat /\ used >= 2 /\ MaxFrames \in Nat
  BY UsedIsNat, Zenon DEF PagingFits
<1>3. PICK f : f = used + 1
  BY Zenon
<1>4. f \in Frames /\ f \notin 1 .. used /\ used' = f /\ mem' = [mem EXCEPT ![f] = Tables!Zero]
  BY <1>2, <1>3 DEF Frames
<1>5. PICK o : o = [op[c] EXCEPT !.pc = "link", !.found = f]
  BY Zenon
<1>6. op' = [op EXCEPT ![c] = o]
  BY <1>3, <1>5, Zenon
<1>7. /\ o \in OpRecord /\ o.kind = op[c].kind /\ o.page = op[c].page /\ o.target = op[c].target
      /\ o.root = op[c].root /\ o.level = op[c].level /\ o.table = op[c].table /\ o.pc = "link"
      /\ o.found = f
  BY <1>1, <1>4, <1>5, Zenon DEF OpRecord
<1>8. Goes(c, o)
  BY <1>1, <1>6, <1>7, GoesOn, Zenon
<1>9. Linked = 1 .. used /\ Linked' = Linked
  <2>1. Linked = 1 .. used
    BY <1>1, NotLinking, Zenon
  <2>2. Unlinked' = {f}
    BY <1>7, <1>8, NotIdle, Zenon DEF Goes
  <2>3. Linked' = (1 .. f) \ {f}
    BY <1>4, <2>2, Zenon DEF Linked
  <2> QED
    BY <1>2, <1>3, <2>1, <2>3
<1>10. \A t \in Linked : mem'[t] = mem[t]
  BY <1>4, <1>9 DEF TablesTypes
<1>11. SameAbove(lv)
  BY <1>9, <1>10, Zenon DEF SameAbove
<1>12. Tree(lv, rt)'
  BY <1>1, <1>11, TreeKept, Zenon
<1>13. SameSpace
  BY <1>1, <1>10, <1>11, SpaceKept, Zenon
<1>14. Reached(o.root, o.page, o.level)' = Reached(o.root, o.page, o.level)
  <2>1. o.root \in Roots /\ o.page \in Pages /\ o.level \in 1 .. 4
    BY <1>1, <1>7, Zenon
  <2> QED
    BY <1>1, <1>11, <2>1, ReachedKept, Zenon
<1>15. Tables!TableOf(Src, o.page)' = Tables!TableOf(Src, o.page)
  <2>1. Src \in Roots /\ o.page \in Pages
    BY <1>1, <1>7, Zenon DEF Roots
  <2> QED
    BY <1>1, <1>11, <2>1, WalkKept, Zenon
<1>16. mem'[f] = Tables!Zero
  BY <1>4, Zenon DEF TablesTypes
<1>17. o.table \in Linked /\ ~Points(o.table, o.page[o.level])
  BY <1>1, <1>7, Zenon DEF Walking, Points, Tables!Present, Tables!At
<1>18. ~Points(o.table, o.page[o.level])'
  BY <1>10, <1>17, Zenon DEF Points
<1>19. Walking(lv, rt, o)'
  <2>1. /\ o.table \in Linked' /\ lv[o.table] = o.level /\ rt[o.table] = o.root
        /\ o.table = Reached(o.root, o.page, o.level)'
    BY <1>1, <1>7, <1>9, <1>14, Zenon DEF Walking
  <2>2. o.level < 4 /\ o.found = used' /\ mem'[used'] = Tables!Zero
    BY <1>4, <1>7, <1>16, Zenon
  <2>3. /\ o.kind = "map" => o.target \in Targets
        /\ o.kind = "copy" /\ o.root = Dst =>
             o.target \in Linked' /\ lv[o.target] = 4 /\ o.target = Tables!TableOf(Src, o.page)'
    BY <1>1, <1>7, <1>9, <1>15, Zenon DEF Walking
  <2>4. Tables!Zero' = Tables!Zero
    BY Zenon DEF Tables!Zero, Tables!Nothing
  <2> QED
    BY <1>7, <1>18, <2>1, <2>2, <2>3, <2>4, Zenon DEF Walking
<1>20. TablesOK(lv, rt)'
  BY <1>8, <1>12, <1>19, AllWalk, Zenon
<1>21. TablesTypes'
  <2>1. used' \in Tables!InitialFrames .. MaxFrames
    BY <1>2, CountIndex DEF TablesTypes
  <2>2. Tables!Zero \in [Index -> TableEntry]
    BY Zenon DEF Tables!Zero, Tables!Nothing, TableEntry
  <2>3. mem' \in [Frames -> [Index -> TableEntry]]
    BY <1>4, <2>2, Zenon DEF TablesTypes
  <2>4. Tables!InitialFrames' = Tables!InitialFrames
    BY Zenon DEF Tables!InitialFrames
  <2> QED
    BY <1>8, <2>1, <2>3, <2>4, Zenon DEF TablesTypes, Goes
<1> QED
  BY <1>13, <1>20, <1>21, Zenon

(* One page of one structure gets a new entry, and no other.                *)
OnlyAt(r, p, e) ==
  /\ Tables!get_physical_address(r, p)' = e
  /\ \A s \in Roots, q \in Pages :
       s # r \/ q # p => Tables!get_physical_address(s, q)' = Tables!get_physical_address(s, q)

LEMMA PutStep ==
  ASSUME PagingFits, TablesTypes, NEW lv, NEW rt, TablesOK(lv, rt), NEW c \in Cpu,
         op[c] # Tables!Idle, op[c].pc = "walk", op[c].level = 4, NEW e \in TableEntry,
         Tables!PutEntry(c, e), NEW r, NEW p, r = op[c].root, p = op[c].page
  PROVE  TablesTypes' /\ TablesOK(lv, rt)' /\ OnlyAt(r, p, e)
<1>1. /\ op[c] \in OpRecord /\ Others(c) /\ Walking(lv, rt, op[c])
      /\ r \in Roots /\ p \in Pages /\ Tree(lv, rt)
  BY Walker, Zenon
<1>2. PICK t, i : t = op[c].table /\ i = p[4]
  BY Zenon
<1>3. t \in Linked /\ lv[t] = 4 /\ t = Tables!TableOf(r, p)
  BY <1>1, <1>2 DEF Walking, Reached
<1>4. i \in Index /\ t \in Frames /\ t # 0
  <2>1. i \in Index
    BY <1>1, <1>2, Indices, Zenon
  <2>2. t \in Frames
    BY <1>3, LinkedFrames, Zenon
  <2> QED
    BY <2>1, <2>2 DEF Frames, PagingFits
<1>5. mem' = [mem EXCEPT ![t][i] = e] /\ op' = [op EXCEPT ![c] = Tables!Idle] /\ used' = used
  BY <1>2, Zenon DEF Tables!PutEntry, Tables!Levels
<1>6. mem \in [Frames -> [Index -> TableEntry]]
  BY Zenon DEF TablesTypes
<1>7. /\ mem' \in [Frames -> [Index -> TableEntry]] /\ mem'[t][i] = e
      /\ \A f \in Frames, j \in Index : f # t \/ j # i => mem'[f][j] = mem[f][j]
  BY <1>4, <1>5, <1>6, Zenon
<1>8. Goes(c, Tables!Idle)
  BY <1>1, <1>5, GoesOn, Zenon
<1>9. Linked' = Linked
  <2>1. Linked = 1 .. used
    BY <1>1, NotLinking, Zenon
  <2>2. Unlinked' = {}
    BY <1>8, Zenon DEF Goes
  <2> QED
    BY <1>5, <2>1, <2>2, Zenon DEF Linked
<1>10. \A f \in Linked : f \in Frames
  BY LinkedFrames, Zenon
<1>11. SameAbove(lv)
  <2>1. \A f \in Linked : lv[f] < 4 => f # t
    BY <1>3
  <2> QED
    BY <1>7, <1>9, <1>10, <2>1, Zenon DEF SameAbove
<1>12. Tree(lv, rt)'
  BY <1>1, <1>11, TreeKept, Zenon
<1>13. TablesOK(lv, rt)'
  BY <1>8, <1>12, AllWalk, Zenon
<1>14. TablesTypes'
  BY <1>5, <1>7, <1>8, Zenon DEF TablesTypes, Goes
<1>15. Tables!get_physical_address(r, p)' = e
  <2>1. Tables!TableOf(r, p)' = t
    BY <1>1, <1>3, <1>11, WalkKept, Zenon
  <2> QED
    BY <1>2, <1>4, <1>7, <2>1, Zenon DEF Tables!get_physical_address, Tables!Nothing, Tables!Levels
<1>16. ASSUME NEW s \in Roots, NEW q \in Pages, s # r \/ q # p
       PROVE  Tables!get_physical_address(s, q)' = Tables!get_physical_address(s, q)
  <2>1. PICK u : u = Tables!TableOf(s, q)
    BY Zenon
  <2>2. Tables!TableOf(s, q)' = u
    BY <1>1, <1>11, <2>1, WalkKept, Zenon
  <2>3. u = 0 \/ u \in Linked
    <3>1. AtLevel(lv, rt, Tables!TableOf(s, q), s, 4)
      BY <1>1, WalkLevels, Zenon
    <3> QED
      BY <2>1, <3>1, Zenon DEF AtLevel
  <2>4. u # t \/ q[4] # i
    <3> SUFFICES ASSUME u = t, q[4] = i PROVE FALSE
      BY Zenon
    <3>1. /\ Tables!TableOf(r, p) = Tables!TableOf(s, q) /\ Tables!TableOf(r, p) # 0
          /\ p[4] = q[4]
      BY <1>2, <1>3, <1>4, <2>1, Zenon
    <3>2. r = s /\ p = q
      BY <1>1, <3>1, WalkOnce
    <3> QED
      BY <1>16, <3>2, Zenon
  <2>5. q[4] \in Index
    BY Indices, Zenon
  <2>6. u # 0 => mem'[u][q[4]] = mem[u][q[4]]
    BY <1>7, <1>10, <2>3, <2>4, <2>5, Zenon
  <2> QED
    BY <2>1, <2>2, <2>6, Zenon DEF Tables!get_physical_address, Tables!Nothing, Tables!Levels
<1> QED
  BY <1>13, <1>14, <1>15, <1>16, Zenon DEF OnlyAt

(* A walk finds what it found, or the new empty table where it found none.  *)
Extended(a, b, f) == b = a \/ (a = 0 /\ b = f)

LEMMA LinkStep ==
  ASSUME PagingFits, TablesTypes, NEW lv, NEW rt, TablesOK(lv, rt), NEW c \in Cpu,
         Tables!Link(c)
  PROVE  TablesInv' /\ SameSpace
<1>1. op[c] # Tables!Idle /\ op[c].pc = "link" /\ used' = used
  BY Zenon DEF Tables!Link
<1>2. /\ op[c] \in OpRecord /\ Others(c) /\ Walking(lv, rt, op[c])
      /\ op[c].root \in Roots /\ op[c].page \in Pages /\ op[c].level \in 1 .. 4 /\ Tree(lv, rt)
  BY <1>1, Walker, Zenon
<1>3. PICK t, l, i, p, r, m, f : /\ t = op[c].table /\ l = op[c].level /\ p = op[c].page
                                 /\ i = p[l] /\ r = op[c].root /\ m = l + 1 /\ f = used
  BY Zenon
<1>4. /\ l \in 1 .. 3 /\ t \in Linked /\ lv[t] = l /\ rt[t] = r /\ t = Reached(r, p, l)
      /\ ~Points(t, i) /\ i \in Index /\ m \in 2 .. 4 /\ op[c].found = f /\ mem[f] = Tables!Zero
      /\ r \in Roots /\ p \in Pages
  <2>1. /\ l < 4 /\ t \in Linked /\ lv[t] = l /\ rt[t] = r /\ t = Reached(r, p, l)
        /\ ~Points(t, i) /\ op[c].found = f /\ mem[f] = Tables!Zero
    BY <1>1, <1>2, <1>3, Zenon DEF Walking
  <2>2. i \in Index
    BY <1>2, <1>3, IndexAt, Zenon
  <2> QED
    BY <1>2, <1>3, <2>1, <2>2
<1>5. used \in Nat /\ used >= 2 /\ used <= MaxFrames /\ MaxFrames \in Nat
  BY UsedIsNat, Zenon DEF PagingFits
<1>6. Linked = (1 .. f) \ {f}
  <2>1. Unlinked = {f}
    BY <1>1, <1>4, OneWalks, Zenon
  <2> QED
    BY <1>3, <2>1, Zenon DEF Linked
<1>7. f \in Frames /\ f \notin Linked /\ t # f /\ f # 0 /\ t \in Frames
  <2>1. t \in Frames
    BY <1>4, LinkedFrames, Zenon
  <2> QED
    BY <1>3, <1>4, <1>5, <1>6, <2>1 DEF Frames
<1>8. PICK o : o = [op[c] EXCEPT !.pc = "descend", !.found = 0]
  BY Zenon
<1>9. /\ op' = [op EXCEPT ![c] = o]
      /\ mem' = [mem EXCEPT ![t][i] = [to |-> f, present |-> TRUE]]
  BY <1>3, <1>4, <1>8, Zenon DEF Tables!Link, Tables!Nothing
<1>10. /\ o \in OpRecord /\ o.kind = op[c].kind /\ o.page = p /\ o.target = op[c].target
       /\ o.root = r /\ o.level = l /\ o.table = t /\ o.pc = "descend"
  BY <1>2, <1>3, <1>8, Zenon DEF OpRecord
<1>11. Goes(c, o)
  BY <1>2, <1>9, <1>10, GoesOn, Zenon
<1>12. Linked' = 1 .. f /\ Linked' = Linked \cup {f}
  <2>1. Unlinked' = {}
    BY <1>10, <1>11, Zenon DEF Goes
  <2>2. Linked' = 1 .. f
    BY <1>1, <1>3, <2>1, Zenon DEF Linked
  <2>3. f \in 1 .. f
    BY <1>3, <1>5
  <2> QED
    BY <1>6, <2>2, <2>3, Zenon
<1>13. [to |-> f, present |-> TRUE] \in TableEntry
  BY <1>7, Zenon DEF TableEntry
<1>14. mem \in [Frames -> [Index -> TableEntry]]
  BY Zenon DEF TablesTypes
<1>15. /\ mem' \in [Frames -> [Index -> TableEntry]] /\ mem'[t][i].to = f /\ mem'[t][i].present
       /\ \A g \in Frames, j \in Index : g # t \/ j # i => mem'[g][j] = mem[g][j]
       /\ \A g \in Frames : g # t => mem'[g] = mem[g]
  BY <1>4, <1>7, <1>9, <1>13, <1>14, Zenon
<1>16. \A g \in Linked : g \in Frames /\ g # 0 /\ g # f
  BY <1>7, LinkedFrames DEF Frames
<1>17. \A j \in Index : ~Points(f, j)'
  <2>1. \A j \in Index : ~Tables!Zero[j].present
    BY Zenon DEF Tables!Zero
  <2> QED
    BY <1>4, <1>7, <1>15, <2>1, Zenon DEF Points
<1>18. Points(t, i)' /\ To(t, i)' = f
  BY <1>15, Zenon DEF Points, To
<1>19. \A g \in Linked, j \in Index :
         g # t \/ j # i => (Points(g, j)' <=> Points(g, j)) /\ To(g, j)' = To(g, j)
  BY <1>15, <1>16, Zenon DEF Points, To
<1>20. PICK lv2, rt2 : /\ lv2 = [g \in Linked \cup {f} |-> IF g = f THEN m ELSE lv[g]]
                       /\ rt2 = [g \in Linked \cup {f} |-> IF g = f THEN r ELSE rt[g]]
  BY Zenon
<1>21. /\ lv2[f] = m /\ rt2[f] = r
       /\ \A g \in Linked : lv2[g] = lv[g] /\ rt2[g] = rt[g] /\ lv[g] \in 1 .. 4 /\ rt[g] \in Roots
       /\ lv2 \in [Linked \cup {f} -> 1 .. 4] /\ rt2 \in [Linked \cup {f} -> Roots]
  <2>1. \A g \in Linked : lv[g] \in 1 .. 4 /\ rt[g] \in Roots
    BY <1>2, LevelBounds, Zenon DEF Tree
  <2>2. /\ lv2[f] = m /\ rt2[f] = r
        /\ \A g \in Linked : lv2[g] = lv[g] /\ rt2[g] = rt[g]
    BY <1>7, <1>20, Zenon
  <2>3. lv2 \in [Linked \cup {f} -> 1 .. 4] /\ rt2 \in [Linked \cup {f} -> Roots]
    BY <1>4, <1>20, <2>1
  <2> QED
    BY <2>1, <2>2, <2>3, Zenon
<1>22. TreeTypes(lv2, rt2)'
  BY <1>12, <1>21, Zenon DEF TreeTypes
<1>23. TreeRoots(lv2, rt2)'
  <2>1. ASSUME NEW s \in Roots
        PROVE  /\ Tables!RootFrame(s)' \in Linked' /\ lv2[Tables!RootFrame(s)'] = 1
               /\ rt2[Tables!RootFrame(s)'] = s
    <3>1. Tables!RootFrame(s)' = Tables!RootFrame(s)
      BY Zenon DEF Tables!RootFrame
    <3>2. /\ Tables!RootFrame(s) \in Linked /\ lv[Tables!RootFrame(s)] = 1
          /\ rt[Tables!RootFrame(s)] = s
      BY <1>2, Zenon DEF Tree, TreeRoots
    <3> QED
      BY <1>12, <1>21, <3>1, <3>2, Zenon
  <2>2. ASSUME NEW g \in Linked \cup {f}, lv2[g] = 1
        PROVE  g = Tables!RootFrame(rt2[g])'
    <3>1. g # f
      BY <1>4, <1>21, <2>2
    <3>2. g \in Linked /\ lv[g] = 1 /\ rt2[g] = rt[g]
      BY <1>21, <2>2, <3>1, Zenon
    <3>3. g = Tables!RootFrame(rt2[g])
      BY <1>2, <3>2, Zenon DEF Tree, TreeRoots
    <3> QED
      BY <3>3, Zenon DEF Tables!RootFrame
  <2> QED
    BY <1>12, <2>1, <2>2, Zenon DEF TreeRoots
<1>24. TreeDown(lv2, rt2)'
  <2>1. ASSUME NEW g \in Linked \cup {f}, NEW j \in Index, lv2[g] < 4, Points(g, j)'
        PROVE  /\ To(g, j)' \in Linked \cup {f} /\ lv2[To(g, j)'] = lv2[g] + 1
               /\ rt2[To(g, j)'] = rt2[g]
    <3>1. g \in Linked
      BY <1>17, <2>1, Zenon
    <3>2. CASE g = t /\ j = i
      BY <1>3, <1>4, <1>18, <1>21, <3>2, Zenon
    <3>3. CASE g # t \/ j # i
      <4>1. Points(g, j) /\ To(g, j)' = To(g, j) /\ lv[g] < 4
        BY <1>19, <1>21, <2>1, <3>1, <3>3, Zenon
      <4>2. To(g, j) \in Linked /\ lv[To(g, j)] = lv[g] + 1 /\ rt[To(g, j)] = rt[g]
        BY <1>2, <3>1, <4>1, Zenon DEF Tree, TreeDown
      <4> QED
        BY <1>21, <3>1, <4>1, <4>2, Zenon
    <3> QED
      BY <3>2, <3>3, Zenon
  <2> QED
    BY <1>12, <2>1, Zenon DEF TreeDown
<1>25. ASSUME NEW g \in Linked \cup {f}, NEW j \in Index, lv2[g] < 4, Points(g, j)'
       PROVE  /\ g \in Linked
              /\ \/ g = t /\ j = i /\ To(g, j)' = f
                 \/ lv[g] < 4 /\ Points(g, j) /\ To(g, j)' = To(g, j) /\ To(g, j) # f
  <2>1. g \in Linked
    BY <1>17, <1>25, Zenon
  <2>2. CASE g = t /\ j = i
    BY <1>18, <2>1, <2>2, Zenon
  <2>3. CASE g # t \/ j # i
    <3>1. Points(g, j) /\ To(g, j)' = To(g, j) /\ lv[g] < 4
      BY <1>19, <1>21, <1>25, <2>1, <2>3, Zenon
    <3>2. To(g, j) \in Linked
      BY <1>2, <2>1, <3>1, Zenon DEF Tree, TreeDown
    <3> QED
      BY <1>16, <2>1, <3>1, <3>2, Zenon
  <2> QED
    BY <2>2, <2>3, Zenon
<1>26. TreeOnce(lv2)'
  <2>1. ASSUME NEW g \in Linked \cup {f}, NEW h \in Linked \cup {f}, NEW j \in Index,
               NEW k \in Index, lv2[g] < 4, lv2[h] < 4, Points(g, j)', Points(h, k)',
               To(g, j)' = To(h, k)'
        PROVE  g = h /\ j = k
    <3>1. /\ g \in Linked
          /\ \/ g = t /\ j = i /\ To(g, j)' = f
             \/ lv[g] < 4 /\ Points(g, j) /\ To(g, j)' = To(g, j) /\ To(g, j) # f
      BY <1>25, <2>1, Zenon
    <3>2. /\ h \in Linked
          /\ \/ h = t /\ k = i /\ To(h, k)' = f
             \/ lv[h] < 4 /\ Points(h, k) /\ To(h, k)' = To(h, k) /\ To(h, k) # f
      BY <1>25, <2>1, Zenon
    <3>3. CASE To(g, j)' = f
      BY <2>1, <3>1, <3>2, <3>3, Zenon
    <3>4. CASE To(g, j)' # f
      <4>1. /\ lv[g] < 4 /\ Points(g, j) /\ lv[h] < 4 /\ Points(h, k) /\ To(g, j) = To(h, k)
        BY <2>1, <3>1, <3>2, <3>4, Zenon
      <4> QED
        BY <1>2, <3>1, <3>2, <4>1, Zenon DEF Tree, TreeOnce
    <3> QED
      BY <3>3, <3>4, Zenon
  <2> QED
    BY <1>12, <2>1, Zenon DEF TreeOnce
<1>27. TreeUp(lv2)'
  <2>1. ASSUME NEW g \in Linked \cup {f}, lv2[g] # 1
        PROVE  \E h \in Linked \cup {f}, j \in Index : lv2[h] < 4 /\ Points(h, j)' /\ To(h, j)' = g
    <3>1. CASE g = f
      <4>1. t \in Linked \cup {f} /\ lv2[t] < 4
        BY <1>4, <1>21
      <4> QED
        BY <1>4, <1>18, <3>1, <4>1, Zenon
    <3>2. CASE g # f
      <4>1. g \in Linked /\ lv[g] # 1
        BY <1>21, <2>1, <3>2, Zenon
      <4>2. PICK h \in Linked, j \in Index : lv[h] < 4 /\ Points(h, j) /\ To(h, j) = g
        BY <1>2, <4>1, Zenon DEF Tree, TreeUp
      <4>3. h # t \/ j # i
        BY <1>4, <4>2, Zenon
      <4>4. Points(h, j)' /\ To(h, j)' = g /\ lv2[h] < 4 /\ h \in Linked \cup {f}
        BY <1>19, <1>21, <4>2, <4>3, Zenon
      <4> QED
        BY <4>4, Zenon
    <3> QED
      BY <3>1, <3>2, Zenon
  <2> QED
    BY <1>12, <2>1, Zenon DEF TreeUp
<1>28. Tree(lv2, rt2)'
  BY <1>22, <1>23, <1>24, <1>26, <1>27, Zenon DEF Tree
<1>29. ASSUME NEW a \in Linked \cup {0}, NEW b, Extended(a, b, f), NEW j \in Index
       PROVE  Extended(Tables!Child(a, j), Tables!Child(b, j)', f)
  <2>1. CASE b = f /\ a = 0
    <3>1. Tables!Child(b, j)' = 0
      BY <1>7, <1>17, <2>1, Zenon DEF Tables!Child, Points, Tables!Nothing
    <3>2. Tables!Child(a, j) = 0
      BY <2>1, ChildOfNothing, Zenon
    <3> QED
      BY <3>1, <3>2, Zenon DEF Extended
  <2>2. CASE b = a /\ a = 0
    <3>1. Tables!Child(b, j)' = 0
      BY <2>2, Zenon DEF Tables!Child, Tables!Nothing
    <3>2. Tables!Child(a, j) = 0
      BY <2>2, ChildOfNothing, Zenon
    <3> QED
      BY <3>1, <3>2, Zenon DEF Extended
  <2>3. CASE b = a /\ a = t /\ j = i
    <3>1. Tables!Child(b, j)' = f
      BY <1>16, <1>4, <1>15, <2>3, Zenon DEF Tables!Child, Tables!Nothing
    <3>2. Tables!Child(a, j) = 0
      BY <1>4, <2>3, Zenon DEF Tables!Child, Points, Tables!Nothing
    <3> QED
      BY <3>1, <3>2, Zenon DEF Extended
  <2>4. CASE b = a /\ a \in Linked /\ (a # t \/ j # i)
    <3>1. mem'[a][j] = mem[a][j]
      BY <1>15, <1>16, <2>4, Zenon
    <3>2. Tables!Child(b, j)' = Tables!Child(a, j)
      BY <2>4, <3>1, Zenon DEF Tables!Child, Tables!Nothing
    <3> QED
      BY <3>2, Zenon DEF Extended
  <2> QED
    BY <1>29, <2>1, <2>2, <2>3, <2>4, Zenon DEF Extended
<1>30. ASSUME NEW s \in Roots, NEW q \in Pages
       PROVE  /\ Tables!RootFrame(s)' = Tables!RootFrame(s)
              /\ Extended(Second(s, q), Second(s, q)', f)
              /\ Extended(Third(s, q), Third(s, q)', f)
              /\ Extended(Tables!TableOf(s, q), Tables!TableOf(s, q)', f)
              /\ AtLevel(lv, rt, Tables!TableOf(s, q), s, 4)
  <2>1. q[1] \in Index /\ q[2] \in Index /\ q[3] \in Index
    BY Indices, Zenon
  <2>2. /\ AtLevel(lv, rt, Second(s, q), s, 2) /\ AtLevel(lv, rt, Third(s, q), s, 3)
        /\ Tables!TableOf(s, q) = Tables!Child(Third(s, q), q[3])
        /\ AtLevel(lv, rt, Tables!RootFrame(s), s, 1)
        /\ AtLevel(lv, rt, Tables!TableOf(s, q), s, 4)
    BY <1>2, WalkLevels, RootAtLevel, Zenon
  <2>3. Tables!RootFrame(s)' = Tables!RootFrame(s)
    BY Zenon DEF Tables!RootFrame
  <2>4. Extended(Second(s, q), Second(s, q)', f)
    <3>1. PICK a : a = Tables!RootFrame(s)
      BY Zenon
    <3>2. a \in Linked \cup {0} /\ Extended(a, a, f)
      BY <2>2, <3>1, Zenon DEF AtLevel, Extended
    <3>3. Extended(Tables!Child(a, q[1]), Tables!Child(a, q[1])', f)
      BY <1>29, <2>1, <3>2, Zenon
    <3>4. Second(s, q) = Tables!Child(a, q[1]) /\ Second(s, q)' = Tables!Child(a, q[1])'
      BY <2>3, <3>1, Zenon DEF Second
    <3> QED
      BY <3>3, <3>4, Zenon
  <2>5. Extended(Third(s, q), Third(s, q)', f)
    <3>1. PICK a, b : a = Second(s, q) /\ b = Second(s, q)'
      BY Zenon
    <3>2. a \in Linked \cup {0} /\ Extended(a, b, f)
      BY <2>2, <2>4, <3>1, Zenon DEF AtLevel
    <3>3. Extended(Tables!Child(a, q[2]), Tables!Child(b, q[2])', f)
      BY <1>29, <2>1, <3>2, Zenon
    <3>4. Third(s, q) = Tables!Child(a, q[2]) /\ Third(s, q)' = Tables!Child(b, q[2])'
      BY <3>1, Zenon DEF Third
    <3> QED
      BY <3>3, <3>4, Zenon
  <2>6. Extended(Tables!TableOf(s, q), Tables!TableOf(s, q)', f)
    <3>1. PICK a, b : a = Third(s, q) /\ b = Third(s, q)'
      BY Zenon
    <3>2. a \in Linked \cup {0} /\ Extended(a, b, f)
      BY <2>2, <2>5, <3>1, Zenon DEF AtLevel
    <3>3. Extended(Tables!Child(a, q[3]), Tables!Child(b, q[3])', f)
      BY <1>29, <2>1, <3>2, Zenon
    <3>4. Tables!TableOf(s, q)' = Tables!Child(Third(s, q), q[3])'
      BY Zenon DEF Tables!TableOf, Third, Second
    <3>5. Tables!TableOf(s, q) = Tables!Child(a, q[3]) /\ Tables!TableOf(s, q)' = Tables!Child(b, q[3])'
      BY <2>2, <3>1, <3>4, Zenon
    <3> QED
      BY <3>3, <3>5, Zenon
  <2> QED
    BY <2>2, <2>3, <2>4, <2>5, <2>6, Zenon
<1>31. SameSpace
  <2> SUFFICES ASSUME NEW s \in Roots, NEW q \in Pages
               PROVE  Tables!get_physical_address(s, q)' = Tables!get_physical_address(s, q)
    BY Zenon DEF SameSpace
  <2>1. PICK a, b : a = Tables!TableOf(s, q) /\ b = Tables!TableOf(s, q)'
    BY Zenon
  <2>2. Extended(a, b, f) /\ AtLevel(lv, rt, a, s, 4) /\ q[4] \in Index
    BY <1>30, <2>1, Indices, Zenon
  <2>3. CASE b = a /\ a = 0
    BY <2>1, <2>3, Zenon DEF Tables!get_physical_address, Tables!Nothing
  <2>4. CASE b = a /\ a # 0
    <3>1. a \in Linked /\ lv[a] = 4
      BY <2>2, <2>4, Zenon DEF AtLevel
    <3>2. a # t
      BY <1>4, <3>1
    <3>3. mem'[a] = mem[a]
      BY <1>15, <1>16, <3>1, <3>2, Zenon
    <3> QED
      BY <2>1, <2>4, <3>3, Zenon DEF Tables!get_physical_address, Tables!Nothing, Tables!Levels
  <2>5. CASE a = 0 /\ b = f
    <3>1. mem'[f] = Tables!Zero
      BY <1>4, <1>7, <1>15, Zenon
    <3>2. Tables!Zero[q[4]] = [to |-> 0, present |-> FALSE]
      BY <2>2, Zenon DEF Tables!Zero, Tables!Nothing
    <3>3. Tables!get_physical_address(s, q)' = [to |-> 0, present |-> FALSE]
      BY <1>7, <2>1, <2>5, <3>1, <3>2, Zenon DEF Tables!get_physical_address, Tables!Nothing, Tables!Levels
    <3> QED
      BY <2>1, <2>5, <3>3, Zenon DEF Tables!get_physical_address, Tables!Nothing
  <2> QED
    BY <2>2, <2>3, <2>4, <2>5, Zenon DEF Extended
<1>32. t = Reached(r, p, l)'
  <2>1. Extended(Reached(r, p, l), Reached(r, p, l)', f)
    <3>1. l = 1 \/ l = 2 \/ l = 3
      BY <1>4
    <3>2. /\ Tables!RootFrame(r)' = Tables!RootFrame(r)
          /\ Extended(Second(r, p), Second(r, p)', f) /\ Extended(Third(r, p), Third(r, p)', f)
      BY <1>4, <1>30, Zenon
    <3> QED
      BY <3>1, <3>2 DEF Reached, Extended
  <2>2. t # 0
    BY <1>4, <1>16, Zenon
  <2> QED
    BY <1>4, <2>1, <2>2, Zenon DEF Extended
<1>33. Walking(lv2, rt2, o)'
  <2>1. o.table \in Linked' /\ lv2[o.table] = o.level /\ rt2[o.table] = o.root
    BY <1>4, <1>10, <1>12, <1>21, Zenon
  <2>2. o.table = Reached(o.root, o.page, o.level)' /\ o.level < 4 /\ Points(o.table, o.page[o.level])'
    BY <1>3, <1>4, <1>10, <1>18, <1>32
  <2>3. o.kind = "map" => o.target \in Targets
    BY <1>2, <1>10, Zenon DEF Walking
  <2>4. ASSUME o.kind = "copy", o.root = Dst
        PROVE  o.target \in Linked' /\ lv2[o.target] = 4 /\ o.target = Tables!TableOf(Src, o.page)'
    <3>1. o.target \in Linked /\ lv[o.target] = 4 /\ o.target = Tables!TableOf(Src, p)
      BY <1>2, <1>3, <1>10, <2>4, Zenon DEF Walking
    <3>2. Extended(Tables!TableOf(Src, p), Tables!TableOf(Src, p)', f)
      BY <1>4, <1>30, Zenon DEF Roots
    <3>3. o.target # 0
      BY <1>16, <3>1, Zenon
    <3> QED
      BY <1>10, <1>12, <1>21, <3>1, <3>2, <3>3, Zenon DEF Extended
  <2> QED
    BY <1>10, <2>1, <2>2, <2>3, <2>4, Zenon DEF Walking
<1>34. TablesOK(lv2, rt2)'
  BY <1>11, <1>28, <1>33, AllWalk, Zenon
<1>35. TablesTypes'
  BY <1>1, <1>11, <1>15, Zenon DEF TablesTypes, Goes
<1> QED
  BY <1>31, <1>34, <1>35, Zenon DEF TablesInv

-----------------------------------------------------------------------------
(* An operation ends: what the hardware finds changes for its page alone,   *)
(* as the operation says.                                                   *)
Ended(r, p) ==
  \/ \E t \in Targets : OnlyAt(r, p, [to |-> t, present |-> TRUE])
  \/ /\ \E c \in Cpu : op[c] # Tables!Idle /\ op[c].kind = "invalidate" /\ op[c].page = p
     /\ \E e : /\ e = Tables!get_physical_address(r, p)
               /\ OnlyAt(r, p, [e EXCEPT !.present = FALSE])
  \/ \E e : /\ e = Tables!get_physical_address(Src, p)
            /\ OnlyAt(r, p, [to |-> e.to, present |-> TRUE])

Effect == SameSpace \/ \E r \in Roots, p \in Pages : Ended(r, p)

(* The entry that the walk has come to is the one the hardware finds.       *)
LEMMA EntryAt ==
  ASSUME PagingFits, TablesTypes, NEW lv, NEW rt, TablesOK(lv, rt), NEW c \in Cpu, NEW kind,
         Tables!AtEntry(c, kind), NEW r, NEW p, r = op[c].root, p = op[c].page
  PROVE  /\ op[c] # Tables!Idle /\ op[c].pc = "walk" /\ op[c].level = 4 /\ op[c].kind = kind
         /\ r \in Roots /\ p \in Pages /\ Walking(lv, rt, op[c])
         /\ Tables!At(c) = Tables!get_physical_address(r, p)
         /\ Tables!At(c) \in TableEntry
<1>1. op[c] # Tables!Idle /\ op[c].pc = "walk" /\ op[c].level = 4 /\ op[c].kind = kind
  BY Zenon DEF Tables!AtEntry, Tables!Levels
<1>2. op[c] \in OpRecord /\ Walking(lv, rt, op[c]) /\ r \in Roots /\ p \in Pages
  BY <1>1, Walker, Zenon
<1>3. op[c].table \in Linked /\ op[c].table = Tables!TableOf(r, p)
  BY <1>1, <1>2 DEF Walking, Reached
<1>4. op[c].table \in Frames /\ op[c].table # 0
  BY <1>3, LinkedFrames DEF Linked
<1>5. Tables!At(c) = mem[op[c].table][p[4]]
  BY <1>1, Zenon DEF Tables!At
<1>6. p[4] \in Index
  BY <1>2, Indices, Zenon
<1>7. Tables!At(c) \in TableEntry
  BY <1>4, <1>5, <1>6 DEF TablesTypes
<1>8. Tables!At(c) = Tables!get_physical_address(r, p)
  BY <1>3, <1>4, <1>5, Zenon DEF Tables!get_physical_address, Tables!Nothing, Tables!Levels
<1> QED
  BY <1>1, <1>2, <1>7, <1>8, Zenon

LEMMA MapStep ==
  ASSUME PagingFits, TablesTypes, NEW lv, NEW rt, TablesOK(lv, rt), NEW c \in Cpu,
         Tables!paging_map(c)
  PROVE  TablesInv' /\ Effect
<1>1. Tables!AtEntry(c, "map")
  BY Zenon DEF Tables!paging_map
<1>2. PICK r, p, t, e : /\ r = op[c].root /\ p = op[c].page /\ t = op[c].target
                        /\ e = [to |-> t, present |-> TRUE]
  BY Zenon
<1>3. /\ op[c] # Tables!Idle /\ op[c].pc = "walk" /\ op[c].level = 4 /\ op[c].kind = "map"
      /\ r \in Roots /\ p \in Pages /\ Walking(lv, rt, op[c])
  BY <1>1, <1>2, EntryAt
<1>4. t \in Targets
  BY <1>2, <1>3, Zenon DEF Walking
<1>5. e \in TableEntry
  BY <1>2, <1>4, Zenon DEF TableEntry
<1>6. Tables!PutEntry(c, e)
  BY <1>2, Zenon DEF Tables!paging_map, Tables!Mapped
<1>7. TablesTypes' /\ TablesOK(lv, rt)' /\ OnlyAt(r, p, e)
  BY <1>2, <1>3, <1>5, <1>6, PutStep, Zenon
<1>8. Ended(r, p)
  BY <1>2, <1>4, <1>7, Zenon DEF Ended
<1> QED
  BY <1>3, <1>7, <1>8, Zenon DEF TablesInv, Effect

LEMMA InvalidateStep ==
  ASSUME PagingFits, TablesTypes, NEW lv, NEW rt, TablesOK(lv, rt), NEW c \in Cpu,
         Tables!invalidate_paging_mapping(c)
  PROVE  TablesInv' /\ Effect
<1>1. Tables!AtEntry(c, "invalidate")
  BY Zenon DEF Tables!invalidate_paging_mapping
<1>2. PICK r, p, d, e : /\ r = op[c].root /\ p = op[c].page /\ d = Tables!At(c)
                        /\ e = [d EXCEPT !.present = FALSE]
  BY Zenon
<1>3. /\ op[c] # Tables!Idle /\ op[c].pc = "walk" /\ op[c].level = 4
      /\ op[c].kind = "invalidate" /\ r \in Roots /\ p \in Pages
      /\ d = Tables!get_physical_address(r, p) /\ d \in TableEntry
  BY <1>1, <1>2, EntryAt
<1>4. e \in TableEntry
  BY <1>2, <1>3, Zenon DEF TableEntry
<1>5. Tables!PutEntry(c, e)
  BY <1>2, Zenon DEF Tables!invalidate_paging_mapping, Tables!Invalidated
<1>6. TablesTypes' /\ TablesOK(lv, rt)' /\ OnlyAt(r, p, e)
  BY <1>2, <1>3, <1>4, <1>5, PutStep, Zenon
<1>7. Ended(r, p)
  BY <1>2, <1>3, <1>6, Zenon DEF Ended
<1> QED
  BY <1>3, <1>6, <1>7, Zenon DEF TablesInv, Effect

LEMMA CopyStep ==
  ASSUME PagingFits, TablesTypes, NEW lv, NEW rt, TablesOK(lv, rt), NEW c \in Cpu,
         Tables!CopyEntry(c)
  PROVE  TablesInv' /\ Effect
<1>1. Tables!AtEntry(c, "copy") /\ op[c].root = Dst
  BY Zenon DEF Tables!CopyEntry
<1>2. PICK r, p, t : r = op[c].root /\ p = op[c].page /\ t = op[c].target
  BY Zenon
<1>3. /\ op[c] # Tables!Idle /\ op[c].pc = "walk" /\ op[c].level = 4
      /\ op[c].kind = "copy" /\ r \in Roots /\ p \in Pages /\ Walking(lv, rt, op[c])
  BY <1>1, <1>2, EntryAt
<1>4. t \in Linked /\ t = Tables!TableOf(Src, p)
  BY <1>1, <1>2, <1>3, Zenon DEF Walking
<1>5. t \in Frames /\ t # 0 /\ p[4] \in Index
  BY <1>3, <1>4, LinkedFrames, Indices DEF Linked
<1>6. PICK d, e : d = mem[t][p[4]] /\ e = [to |-> d.to, present |-> TRUE]
  BY Zenon
<1>7. d = Tables!get_physical_address(Src, p)
  BY <1>4, <1>5, <1>6, Zenon DEF Tables!get_physical_address, Tables!Nothing, Tables!Levels
<1>8. d \in TableEntry
  BY <1>5, <1>6, Zenon DEF TablesTypes
<1>9. e \in TableEntry
  BY <1>6, <1>8, Zenon DEF TableEntry
<1>10. Tables!PutEntry(c, e)
  BY <1>2, <1>6, Zenon DEF Tables!CopyEntry, Tables!Copied, Tables!Levels
<1>11. TablesTypes' /\ TablesOK(lv, rt)' /\ OnlyAt(r, p, e)
  BY <1>2, <1>3, <1>9, <1>10, PutStep, Zenon
<1>12. Ended(r, p)
  BY <1>6, <1>7, <1>11, Zenon DEF Ended
<1> QED
  BY <1>3, <1>11, <1>12, Zenon DEF TablesInv, Effect

LEMMA TablesStep ==
  ASSUME PagingFits, TablesInv, [Tables!Next]_(Tables!vars)
  PROVE  TablesInv' /\ Effect
<1>1. PICK lv, rt : TablesOK(lv, rt)
  BY Zenon DEF TablesInv
<1>2. TablesTypes
  BY Zenon DEF TablesInv
<1>3. CASE UNCHANGED Tables!vars
  <2>1. mem' = mem /\ used' = used /\ op' = op
    BY <1>3, Zenon DEF Tables!vars
  <2>2. TablesTypes'
    BY <1>2, <2>1, Zenon DEF TablesTypes
  <2>3. Linked' = Linked
    BY <2>1, Zenon DEF Linked, Unlinked
  <2>4. Tree(lv, rt) /\ SameAbove(lv)
    BY <1>1, <2>1, <2>3, Zenon DEF TablesOK, SameAbove
  <2>5. Tree(lv, rt)' /\ SameSpace
    BY <2>1, <2>4, TreeKept, SpaceKept, Zenon
  <2>6. ASSUME NEW d \in Cpu, op'[d] # Tables!Idle
        PROVE  Walking(lv, rt, op[d])'
    <3>1. PICK o : o = op[d]
      BY Zenon
    <3>2. /\ Walking(lv, rt, o) /\ o.root \in Roots /\ o.page \in Pages /\ o.level \in 1 .. 4
          /\ Src \in Roots /\ op'[d] = o
      BY <1>1, <1>2, <2>1, <2>6, <3>1, Walker, Zenon DEF Roots
    <3>3. /\ Reached(o.root, o.page, o.level)' = Reached(o.root, o.page, o.level)
          /\ Tables!TableOf(Src, o.page)' = Tables!TableOf(Src, o.page)
      BY <2>4, <3>2, ReachedKept, WalkKept, Zenon
    <3>4. Walking(lv, rt, o)'
      BY <2>1, <2>3, <3>2, <3>3, Zenon DEF Walking, Points
    <3> QED
      BY <3>2, <3>4, Zenon DEF Walking
  <2>7. TablesOK(lv, rt)'
    BY <2>5, <2>6, Zenon DEF TablesOK
  <2> QED
    BY <2>2, <2>5, <2>7, Zenon DEF TablesInv, Effect
<1>4. ASSUME NEW c \in Cpu,
             NEW kind \in {"map", "invalidate", "copy"}, NEW r \in Roots, NEW p \in Pages,
             NEW t \in Targets \cup {0}, kind = "map" => t \in Targets, kind = "copy" => r = Src,
             Tables!Start(c, Tables!Begin(kind, r, p, t))
      PROVE  TablesInv' /\ Effect
  <2>1. TablesTypes' /\ TablesOK(lv, rt)' /\ SameSpace
    BY <1>1, <1>2, <1>4, StartStep, Zenon
  <2> QED
    BY <2>1, Zenon DEF TablesInv, Effect
<1>5. Src \in Roots /\ Dst \in Roots /\ ImageTarget \in Targets /\ ImagePages \subseteq Pages
  BY Zenon DEF PagingFits, Roots
<1>6. ASSUME NEW c \in Cpu, NEW p \in Pages, NEW t \in Targets,
             Tables!Start(c, Tables!Begin("map", Dst, p, t))
      PROVE  TablesInv' /\ Effect
  BY <1>4, <1>5, <1>6, Zenon
<1>7. ASSUME NEW c \in Cpu, NEW p \in ImagePages,
             Tables!Start(c, Tables!Begin("map", Src, p, ImageTarget))
      PROVE  TablesInv' /\ Effect
  BY <1>4, <1>5, <1>7, Zenon
<1>8. ASSUME NEW c \in Cpu, NEW p \in Pages,
             Tables!Start(c, Tables!Begin("invalidate", Dst, p, Tables!Nothing))
      PROVE  TablesInv' /\ Effect
  BY <1>4, <1>5, <1>8, Zenon DEF Tables!Nothing
<1>9. ASSUME NEW c \in Cpu, NEW p \in ImagePages,
             Tables!Start(c, Tables!Begin("copy", Src, p, Tables!Nothing))
      PROVE  TablesInv' /\ Effect
  BY <1>4, <1>5, <1>9, Zenon DEF Tables!Nothing
<1>10. ASSUME NEW c \in Cpu, Tables!Look(c)
       PROVE  TablesInv' /\ Effect
  <2>1. op[c] # Tables!Idle /\ op[c].pc = "walk" /\ op[c].level < 4
    BY <1>10, Zenon DEF Tables!Look, Tables!Levels
  <2>2. TablesTypes' /\ TablesOK(lv, rt)' /\ SameSpace
    <3>1. CASE /\ Tables!Present(Tables!At(c)) /\ op' = [op EXCEPT ![c].pc = "descend"]
               /\ mem' = mem /\ used' = used
      BY <1>1, <1>2, <2>1, <3>1, PresentStep, Zenon
    <3>2. CASE /\ ~Tables!Present(Tables!At(c)) /\ used < MaxFrames /\ used' = used + 1
               /\ mem' = [mem EXCEPT ![used + 1] = Tables!Zero]
               /\ op' = [op EXCEPT ![c].pc = "link", ![c].found = used + 1]
      BY <1>1, <1>2, <2>1, <3>2, AllocateStep, Zenon
    <3> QED
      BY <1>10, <3>1, <3>2, Zenon DEF Tables!Look, Tables!Cleared
  <2> QED
    BY <2>2, Zenon DEF TablesInv, Effect
<1>11. ASSUME NEW c \in Cpu, Tables!Link(c)
       PROVE  TablesInv' /\ Effect
  BY <1>1, <1>2, <1>11, LinkStep, Zenon DEF Effect
<1>12. ASSUME NEW c \in Cpu, Tables!Descend(c)
       PROVE  TablesInv' /\ Effect
  <2>1. TablesTypes' /\ TablesOK(lv, rt)' /\ SameSpace
    BY <1>1, <1>2, <1>12, DescendStep, Zenon
  <2> QED
    BY <2>1, Zenon DEF TablesInv, Effect
<1>13. ASSUME NEW c \in Cpu, Tables!CopySource(c)
       PROVE  TablesInv' /\ Effect
  <2>1. TablesTypes' /\ TablesOK(lv, rt)' /\ SameSpace
    BY <1>1, <1>2, <1>13, CopySourceStep, Zenon
  <2> QED
    BY <2>1, Zenon DEF TablesInv, Effect
<1>14. ASSUME NEW c \in Cpu,
              Tables!paging_map(c) \/ Tables!invalidate_paging_mapping(c) \/ Tables!CopyEntry(c)
       PROVE  TablesInv' /\ Effect
  BY <1>1, <1>2, <1>14, MapStep, InvalidateStep, CopyStep, Zenon
<1>15. CASE Tables!Next
  BY <1>6, <1>7, <1>8, <1>9, <1>10, <1>11, <1>12, <1>13, <1>14, <1>15, Zenon DEF Tables!Next
<1> QED
  BY <1>3, <1>15, Zenon

(* The tables are well formed at any time, and every frame allocated for a  *)
(* table is part of one of the structures or about to be, whatever the      *)
(* order in which pages are mapped, invalidated and copied:                 *)
(* get_paging_mem_overhead loses none.                                      *)
THEOREM TablesSafe ==
  ASSUME PagingFits
  PROVE  Tables!Spec => []Tables!TablesSound
<1>1. Tables!Init => TablesInv
  BY TablesStart, Zenon
<1>2. TablesInv /\ [Tables!Next]_(Tables!vars) => TablesInv'
  BY TablesStep, Zenon
<1>3. TablesInv => Tables!TablesSound
  BY TablesFollow, Zenon
<1> QED
  BY <1>1, <1>2, <1>3, PTL DEF Tables!Spec

LEMMA InitialSpace ==
  ASSUME PagingFits, Tables!Init, NEW r \in Roots, NEW p \in Pages
  PROVE  Tables!get_physical_address(r, p) = [to |-> 0, present |-> FALSE]
<1> DEFINE n == Cardinality(Index)
<1>1. n \in Nat /\ Index = 0 .. n - 1 /\ Tables!InitialFrames = 2 + 2 * n
  BY CountIndex, Zenon
<1>2. /\ \A i \in Index : /\ mem[1][i].present /\ mem[1][i].to = 3 + i
                          /\ mem[2][i].present /\ mem[2][i].to = 3 + n + i
      /\ \A f \in 3 .. Tables!InitialFrames, i \in Index : ~mem[f][i].present
  BY InitialTables, Zenon
<1> HIDE DEF n
<1>3. p[1] \in Index /\ p[2] \in Index /\ p[3] \in Index
  BY Indices, Zenon
<1>4. Second(r, p) \in 3 .. Tables!InitialFrames
  <2>1. CASE r = Src
    <3>1. Second(r, p) = 3 + p[1]
      BY <1>2, <1>3, <2>1 DEF Second, Tables!Child, Tables!RootFrame, Tables!Nothing
    <3> QED
      BY <1>1, <1>3, <3>1
  <2>2. CASE r # Src
    <3>1. Second(r, p) = 3 + n + p[1]
      BY <1>2, <1>3, <2>2 DEF Second, Tables!Child, Tables!RootFrame, Tables!Nothing
    <3> QED
      BY <1>1, <1>3, <3>1
  <2> QED
    BY <2>1, <2>2, Zenon
<1>5. Third(r, p) = 0
  BY <1>2, <1>3, <1>4, Zenon DEF Third, Tables!Child, Tables!Nothing
<1>6. Tables!TableOf(r, p) = 0
  <2>1. Tables!TableOf(r, p) = Tables!Child(Third(r, p), p[3])
    BY Zenon DEF Tables!TableOf, Third, Second
  <2> QED
    BY <1>5, <2>1, ChildOfNothing, Zenon
<1> QED
  BY <1>6, Zenon DEF Tables!get_physical_address, Tables!Nothing

LEMMA SpaceInit ==
  ASSUME PagingFits, Tables!Init
  PROVE  Tables!Space!Init
BY InitialSpace, Zenon DEF Tables!Space!Init, Tables!Roots, Roots, Tables!Nothing

(* A page that is mapped stays mapped, in both structures and whatever else *)
(* is mapped, copied or built, until it is invalidated itself.              *)
THEOREM MappingsStay ==
  ASSUME PagingFits
  PROVE  Tables!Spec => Tables!MappingKept
<1> DEFINE Kept == \A r \in Tables!Roots, p \in Pages :
             Tables!get_physical_address(r, p).present /\ ~Tables!get_physical_address(r, p)'.present =>
               \E c \in Cpu : op[c] # Tables!Idle /\ op[c].kind = "invalidate" /\ op[c].page = p
<1>1. Tables!Init => TablesInv
  BY TablesStart, Zenon
<1>2. TablesInv /\ [Tables!Next]_(Tables!vars) => TablesInv'
  BY TablesStep, Zenon
<1>3. TablesInv /\ [Tables!Next]_(Tables!vars) => [Kept]_(Tables!vars)
  <2> SUFFICES ASSUME TablesInv, [Tables!Next]_(Tables!vars),
                      NEW r \in Roots, NEW p \in Pages,
                      Tables!get_physical_address(r, p).present,
                      ~Tables!get_physical_address(r, p)'.present
               PROVE  \E c \in Cpu : /\ op[c] # Tables!Idle /\ op[c].kind = "invalidate"
                                     /\ op[c].page = p
    BY Zenon DEF Tables!Roots, Roots
  <2>1. Effect
    BY TablesStep, Zenon
  <2>2. ~SameSpace
    BY Zenon DEF SameSpace
  <2>3. PICK s \in Roots, q \in Pages : Ended(s, q)
    BY <2>1, <2>2, Zenon DEF Effect
  <2>4. ASSUME NEW e, OnlyAt(s, q, e)
        PROVE  s = r /\ q = p /\ ~e.present
    BY <2>4, Zenon DEF OnlyAt
  <2>5. ASSUME NEW t, OnlyAt(s, q, [to |-> t, present |-> TRUE])
        PROVE  FALSE
    <3>1. PICK e : e = [to |-> t, present |-> TRUE]
      BY Zenon
    <3>2. ~e.present
      BY <2>4, <2>5, <3>1, Zenon
    <3> QED
      BY <3>1, <3>2, Zenon
  <2>6. PICK c, e : /\ c \in Cpu /\ op[c] # Tables!Idle /\ op[c].kind = "invalidate"
                    /\ op[c].page = q /\ OnlyAt(s, q, [e EXCEPT !.present = FALSE])
    BY <2>3, <2>5, Zenon DEF Ended
  <2>7. q = p
    BY <2>4, <2>6, Zenon
  <2> QED
    BY <2>6, <2>7, Zenon
<1> QED
  BY <1>1, <1>2, <1>3, PTL DEF Tables!Spec, Tables!MappingKept

(* The structures as the function that AddressSpace changes.                *)
Found == [x \in Roots \X Pages |-> Tables!get_physical_address(x[1], x[2])]

LEMMA FoundAt ==
  ASSUME NEW r \in Roots, NEW p \in Pages
  PROVE  /\ Found[<<r, p>>] = Tables!get_physical_address(r, p)
         /\ Found'[<<r, p>>] = Tables!get_physical_address(r, p)'
BY Zenon DEF Found

LEMMA FoundSame ==
  ASSUME SameSpace PROVE Found' = Found
BY Zenon DEF SameSpace, Found

LEMMA FoundAlone ==
  ASSUME NEW r \in Roots, NEW p \in Pages, NEW e, OnlyAt(r, p, e)
  PROVE  Found' = [Found EXCEPT ![<<r, p>>] = e]
<1>1. \A x \in Roots \X Pages :
        /\ x = <<r, p>> => Tables!get_physical_address(x[1], x[2])' = e
        /\ x # <<r, p>> => Tables!get_physical_address(x[1], x[2])'
                             = Tables!get_physical_address(x[1], x[2])
  BY DEF OnlyAt
<1>2. <<r, p>> \in Roots \X Pages
  BY Zenon
<1> QED
  BY <1>1, <1>2, Zenon DEF Found

LEMMA SpaceStep ==
  ASSUME PagingFits, Effect
  PROVE  Tables!Space!Next \/ Found' = Found
<1>1. CASE SameSpace
  BY <1>1, FoundSame, Zenon
<1>2. ASSUME NEW r \in Roots, NEW p \in Pages, Ended(r, p)
      PROVE  Tables!Space!Next
  <2>1. CASE \E t \in Targets : OnlyAt(r, p, [to |-> t, present |-> TRUE])
    <3>1. PICK t \in Targets : OnlyAt(r, p, [to |-> t, present |-> TRUE])
      BY <2>1, Zenon
    <3>2. Found' = [Found EXCEPT ![<<r, p>>] = [to |-> t, present |-> TRUE]]
      BY <3>1, FoundAlone, Zenon
    <3>3. Tables!Space!Map(r, p, t)
      BY <3>2, Zenon DEF Tables!Space!Map, Found, Tables!Roots, Roots
    <3> QED
      BY <3>3, Zenon DEF Tables!Space!Next, Tables!Roots, Roots
  <2>2. CASE \E e : /\ e = Tables!get_physical_address(r, p)
                    /\ OnlyAt(r, p, [e EXCEPT !.present = FALSE])
    <3>1. PICK e : /\ e = Tables!get_physical_address(r, p)
                   /\ OnlyAt(r, p, [e EXCEPT !.present = FALSE])
      BY <2>2, Zenon
    <3>2. Found' = [Found EXCEPT ![<<r, p>>] = [e EXCEPT !.present = FALSE]]
      BY <3>1, FoundAlone
    <3>3. e = Found[<<r, p>>]
      BY <3>1, FoundAt, Zenon
    <3>4. Found' = [Found EXCEPT ![<<r, p>>].present = FALSE]
      BY <3>2, <3>3, Zenon
    <3>5. Tables!Space!Invalidate(r, p)
      BY <3>4, Zenon DEF Tables!Space!Invalidate, Found, Tables!Roots, Roots
    <3> QED
      BY <3>5, Zenon DEF Tables!Space!Next, Tables!Roots, Roots
  <2>3. CASE \E e : /\ e = Tables!get_physical_address(Src, p)
                    /\ OnlyAt(r, p, [to |-> e.to, present |-> TRUE])
    <3>1. PICK e : /\ e = Tables!get_physical_address(Src, p)
                   /\ OnlyAt(r, p, [to |-> e.to, present |-> TRUE])
      BY <2>3, Zenon
    <3>2. Found' = [Found EXCEPT ![<<r, p>>] = [to |-> e.to, present |-> TRUE]]
      BY <3>1, FoundAlone
    <3>3. e = Found[<<Src, p>>] /\ Src \in Roots
      BY <3>1, FoundAt, Zenon DEF Roots
    <3>4. Tables!Space!Copy(Src, r, p)
      BY <3>2, <3>3, Zenon DEF Tables!Space!Copy, Found, Tables!Roots, Roots
    <3> QED
      BY <3>3, <3>4, Zenon DEF Tables!Space!Next, Tables!Roots, Roots
  <2> QED
    BY <1>2, <2>1, <2>2, <2>3, Zenon DEF Ended
<1> QED
  BY <1>1, <1>2, Zenon DEF Effect

(* The walked tables implement the function from pages to frames that hal.h *)
(* promises: a mapping appears in one step, building tables shows nothing,  *)
(* and no page changes but the one that is mapped, invalidated or copied.   *)
THEOREM TablesImplement ==
  ASSUME PagingFits
  PROVE  Tables!Spec => Tables!BehavesAsFunction
<1>1. Tables!Init => TablesInv /\ Tables!Space!Init
  BY TablesStart, SpaceInit, Zenon
<1>2. TablesInv /\ [Tables!Next]_(Tables!vars) => TablesInv'
  BY TablesStep, Zenon
<1>3. TablesInv /\ [Tables!Next]_(Tables!vars) =>
        [Tables!Space!Next]_[x \in Tables!Roots \X Pages |-> Tables!get_physical_address(x[1], x[2])]
  <2> SUFFICES ASSUME TablesInv, [Tables!Next]_(Tables!vars)
               PROVE  Tables!Space!Next \/ Found' = Found
    BY Zenon DEF Found, Tables!Roots, Roots
  <2>1. Effect
    BY TablesStep, Zenon
  <2> QED
    BY <2>1, SpaceStep, Zenon
<1> QED
  BY <1>1, <1>2, <1>3, PTL DEF Tables!Spec, Tables!BehavesAsFunction, Tables!Space!Spec
=============================================================================

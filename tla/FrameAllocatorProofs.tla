------------------------ MODULE FrameAllocatorProofs ------------------------
(***************************************************************************)
(* Proofs about FrameAllocator, for every memory map and every size.       *)
(***************************************************************************)
EXTENDS FrameAllocator, FiniteSetTheorems, SequenceTheorems, TLAPS

------------------------------------------------------------------------------
(* Cutting n pages off the front of range i.                               *)

\* Taking the first n numbers off an interval.
LEMMA IntervalCut ==
    ASSUME NEW a \in Nat, NEW z \in Nat, NEW n \in Nat, n <= z
    PROVE  /\ (a + n) .. ((a + n) + (z - n) - 1)
                = (a .. (a + z - 1)) \ (a .. (a + n - 1))
           /\ (a .. (a + n - 1)) \subseteq (a .. (a + z - 1))
  OBVIOUS

\* Moving a range's start forward gives a range of the map again.
LEMMA AdvanceType ==
    ASSUME NEW rs \in Seq(PhysicalMemoryRange), NEW i \in 1..Len(rs),
           NEW n \in Nat, n <= rs[i].size
    PROVE  /\ Advance(rs, i, n) \in Seq(PhysicalMemoryRange)
           /\ Len(Advance(rs, i, n)) = Len(rs)
           /\ \A j \in 1..Len(rs) :
                RangeFrames(Advance(rs, i, n)[j]) =
                    IF j = i
                    THEN RangeFrames(rs[i]) \ (rs[i].start .. (rs[i].start + n - 1))
                    ELSE RangeFrames(rs[j])
<1>1. rs[i] \in PhysicalMemoryRange
  OBVIOUS
<1> DEFINE r == [start |-> rs[i].start + n, size |-> rs[i].size - n]
<1>2. r \in PhysicalMemoryRange
  <2>1. rs[i].start \in Nat \ {0} /\ rs[i].size \in Nat
    BY <1>1 DEF PhysicalMemoryRange
  <2>2. rs[i].start + n \in Nat \ {0} /\ rs[i].size - n \in Nat
    BY <2>1
  <2> QED
    BY <2>2, Zenon DEF PhysicalMemoryRange
<1>3. /\ Advance(rs, i, n) \in Seq(PhysicalMemoryRange)
      /\ Len(Advance(rs, i, n)) = Len(rs)
      /\ \A j \in 1..Len(rs) :
            Advance(rs, i, n)[j] = IF j = i THEN r ELSE rs[j]
  BY <1>2 DEF Advance
<1>4. RangeFrames(r) = RangeFrames(rs[i]) \ (rs[i].start .. (rs[i].start + n - 1))
  <2> DEFINE a == rs[i].start
             z == rs[i].size
  <2>1. a \in Nat /\ z \in Nat /\ n <= z
    BY <1>1, Zenon DEF PhysicalMemoryRange
  <2>2. RangeFrames(rs[i]) = a .. (a + z - 1)
    BY Zenon DEF RangeFrames
  <2>3. RangeFrames(r) = (a + n) .. ((a + n) + (z - n) - 1)
    BY DEF RangeFrames
  <2> HIDE DEF a, z, r
  <2>4. RangeFrames(r) = RangeFrames(rs[i]) \ (a .. (a + n - 1))
    <3>1. (a + n) .. ((a + n) + (z - n) - 1)
             = (a .. (a + z - 1)) \ (a .. (a + n - 1))
      BY <2>1, IntervalCut
    <3> QED
      BY <2>2, <2>3, <3>1
  <2> QED
    BY <2>4, Zenon DEF a
<1> QED
  BY <1>3, <1>4, Zenon

\* The frames of a range whose start has moved are the ones beyond the cut.
LEMMA AdvanceFrames ==
    ASSUME NEW rs \in Seq(PhysicalMemoryRange), NEW i \in 1..Len(rs),
           NEW n \in Nat, n <= rs[i].size, Disjoint(rs)
    PROVE  /\ Disjoint(Advance(rs, i, n))
           /\ FramesOf(Advance(rs, i, n)) =
                FramesOf(rs) \ (rs[i].start .. (rs[i].start + n - 1))
           /\ (rs[i].start .. (rs[i].start + n - 1)) \subseteq FramesOf(rs)
<1> DEFINE as  == Advance(rs, i, n)
           cut == rs[i].start .. (rs[i].start + n - 1)
<1>1. /\ Len(as) = Len(rs)
      /\ \A j \in 1..Len(rs) :
            RangeFrames(as[j]) = IF j = i THEN RangeFrames(rs[i]) \ cut
                                          ELSE RangeFrames(rs[j])
  BY AdvanceType, Zenon
<1>2. cut \subseteq RangeFrames(rs[i])
  <2>1. rs[i] \in PhysicalMemoryRange
    OBVIOUS
  <2>2. rs[i].start \in Nat /\ rs[i].size \in Nat
    BY <2>1, Zenon DEF PhysicalMemoryRange
  <2> QED
    BY <2>2, IntervalCut, Zenon DEF RangeFrames
<1>3. \A j \in 1..Len(rs) : j # i => RangeFrames(rs[j]) \cap cut = {}
  BY <1>2, Zenon DEF Disjoint
<1> HIDE DEF as, cut
<1>4. Disjoint(as)
  <2> SUFFICES ASSUME NEW j \in 1..Len(rs), NEW k \in 1..Len(rs), j # k
               PROVE  RangeFrames(as[j]) \cap RangeFrames(as[k]) = {}
    BY <1>1, Zenon DEF Disjoint
  <2>1. RangeFrames(rs[j]) \cap RangeFrames(rs[k]) = {}
    BY Zenon DEF Disjoint
  <2>2. /\ RangeFrames(as[j]) \subseteq RangeFrames(rs[j])
        /\ RangeFrames(as[k]) \subseteq RangeFrames(rs[k])
    BY <1>1, Zenon
  <2> QED
    BY <2>1, <2>2, Zenon
<1>5. FramesOf(as) = FramesOf(rs) \ cut
  <2>1. RangeFrames(as[i]) = RangeFrames(rs[i]) \ cut
    BY <1>1, Zenon
  <2>2. \A j \in 1..Len(rs) : j # i => RangeFrames(as[j]) = RangeFrames(rs[j]) \ cut
    BY <1>1, <1>3, Zenon
  <2>3. \A j \in 1..Len(rs) : RangeFrames(as[j]) = RangeFrames(rs[j]) \ cut
    BY <2>1, <2>2, Zenon
  <2>4. ASSUME NEW x
        PROVE  x \in FramesOf(as) <=> x \in FramesOf(rs) /\ x \notin cut
    <3>1. x \in FramesOf(as) <=> \E j \in 1..Len(rs) : x \in RangeFrames(as[j])
      BY <1>1, Zenon DEF FramesOf
    <3>2. x \in FramesOf(rs) <=> \E j \in 1..Len(rs) : x \in RangeFrames(rs[j])
      BY Zenon DEF FramesOf
    <3> QED
      BY <2>3, <3>1, <3>2, Zenon
  <2> QED
    BY <2>4, Zenon
<1>6. cut \subseteq FramesOf(rs)
  BY <1>2, Zenon DEF FramesOf
<1> QED
  BY <1>4, <1>5, <1>6 DEF as, cut

------------------------------------------------------------------------------
(* Pushing on and popping off the frame stack.                             *)

Entries(s) == {s[i] : i \in 1..Len(s)}

NoRepeat(s) == \A i, j \in 1..Len(s) : s[i] = s[j] => i = j

\* Pushing a frame adds exactly that frame to the stack's entries.
LEMMA PushEntries ==
    ASSUME NEW S, NEW s \in Seq(S), NEW f \in S, NoRepeat(s), f \notin Entries(s)
    PROVE  /\ Append(s, f) \in Seq(S)
           /\ Len(Append(s, f)) = Len(s) + 1
           /\ NoRepeat(Append(s, f))
           /\ Entries(Append(s, f)) = Entries(s) \cup {f}
<1>1. /\ Append(s, f) \in Seq(S)
      /\ Len(Append(s, f)) = Len(s) + 1
      /\ \A i \in 1..(Len(s) + 1) :
            Append(s, f)[i] = IF i = Len(s) + 1 THEN f ELSE s[i]
  OBVIOUS
<1> QED
  BY <1>1 DEF NoRepeat, Entries

\* Popping removes exactly the top entry, which occurs once.
LEMMA PopEntries ==
    ASSUME NEW S, NEW s \in Seq(S), s # <<>>, NoRepeat(s)
    PROVE  LET t == SubSeq(s, 1, Len(s) - 1)
           IN  /\ t \in Seq(S)
               /\ Len(t) = Len(s) - 1
               /\ NoRepeat(t)
               /\ s[Len(s)] \in Entries(s)
               /\ Entries(t) = Entries(s) \ {s[Len(s)]}
<1> DEFINE t == SubSeq(s, 1, Len(s) - 1)
<1>1. Len(s) \in Nat /\ Len(s) > 0
  OBVIOUS
<1>2. /\ t \in Seq(S)
      /\ Len(t) = Len(s) - 1
      /\ \A i \in 1..(Len(s) - 1) : t[i] = s[i]
  <2>1. \A i \in 1..(Len(s) - 1) : s[i] \in S
    OBVIOUS
  <2>2. /\ t \in Seq(S)
        /\ Len(t) = IF 1 <= Len(s) - 1 THEN Len(s) - 1 - 1 + 1 ELSE 0
        /\ \A i \in 1..(Len(s) - 1 - 1 + 1) : t[i] = s[1 + i - 1]
    BY <1>1, <2>1, SubSeqProperties
  <2> HIDE DEF t
  <2>3. Len(t) = Len(s) - 1
    <3>1. CASE 1 <= Len(s) - 1
      BY <1>1, <2>2, <3>1
    <3>2. CASE ~(1 <= Len(s) - 1)
      <4>1. Len(t) = 0
        BY <2>2, <3>2, Zenon
      <4> DEFINE n == Len(s)
      <4>2. n \in Nat /\ n > 0 /\ ~(1 <= n - 1)
        BY <1>1, <3>2, Zenon
      <4> HIDE DEF n
      <4>3. n - 1 = 0
        BY <4>2
      <4> QED
        BY <4>1, <4>3, Zenon DEF n
    <3> QED
      BY <3>1, <3>2, Zenon
  <2>4. ASSUME NEW i \in 1..(Len(s) - 1)
        PROVE  t[i] = s[i]
    <3>1. i \in 1..(Len(s) - 1 - 1 + 1) /\ 1 + i - 1 = i
      BY <1>1
    <3> QED
      BY <2>2, <3>1, Zenon
  <2> QED
    BY <2>2, <2>3, <2>4, Zenon
<1> HIDE DEF t
<1>3. NoRepeat(t)
  BY <1>1, <1>2 DEF NoRepeat
<1>4. s[Len(s)] \in Entries(s)
  BY <1>1 DEF Entries
<1>5. Entries(t) = Entries(s) \ {s[Len(s)]}
  BY <1>1, <1>2 DEF Entries, NoRepeat
<1> QED
  BY <1>2, <1>3, <1>4, <1>5, Zenon DEF t

------------------------------------------------------------------------------
(* Counting.                                                               *)

\* Every set of frames is finite.
LEMMA FrameSetsFinite ==
    ASSUME NEW S, S \subseteq Frame
    PROVE  IsFiniteSet(S) /\ Cardinality(S) \in Nat
<1>1. IsFiniteSet(Frame)
  BY ConstAssumption, FS_Interval DEF Frame
<1>2. IsFiniteSet(S)
  BY <1>1, FS_Subset, Zenon
<1> QED
  BY <1>2, FS_CardinalityType, Zenon

\* A range has as many frames as its size says.
LEMMA RangeCardinality ==
    ASSUME NEW r \in PhysicalMemoryRange
    PROVE  IsFiniteSet(RangeFrames(r)) /\ Cardinality(RangeFrames(r)) = r.size
<1> DEFINE a == r.start
           z == r.size
<1>1. a \in Nat /\ z \in Nat
  BY Zenon DEF PhysicalMemoryRange
<1> HIDE DEF a, z
<1>2. /\ IsFiniteSet(a .. (a + z - 1))
      /\ Cardinality(a .. (a + z - 1)) =
            IF a > a + z - 1 THEN 0 ELSE (a + z - 1) - a + 1
  BY <1>1, FS_Interval
<1>3. CASE z = 0
  BY <1>1, <1>2, <1>3 DEF RangeFrames, a, z
<1>4. CASE z > 0
  <2>1. ~(a > a + z - 1) /\ (a + z - 1) - a + 1 = z
    BY <1>1, <1>4
  <2>2. Cardinality(a .. (a + z - 1)) = z
    BY <1>2, <2>1, Zenon
  <2> QED
    BY <1>2, <2>2, Zenon DEF RangeFrames, a, z
<1> QED
  BY <1>1, <1>3, <1>4

\* The stack has an entry for every page of usable RAM.
LEMMA StackHoldsAll ==
    ASSUME NEW u \in Nat
    PROVE  /\ NeededEntries(u) \in Nat
           /\ u < NeededEntries(u)
           /\ NeededPages(u) \in Nat
<1> DEFINE n == u + EntriesPerPage
<1>1. n \in Nat /\ u < n /\ EntriesPerPage \in Nat /\ EntriesPerPage > 0
  BY ConstAssumption
<1>2. n % EntriesPerPage \in 0..(EntriesPerPage - 1)
  BY <1>1
<1> HIDE DEF n
<1>3. NeededEntries(u) = n - (n % EntriesPerPage) + EntriesPerPage
  BY DEF NeededEntries, n
<1>4. NeededEntries(u) \in Nat /\ u < NeededEntries(u)
  <2> DEFINE m == n % EntriesPerPage
  <2>1. m \in Int /\ m >= 0 /\ m < EntriesPerPage
    BY <1>1, <1>2
  <2>2. NeededEntries(u) = n - m + EntriesPerPage
    BY <1>3, Zenon
  <2> HIDE DEF m
  <2>3. n >= EntriesPerPage
    BY <1>1, ConstAssumption DEF n
  <2> QED
    BY <1>1, <2>1, <2>2, <2>3
<1>5. NeededPages(u) \in Nat
  <2> DEFINE k == NeededEntries(u)
  <2>1. k \in Nat
    BY <1>4, Zenon
  <2> HIDE DEF k
  <2>2. k \div EntriesPerPage \in Nat
    BY <1>1, <2>1
  <2> QED
    BY <2>2, Zenon DEF NeededPages, k
<1> QED
  BY <1>4, <1>5, Zenon

------------------------------------------------------------------------------
(* Moving one frame between the free frames and the callers, however it is *)
(* done, keeps the books.                                                  *)

\* A frame that moves from the free ones to the callers keeps the counter exact.
LEMMA TakeKeepsBooks ==
    ASSUME IndInv, phase = "ready", phase' = "ready",
           NEW f, f \in FreeFrames,
           FreeFrames' = FreeFrames \ {f},
           allocated' = allocated \cup {f},
           free_frames' = Dec(free_frames),
           cached' # 0,
           UNCHANGED <<usable_ram, stack_base>>
    PROVE  /\ free_frames' \in 0..UINT64_MAX
           /\ allocated' \cap FreeFrames' = {}
           /\ allocated' \subseteq Frame
           /\ Accounting'
           /\ StackMemoryReserved'
           /\ FramesBounded'
<1>1. cached # 0
  BY Zenon DEF IndInv, StackSized
<1>2. FreeFrames \subseteq Frame /\ f \in Frame /\ allocated \subseteq Frame
  BY DEF IndInv, FramesBounded
<1>3. IsFiniteSet(FreeFrames) /\ Cardinality(FreeFrames) \in Nat
  BY <1>2, FrameSetsFinite, Zenon
<1>4. Cardinality(FreeFrames \ {f}) = Cardinality(FreeFrames) - 1
  BY <1>3, FS_RemoveElement
<1>5. Cardinality(FreeFrames) # 0
  BY <1>3, FS_EmptySet, Zenon
<1>6. free_frames = Cardinality(FreeFrames)
  BY DEF IndInv, Accounting, get_number_of_free_frames
<1>7. free_frames' = Cardinality(FreeFrames')
  BY <1>3, <1>4, <1>5, <1>6 DEF Dec
<1>8. free_frames' \in 0..UINT64_MAX
  BY <1>3, <1>5, <1>6, ConstAssumption DEF Dec, IndInv, TypeOK
<1>9. Accounting'
  BY <1>7, Zenon DEF Accounting, get_number_of_free_frames
<1>10. allocated' \cap FreeFrames' = {}
  BY Zenon DEF IndInv, NoFrameTwice
<1>11. FreeFrames' \cup allocated' = FreeFrames \cup allocated
  BY Zenon
<1>12. FramesBounded'
  BY <1>11, Zenon DEF IndInv, FramesBounded
<1>13. StackMemoryReserved'
  <2>1. StackArea' = StackArea
    BY <1>1, Zenon DEF StackArea
  <2> QED
    BY <1>11, <2>1, Zenon DEF IndInv, StackMemoryReserved
<1> QED
  BY <1>2, <1>8, <1>9, <1>10, <1>12, <1>13

\* A frame that a caller gives back keeps the counter exact.
LEMMA ReturnKeepsBooks ==
    ASSUME IndInv, phase = "ready", phase' = "ready",
           NEW f, f \in allocated,
           FreeFrames' = FreeFrames \cup {f},
           allocated' = allocated \ {f},
           free_frames' = Inc(free_frames),
           UNCHANGED <<usable_ram, stack_base, cached>>
    PROVE  /\ free_frames' \in 0..UINT64_MAX
           /\ allocated' \cap FreeFrames' = {}
           /\ allocated' \subseteq Frame
           /\ Accounting'
           /\ StackMemoryReserved'
           /\ FramesBounded'
<1>1. /\ FreeFrames \cup allocated \subseteq Frame
      /\ f \in FreeFrames \cup allocated
      /\ f \notin FreeFrames
  BY Zenon DEF IndInv, FramesBounded, NoFrameTwice
<1>2. /\ IsFiniteSet(FreeFrames) /\ Cardinality(FreeFrames) \in Nat
      /\ IsFiniteSet(FreeFrames \cup allocated)
      /\ Cardinality(FreeFrames \cup allocated) \in Nat
  BY <1>1, FrameSetsFinite, Zenon
<1>3. Cardinality(FreeFrames \cup {f}) = Cardinality(FreeFrames) + 1
  BY <1>1, <1>2, FS_AddElement, Zenon
<1>4. free_frames = Cardinality(FreeFrames)
  BY Zenon DEF IndInv, Accounting, get_number_of_free_frames
<1>5. Cardinality(FreeFrames) <= Cardinality(FreeFrames \cup allocated)
  BY <1>2, FS_Subset
<1>6. free_frames < UINT64_MAX
  BY <1>2, <1>4, <1>5, ConstAssumption DEF IndInv, FramesBounded, TypeOK
<1>7. free_frames' = Cardinality(FreeFrames')
  BY <1>2, <1>3, <1>4, <1>6 DEF Inc
<1>8. free_frames' \in 0..UINT64_MAX
  BY <1>2, <1>4, <1>6, ConstAssumption DEF Inc
<1>9. Accounting'
  BY <1>7, Zenon DEF Accounting, get_number_of_free_frames
<1>10. allocated' \cap FreeFrames' = {}
  BY Zenon DEF IndInv, NoFrameTwice
<1>11. FreeFrames' \cup allocated' = FreeFrames \cup allocated
  BY Zenon
<1>12. FramesBounded'
  BY <1>11 DEF IndInv, FramesBounded
<1>13. StackMemoryReserved'
  <2>1. StackArea' = StackArea
    BY DEF StackArea
  <2> QED
    BY <1>11, <2>1 DEF IndInv, StackMemoryReserved
<1> QED
  BY <1>1, <1>8, <1>9, <1>10, <1>12, <1>13

------------------------------------------------------------------------------
(* The invariant holds when init_frame_allocator is entered.               *)

\* The state before init_frame_allocator satisfies the invariant.
LEMMA InitEstablishes == Init => IndInv
<1> SUFFICES ASSUME Init PROVE IndInv
  BY Zenon
<1>1. PICK m \in MemoryMaps : free_ranges = m.free_ranges /\ usable_ram = m.usable_ram
  BY Zenon DEF Init
<1>2. /\ free_ranges \in Seq(PhysicalMemoryRange)
      /\ usable_ram \in Nat
      /\ usable_ram < UINT64_MAX
      /\ Disjoint(free_ranges)
      /\ FramesOf(free_ranges) \subseteq Frame
      /\ Cardinality(FramesOf(free_ranges)) <= usable_ram
  BY <1>1, MapAssumption
<1>3. stack = <<>> /\ allocated = {} /\ StackFrames = {}
  BY DEF Init, StackFrames
<1>4. FreeFrames \cup allocated = FramesOf(free_ranges)
  BY <1>3, Zenon DEF FreeFrames
<1>5. TypeOK
  <2>1. Len(free_ranges) \in Nat /\ stack \in Seq(Frame)
    BY <1>2, <1>3
  <2>2. cached \in 0..Len(free_ranges) /\ counted \in 0..Len(free_ranges)
    BY <2>1 DEF Init
  <2>3. free_frames \in 0..UINT64_MAX
    BY ConstAssumption DEF Init
  <2> QED
    BY <1>2, <1>3, <2>1, <2>2, <2>3, Zenon DEF Init, TypeOK
<1>6. NoFrameTwice
  BY <1>2, <1>3 DEF NoFrameTwice
<1>7. StackMemoryReserved
  BY Zenon DEF Init, StackMemoryReserved, StackArea
<1>8. BootProgress
  <2>1. CountedFrames = {}
    BY DEF Init, CountedFrames
  <2> QED
    BY <2>1, FS_EmptySet DEF Init, BootProgress
<1>9. FramesBounded
  BY <1>2, <1>4, Zenon DEF FramesBounded
<1>10. StackSized
  BY <1>3, FS_EmptySet, Zenon DEF Init, StackSized
<1>11. BootFrames
  BY <1>3, Zenon DEF BootFrames
<1>12. Accounting /\ DeallocNeverPanics /\ PanicOnlyWhenExhausted
  BY Zenon DEF Init, Accounting, DeallocNeverPanics, PanicOnlyWhenExhausted
<1> QED
  BY <1>5, <1>6, <1>7, <1>8, <1>9, <1>10, <1>11, <1>12 DEF IndInv

------------------------------------------------------------------------------
(* init_frame_allocator.                                                   *)

\* Reserving the frame stack's memory keeps the invariant.
LEMMA FindStackRangeStep == IndInv /\ FindStackRange => IndInv'
<1> SUFFICES ASSUME IndInv, FindStackRange PROVE IndInv'
  BY Zenon
<1> DEFINE pages == NeededPages(usable_ram)
<1>1. /\ phase = "find" /\ phase' = "count"
      /\ counted = 0 /\ counted' = 0 /\ cached = 0
      /\ stack = <<>> /\ stack' = <<>>
      /\ allocated = {} /\ allocated' = {}
      /\ hal_initialized = FALSE /\ hal_initialized' = FALSE
      /\ usable_ram' = usable_ram /\ free_frames' = free_frames
  BY Zenon DEF FindStackRange, IndInv, BootProgress, Booting, TypeOK
<1>2. StackFrames = {} /\ StackFrames' = {}
  BY <1>1 DEF StackFrames
<1>3. FreeFrames \cup allocated = FramesOf(free_ranges)
  BY <1>1, <1>2, Zenon DEF FreeFrames
<1>4. (FreeFrames \cup allocated)' = FramesOf(free_ranges')
  BY <1>1, <1>2 DEF FreeFrames, FramesOf
<1>5. usable_ram \in Nat /\ NeededEntries(usable_ram) \in Nat /\ pages \in Nat
  BY StackHoldsAll, Zenon DEF IndInv, TypeOK
<1>6. BootProgress'
  <2>1. CountedFrames = {} /\ CountedFrames' = {}
    BY <1>1 DEF CountedFrames
  <2>2. free_frames = Cardinality(CountedFrames)
    BY <1>1, Zenon DEF IndInv, BootProgress, Booting
  <2> QED
    BY <1>1, <2>1, <2>2 DEF BootProgress, Booting
<1>7. BootFrames' /\ Accounting' /\ DeallocNeverPanics' /\ PanicOnlyWhenExhausted'
  BY <1>1, <1>2, Zenon DEF BootFrames, Accounting, DeallocNeverPanics,
                    PanicOnlyWhenExhausted
<1>8. CASE UNCHANGED <<cached, stack_base, stack_max, free_ranges>>
  <2>1. FramesOf(free_ranges') = FramesOf(free_ranges)
    BY <1>8, Zenon
  <2>2. TypeOK'
    BY <1>1, <1>8, Zenon DEF IndInv, TypeOK
  <2>3. NoFrameTwice'
    BY <1>1, <1>2, <1>8 DEF IndInv, NoFrameTwice
  <2>4. StackMemoryReserved'
    BY <1>1, <1>8, Zenon DEF StackMemoryReserved, StackArea
  <2>5. FramesBounded'
    BY <1>1, <1>3, <1>4, <2>1 DEF IndInv, FramesBounded
  <2>6. StackSized'
    BY <1>1, <1>2, <1>8, FS_EmptySet DEF StackSized
  <2> QED
    BY <1>6, <1>7, <2>2, <2>3, <2>4, <2>5, <2>6 DEF IndInv
<1>9. ASSUME NEW i \in 1..Len(free_ranges),
             IsFirst(i, StackCandidates),
             cached' = i,
             stack_base' = free_ranges[i].start,
             stack_max' = NeededEntries(usable_ram),
             free_ranges' = Advance(free_ranges, i, pages)
      PROVE  IndInv'
  <2> DEFINE cut == free_ranges[i].start .. (free_ranges[i].start + pages - 1)
  <2>1. /\ free_ranges[i].size >= pages
        /\ UsableInBootstage(free_ranges[i].start, pages)
    BY <1>9, Zenon DEF IsFirst, StackCandidates
  <2>2. /\ free_ranges \in Seq(PhysicalMemoryRange)
        /\ Disjoint(free_ranges)
        /\ free_ranges[i] \in PhysicalMemoryRange
    BY DEF IndInv, TypeOK, NoFrameTwice
  <2>3. free_ranges[i].start \in Nat /\ free_ranges[i].size \in Nat
    BY <2>2, Zenon DEF PhysicalMemoryRange
  <2>4. /\ free_ranges' \in Seq(PhysicalMemoryRange)
        /\ Len(free_ranges') = Len(free_ranges)
    BY <1>5, <1>9, <2>1, <2>2, <2>3, AdvanceType, Zenon
  <2>5. /\ Disjoint(free_ranges')
        /\ FramesOf(free_ranges') = FramesOf(free_ranges) \ cut
    BY <1>5, <1>9, <2>1, <2>2, <2>3, AdvanceFrames
  <2>6. TypeOK'
    <3>1. cached' \in 0..Len(free_ranges') /\ counted' \in 0..Len(free_ranges')
      BY <1>1, <1>9, <2>4
    <3>2. stack' \in Seq(Frame) /\ free_frames' \in 0..UINT64_MAX
      BY <1>1 DEF IndInv, TypeOK
    <3> QED
      BY <1>1, <1>5, <1>9, <2>3, <2>4, <3>1, <3>2, Zenon DEF TypeOK
  <2>7. NoFrameTwice'
    BY <1>1, <1>2, <2>5 DEF NoFrameTwice
  <2>8. StackMemoryReserved'
    <3>1. StackArea' = cut
      BY <1>1, <1>9 DEF StackArea
    <3> QED
      BY <1>4, <2>5, <3>1 DEF StackMemoryReserved
  <2>9. FramesBounded'
    <3>1. FramesOf(free_ranges') \subseteq FramesOf(free_ranges)
      BY <2>5, Zenon
    <3>2. FramesOf(free_ranges) \subseteq Frame
      BY <1>3, Zenon DEF IndInv, FramesBounded
    <3>3. /\ IsFiniteSet(FramesOf(free_ranges))
          /\ Cardinality(FramesOf(free_ranges)) \in Nat
          /\ Cardinality(FramesOf(free_ranges')) \in Nat
      BY <3>1, <3>2, FrameSetsFinite
    <3>4. Cardinality(FramesOf(free_ranges')) <= Cardinality(FramesOf(free_ranges))
      BY <3>1, <3>3, FS_Subset
    <3>5. Cardinality(FramesOf(free_ranges')) <= usable_ram
      <4>1. Cardinality(FramesOf(free_ranges)) <= usable_ram
        BY <1>3, Zenon DEF IndInv, FramesBounded
      <4> QED
        BY <1>5, <3>3, <3>4, <4>1
    <3> QED
      BY <1>1, <1>4, <3>1, <3>2, <3>5 DEF IndInv, FramesBounded
  <2>10. StackSized'
    BY <1>1, <1>2, <1>9, <2>1, FS_EmptySet DEF StackSized
  <2> QED
    BY <1>6, <1>7, <2>6, <2>7, <2>8, <2>9, <2>10 DEF IndInv
<1> QED
  BY <1>8, <1>9, Zenon DEF FindStackRange

\* Counting the frames of a range keeps the invariant.
LEMMA CountRangeStep == IndInv /\ CountRange => IndInv'
<1> SUFFICES ASSUME IndInv, CountRange PROVE IndInv'
  BY Zenon
<1> DEFINE k == counted + 1
           r == free_ranges[k]
<1>1. /\ phase = "count" /\ phase' = phase
      /\ counted' = k /\ free_frames' = free_frames + r.size
      /\ UNCHANGED <<usable_ram, free_ranges, cached, stack_base, stack_max,
                     stack, hal_initialized, allocated>>
  BY Zenon DEF CountRange
<1>2. /\ counted \in Nat /\ counted < Len(free_ranges)
      /\ Len(free_ranges) \in Nat /\ k \in 1..Len(free_ranges)
  BY DEF CountRange, IndInv, TypeOK
<1>3. r \in PhysicalMemoryRange
  BY <1>2 DEF IndInv, TypeOK
<1>4. IsFiniteSet(RangeFrames(r)) /\ Cardinality(RangeFrames(r)) = r.size
  BY <1>3, RangeCardinality
<1>5. r.size \in Nat
  BY <1>3, Zenon DEF PhysicalMemoryRange
<1>6. CountedFrames' = CountedFrames \cup RangeFrames(r)
  <2>1. \A j : j \in 1..k <=> (j \in 1..counted \/ j = k)
    BY <1>2
  <2> QED
    BY <1>1, <2>1 DEF CountedFrames
<1>7. CountedFrames \cap RangeFrames(r) = {}
  <2> SUFFICES ASSUME NEW j \in 1..counted
               PROVE  RangeFrames(free_ranges[j]) \cap RangeFrames(r) = {}
    BY Zenon DEF CountedFrames
  <2>1. j \in 1..Len(free_ranges) /\ j # k
    BY <1>2
  <2> QED
    BY <1>2, <2>1, Zenon DEF IndInv, NoFrameTwice, Disjoint
<1>8. CountedFrames' \subseteq FreeFrames \cup allocated
  <2>1. CountedFrames \subseteq FramesOf(free_ranges)
    BY <1>2 DEF CountedFrames, FramesOf
  <2>2. RangeFrames(r) \subseteq FramesOf(free_ranges)
    BY <1>2, Zenon DEF FramesOf
  <2> QED
    BY <1>6, <2>1, <2>2, Zenon DEF FreeFrames
<1>9. FreeFrames \cup allocated \subseteq Frame
  BY Zenon DEF IndInv, FramesBounded
<1>10. /\ IsFiniteSet(CountedFrames) /\ Cardinality(CountedFrames) \in Nat
       /\ IsFiniteSet(FreeFrames \cup allocated)
       /\ Cardinality(FreeFrames \cup allocated) \in Nat
       /\ Cardinality(CountedFrames') \in Nat
  BY <1>6, <1>8, <1>9, FrameSetsFinite
<1>11. free_frames = Cardinality(CountedFrames)
  BY <1>1, Zenon DEF IndInv, BootProgress, Booting
<1>12. free_frames' = Cardinality(CountedFrames')
  <2>1. Cardinality(CountedFrames \cup RangeFrames(r)) =
          Cardinality(CountedFrames) + Cardinality(RangeFrames(r))
            - Cardinality(CountedFrames \cap RangeFrames(r))
    BY <1>4, <1>10, FS_Union
  <2>2. Cardinality(CountedFrames \cap RangeFrames(r)) = 0
    BY <1>7, FS_EmptySet
  <2> QED
    BY <1>1, <1>4, <1>5, <1>6, <1>10, <1>11, <2>1, <2>2
<1>13. free_frames' \in 0..UINT64_MAX
  <2>1. Cardinality(CountedFrames') <= Cardinality(FreeFrames \cup allocated)
    BY <1>8, <1>10, FS_Subset
  <2>2. Cardinality(FreeFrames \cup allocated) < UINT64_MAX
    BY <1>10, ConstAssumption DEF IndInv, FramesBounded, TypeOK
  <2> QED
    BY <1>10, <1>12, <2>1, <2>2, ConstAssumption
<1>14. TypeOK'
  BY <1>1, <1>2, <1>13 DEF IndInv, TypeOK
<1>15. BootProgress'
  BY <1>1, <1>12 DEF IndInv, BootProgress, Booting
<1>16. FreeFrames' = FreeFrames /\ StackFrames' = StackFrames /\ StackArea' = StackArea
  BY <1>1 DEF FreeFrames, StackFrames, StackArea
<1>17. NoFrameTwice' /\ StackMemoryReserved' /\ FramesBounded' /\ StackSized'
  BY <1>1, <1>16 DEF IndInv, NoFrameTwice, StackMemoryReserved, FramesBounded,
                     StackSized
<1>18. BootFrames' /\ Accounting' /\ DeallocNeverPanics' /\ PanicOnlyWhenExhausted'
  BY <1>1, <1>16, Zenon DEF IndInv, BootFrames, Accounting, DeallocNeverPanics,
                     PanicOnlyWhenExhausted
<1> QED
  BY <1>14, <1>15, <1>17, <1>18 DEF IndInv

\* The end of init_frame_allocator keeps the invariant.
LEMMA FinishInitStep == IndInv /\ FinishInit => IndInv'
<1> SUFFICES ASSUME IndInv, FinishInit PROVE IndInv'
  BY Zenon
<1>1. /\ phase = "count" /\ phase' \in {"ready", "panic_init"}
      /\ phase' = "ready" => cached # 0
      /\ counted = Len(free_ranges)
      /\ UNCHANGED <<usable_ram, free_ranges, cached, stack_base, stack_max,
                     stack, counted, free_frames, hal_initialized, allocated>>
  BY Zenon DEF FinishInit
<1>2. FreeFrames' = FreeFrames /\ StackFrames' = StackFrames /\ StackArea' = StackArea
  BY <1>1 DEF FreeFrames, StackFrames, StackArea
<1>3. stack = <<>> /\ free_frames = Cardinality(CountedFrames)
  BY <1>1, Zenon DEF IndInv, BootProgress, Booting
<1>4. FreeFrames = CountedFrames
  BY <1>1, <1>3 DEF FreeFrames, StackFrames, FramesOf, CountedFrames
<1>5. Accounting'
  BY <1>1, <1>2, <1>3, <1>4 DEF Accounting, get_number_of_free_frames
<1>6. TypeOK' /\ BootProgress'
  BY <1>1, Zenon DEF IndInv, TypeOK, BootProgress, Booting
<1>7. NoFrameTwice' /\ StackMemoryReserved' /\ FramesBounded' /\ StackSized'
  BY <1>1, <1>2 DEF IndInv, NoFrameTwice, StackMemoryReserved, FramesBounded,
                    StackSized
<1>8. BootFrames' /\ DeallocNeverPanics' /\ PanicOnlyWhenExhausted'
  BY <1>1, <1>2 DEF IndInv, BootFrames, DeallocNeverPanics, PanicOnlyWhenExhausted
<1> QED
  BY <1>5, <1>6, <1>7, <1>8 DEF IndInv

\* Leaving the bootstage keeps the invariant.
LEMMA HalInitializedStep == IndInv /\ HalInitialized => IndInv'
<1> SUFFICES ASSUME IndInv, HalInitialized PROVE IndInv'
  BY Zenon
<1>1. /\ phase = "ready" /\ hal_initialized' = TRUE
      /\ UNCHANGED <<phase, usable_ram, free_ranges, cached, stack_base,
                     stack_max, stack, counted, free_frames, allocated>>
  BY Zenon DEF HalInitialized
<1>2. FreeFrames' = FreeFrames /\ StackFrames' = StackFrames /\ StackArea' = StackArea
  BY <1>1 DEF FreeFrames, StackFrames, StackArea
<1>3. TypeOK' /\ BootProgress' /\ Accounting'
  BY <1>1, <1>2 DEF IndInv, TypeOK, BootProgress, Booting, Accounting,
                    get_number_of_free_frames
<1>4. NoFrameTwice' /\ StackMemoryReserved' /\ FramesBounded' /\ StackSized'
  BY <1>1, <1>2 DEF IndInv, NoFrameTwice, StackMemoryReserved, FramesBounded,
                    StackSized
<1>5. BootFrames' /\ DeallocNeverPanics' /\ PanicOnlyWhenExhausted'
  BY <1>1, <1>2, Zenon DEF IndInv, BootFrames, DeallocNeverPanics, PanicOnlyWhenExhausted
<1> QED
  BY <1>3, <1>4, <1>5 DEF IndInv

------------------------------------------------------------------------------
(* alloc_frame: which frame leaves the free frames, and what stays behind. *)

\* A frame popped from the stack was free and is no longer offered.
LEMMA PopFrameEffect ==
    ASSUME IndInv, phase = "ready", PopFrame
    PROVE  LET f == stack[Len(stack)]
           IN  /\ stack' \in Seq(Frame)
               /\ Len(stack') = Cardinality(StackFrames')
               /\ NoRepeat(stack')
               /\ f \in StackFrames
               /\ f \in FreeFrames
               /\ StackFrames' = StackFrames \ {f}
               /\ FreeFrames' = FreeFrames \ {f}
               /\ allocated' = allocated \cup {f}
<1> DEFINE f == stack[Len(stack)]
<1>1. /\ stack \in Seq(Frame) /\ stack # <<>> /\ NoRepeat(stack)
      /\ stack' = SubSeq(stack, 1, Len(stack) - 1)
      /\ allocated' = allocated \cup {f} /\ free_ranges' = free_ranges
  BY Zenon DEF PopFrame, IndInv, TypeOK, NoFrameTwice, NoRepeat
<1>2. StackFrames = Entries(stack) /\ StackFrames' = Entries(stack')
  BY DEF StackFrames, Entries
<1>3. /\ stack' \in Seq(Frame)
      /\ Len(stack') = Len(stack) - 1
      /\ NoRepeat(stack')
      /\ f \in StackFrames
      /\ StackFrames' = StackFrames \ {f}
  BY <1>1, <1>2, PopEntries
<1> HIDE DEF f
<1>4. Len(stack') = Cardinality(StackFrames')
  <2>1. StackFrames \subseteq Frame
    BY Zenon DEF IndInv, FramesBounded, FreeFrames
  <2>2. IsFiniteSet(StackFrames)
    BY <2>1, FrameSetsFinite
  <2>3. Cardinality(StackFrames \ {f}) = Cardinality(StackFrames) - 1
    BY <1>3, <2>2, FS_RemoveElement, Zenon
  <2> QED
    BY <1>3, <2>3 DEF IndInv, StackSized
<1>5. f \notin FramesOf(free_ranges)
  BY <1>3 DEF IndInv, NoFrameTwice
<1>6. f \in FreeFrames /\ FreeFrames' = FreeFrames \ {f}
  BY <1>1, <1>3, <1>5 DEF FreeFrames
<1> QED
  BY <1>1, <1>3, <1>4, <1>6 DEF f

\* A frame cut from a range was free and is no longer offered.
LEMMA CutFrameEffect ==
    ASSUME IndInv, phase = "ready", stack = <<>>,
           NEW i \in Usable, CutFrame(i)
    PROVE  LET f == free_ranges[i].start
           IN  /\ free_ranges' \in Seq(PhysicalMemoryRange)
               /\ Len(free_ranges') = Len(free_ranges)
               /\ Disjoint(free_ranges')
               /\ f \in FreeFrames
               /\ FreeFrames' = FreeFrames \ {f}
               /\ allocated' = allocated \cup {f}
<1> DEFINE f == free_ranges[i].start
<1>1. /\ i \in 1..Len(free_ranges) /\ free_ranges[i].size >= 1
      /\ free_ranges' = Advance(free_ranges, i, 1)
      /\ allocated' = allocated \cup {f} /\ stack' = stack
  BY Zenon DEF Usable, CutFrame
<1>2. /\ free_ranges \in Seq(PhysicalMemoryRange) /\ Disjoint(free_ranges)
      /\ free_ranges[i] \in PhysicalMemoryRange
  <2>1. free_ranges \in Seq(PhysicalMemoryRange) /\ Disjoint(free_ranges)
    BY Zenon DEF IndInv, TypeOK, NoFrameTwice
  <2> QED
    BY <1>1, <2>1
<1>3. f \in Nat /\ free_ranges[i].size \in Nat /\ 1 <= free_ranges[i].size
  <2>1. f \in Nat \ {0} /\ free_ranges[i].size \in Nat
    BY <1>2 DEF PhysicalMemoryRange
  <2> QED
    BY <1>1, <2>1
<1>4. /\ free_ranges' \in Seq(PhysicalMemoryRange)
      /\ Len(free_ranges') = Len(free_ranges)
  BY <1>1, <1>2, <1>3, AdvanceType, Zenon
<1>5. /\ Disjoint(free_ranges')
      /\ FramesOf(free_ranges') = FramesOf(free_ranges) \ (f .. (f + 1 - 1))
      /\ (f .. (f + 1 - 1)) \subseteq FramesOf(free_ranges)
  BY <1>1, <1>2, <1>3, AdvanceFrames
<1> HIDE DEF f
<1>6. f .. (f + 1 - 1) = {f}
  BY <1>3
<1>7. StackFrames = {} /\ StackFrames' = {}
  BY <1>1 DEF StackFrames
<1>8. f \in FreeFrames /\ FreeFrames' = FreeFrames \ {f}
  BY <1>5, <1>6, <1>7 DEF FreeFrames
<1> QED
  BY <1>1, <1>4, <1>5, <1>8 DEF f

\* Every frame of a range lies at or above the range's start, so a range whose
\* start is out of the bootstage's reach has no frame within it.
LEMMA NothingUsable ==
    ASSUME IndInv, stack = <<>>, Usable = {}, NEW f \in FreeFrames
    PROVE  ~hal_initialized /\ ~UsableInBootstage(f, 1)
<1>1. f \in FramesOf(free_ranges)
  BY DEF FreeFrames, StackFrames
<1>2. PICK i \in 1..Len(free_ranges) : f \in RangeFrames(free_ranges[i])
  BY <1>1 DEF FramesOf
<1>3. free_ranges[i] \in PhysicalMemoryRange
  BY DEF IndInv, TypeOK
<1>4. free_ranges[i].start \in Nat /\ free_ranges[i].size \in Nat
  BY <1>3, Zenon DEF PhysicalMemoryRange
<1>5. /\ f \in Int /\ free_ranges[i].start <= f
      /\ free_ranges[i].size >= 1
  BY <1>2, <1>4 DEF RangeFrames
<1>6. ~hal_initialized /\ ~UsableInBootstage(free_ranges[i].start, 1)
  BY <1>5, Zenon DEF Usable
<1> QED
  BY <1>4, <1>5, <1>6, ConstAssumption DEF UsableInBootstage, BootStart

\* alloc_frame keeps the invariant, on each of its three paths.
LEMMA AllocFrameStep == IndInv /\ alloc_frame => IndInv'
<1> SUFFICES ASSUME IndInv, alloc_frame PROVE IndInv'
  BY Zenon
<1>1. /\ phase = "ready" /\ cached # 0 /\ free_frames' = Dec(free_frames)
      /\ UNCHANGED <<usable_ram, stack_base, stack_max, counted, hal_initialized>>
  BY DEF alloc_frame, IndInv, StackSized
<1>2. CASE PopFrame
  <2> DEFINE f == stack[Len(stack)]
  <2>1. phase' = "ready" /\ free_ranges' = free_ranges /\ cached' = cached
    BY <1>1, <1>2 DEF PopFrame
  <2>2. /\ stack' \in Seq(Frame)
        /\ Len(stack') = Cardinality(StackFrames')
        /\ NoRepeat(stack')
        /\ f \in StackFrames /\ f \in FreeFrames
        /\ StackFrames' = StackFrames \ {f}
        /\ FreeFrames' = FreeFrames \ {f}
        /\ allocated' = allocated \cup {f}
    BY <1>1, <1>2, PopFrameEffect
  <2> HIDE DEF f
  <2>3. /\ free_frames' \in 0..UINT64_MAX
        /\ allocated' \cap FreeFrames' = {}
        /\ allocated' \subseteq Frame
        /\ Accounting' /\ StackMemoryReserved' /\ FramesBounded'
    BY <1>1, <2>1, <2>2, TakeKeepsBooks
  <2>4. TypeOK'
    BY <1>1, <2>1, <2>2, <2>3 DEF IndInv, TypeOK
  <2>5. NoFrameTwice'
    BY <2>1, <2>2, <2>3, Zenon DEF IndInv, NoFrameTwice, NoRepeat
  <2>6. StackSized' /\ BootFrames'
    BY <1>1, <2>1, <2>2 DEF IndInv, StackSized, BootFrames
  <2>7. BootProgress' /\ DeallocNeverPanics' /\ PanicOnlyWhenExhausted'
    BY <2>1 DEF BootProgress, Booting, DeallocNeverPanics, PanicOnlyWhenExhausted
  <2> QED
    BY <2>3, <2>4, <2>5, <2>6, <2>7 DEF IndInv
<1>3. ASSUME stack = <<>>, NEW i \in Usable, CutFrame(i)
      PROVE  IndInv'
  <2> DEFINE f == free_ranges[i].start
  <2>1. /\ phase' = "ready" /\ stack' = stack /\ cached' = i
        /\ i \in 1..Len(free_ranges)
    BY <1>1, <1>3 DEF CutFrame, Usable
  <2>2. /\ free_ranges' \in Seq(PhysicalMemoryRange)
        /\ Len(free_ranges') = Len(free_ranges)
        /\ Disjoint(free_ranges')
        /\ f \in FreeFrames
        /\ FreeFrames' = FreeFrames \ {f}
        /\ allocated' = allocated \cup {f}
    BY <1>1, <1>3, CutFrameEffect
  <2>3. ~hal_initialized => UsableInBootstage(f, 1)
    BY DEF Usable
  <2> HIDE DEF f
  <2>4. /\ free_frames' \in 0..UINT64_MAX
        /\ allocated' \cap FreeFrames' = {}
        /\ allocated' \subseteq Frame
        /\ Accounting' /\ StackMemoryReserved' /\ FramesBounded'
    BY <1>1, <2>1, <2>2, TakeKeepsBooks
  <2>5. TypeOK'
    BY <1>1, <2>1, <2>2, <2>4 DEF IndInv, TypeOK
  <2>6. StackFrames = {} /\ StackFrames' = {}
    BY <1>3, <2>1 DEF StackFrames
  <2>7. NoFrameTwice'
    BY <1>3, <2>1, <2>2, <2>4, <2>6 DEF NoFrameTwice
  <2>8. StackSized' /\ BootFrames'
    BY <1>1, <2>1, <2>2, <2>3, <2>6 DEF IndInv, StackSized, BootFrames
  <2>9. BootProgress' /\ DeallocNeverPanics' /\ PanicOnlyWhenExhausted'
    BY <2>1, Zenon DEF BootProgress, Booting, DeallocNeverPanics, PanicOnlyWhenExhausted
  <2> QED
    BY <2>4, <2>5, <2>7, <2>8, <2>9 DEF IndInv
<1>4. CASE OutOfFrames
  <2>1. /\ phase' = "panic_alloc" /\ stack = <<>> /\ Usable = {}
        /\ UNCHANGED <<free_ranges, cached, stack, allocated>>
    BY <1>4 DEF OutOfFrames
  <2>2. /\ FreeFrames' = FreeFrames /\ StackFrames' = StackFrames
        /\ StackArea' = StackArea
    BY <1>1, <2>1, Zenon DEF FreeFrames, StackFrames, StackArea
  <2>3. TypeOK'
    BY <1>1, <2>1, ConstAssumption DEF IndInv, TypeOK, Dec
  <2>4. NoFrameTwice' /\ StackMemoryReserved' /\ FramesBounded'
    BY <1>1, <2>1, <2>2 DEF IndInv, NoFrameTwice, StackMemoryReserved, FramesBounded
  <2>5. StackSized' /\ BootFrames'
    BY <1>1, <2>1, <2>2, Zenon DEF IndInv, StackSized, BootFrames
  <2>6. BootProgress' /\ DeallocNeverPanics' /\ Accounting'
    BY <2>1, Zenon DEF BootProgress, Booting, DeallocNeverPanics, Accounting
  <2>7. PanicOnlyWhenExhausted'
    BY <1>1, <2>1, <2>2, NothingUsable, Zenon DEF PanicOnlyWhenExhausted
  <2> QED
    BY <2>3, <2>4, <2>5, <2>6, <2>7 DEF IndInv
<1>5. CASE CutFromRange
  BY <1>3, <1>5, Zenon DEF CutFromRange, IsFirst
<1> QED
  BY <1>2, <1>4, <1>5 DEF alloc_frame

------------------------------------------------------------------------------
(* dealloc_frame.                                                          *)

\* The push always fits: the entries on the stack are distinct frames, so they
\* are no more than the frames that fit in RAM, which the stack was sized for.
LEMMA PushFits ==
    ASSUME IndInv, phase = "ready"
    PROVE  ~(Len(stack) + 1 > stack_max)
<1>1. /\ StackFrames \subseteq FreeFrames \cup allocated
      /\ FreeFrames \cup allocated \subseteq Frame
      /\ Cardinality(FreeFrames \cup allocated) <= usable_ram
  BY DEF IndInv, FramesBounded, FreeFrames
<1>2. /\ IsFiniteSet(FreeFrames \cup allocated)
      /\ Cardinality(FreeFrames \cup allocated) \in Nat
      /\ Cardinality(StackFrames) \in Nat
  BY <1>1, FrameSetsFinite, Zenon
<1>3. Cardinality(StackFrames) <= Cardinality(FreeFrames \cup allocated)
  BY <1>1, <1>2, FS_Subset
<1>4. usable_ram \in Nat /\ stack_max \in Nat
  BY Zenon DEF IndInv, TypeOK
<1>5. usable_ram < stack_max
  BY <1>4, StackHoldsAll DEF IndInv, StackSized
<1>6. Len(stack) = Cardinality(StackFrames)
  BY Zenon DEF IndInv, StackSized
<1> QED
  BY <1>1, <1>2, <1>3, <1>4, <1>5, <1>6

\* dealloc_frame keeps the invariant: the push always fits.
LEMMA DeallocFrameStep ==
    ASSUME IndInv, NEW f \in allocated, dealloc_frame(f)
    PROVE  IndInv'
<1>1. phase = "ready" /\ phase' = "ready" /\ stack' = Append(stack, f)
  BY PushFits, Zenon DEF dealloc_frame, frame_stack_push
<1>2. /\ free_frames' = Inc(free_frames) /\ allocated' = allocated \ {f}
      /\ UNCHANGED <<usable_ram, free_ranges, cached, stack_base, stack_max,
                     counted, hal_initialized>>
  BY Zenon DEF dealloc_frame
<1>3. f \in Frame /\ f \notin FreeFrames /\ f \notin StackFrames
      /\ f \notin FramesOf(free_ranges)
  BY Zenon DEF IndInv, TypeOK, NoFrameTwice, FreeFrames
<1>4. StackFrames = Entries(stack) /\ StackFrames' = Entries(stack')
  BY DEF StackFrames, Entries
<1>5. /\ stack' \in Seq(Frame) /\ Len(stack') = Len(stack) + 1
      /\ NoRepeat(stack') /\ StackFrames' = StackFrames \cup {f}
  <2>1. stack \in Seq(Frame) /\ NoRepeat(stack)
    BY Zenon DEF IndInv, TypeOK, NoFrameTwice, NoRepeat
  <2> QED
    BY <1>1, <1>3, <1>4, <2>1, PushEntries
<1>6. FreeFrames' = FreeFrames \cup {f}
  BY <1>2, <1>5, Zenon DEF FreeFrames
<1>7. /\ free_frames' \in 0..UINT64_MAX
      /\ allocated' \cap FreeFrames' = {}
      /\ allocated' \subseteq Frame
      /\ Accounting' /\ StackMemoryReserved' /\ FramesBounded'
  BY <1>1, <1>2, <1>6, ReturnKeepsBooks
<1>8. TypeOK'
  BY <1>1, <1>2, <1>5, <1>7 DEF IndInv, TypeOK
<1>9. NoFrameTwice'
  BY <1>2, <1>3, <1>5, <1>7 DEF IndInv, NoFrameTwice, NoRepeat
<1>10. Len(stack') = Cardinality(StackFrames')
  <2>1. StackFrames \subseteq Frame
    BY DEF IndInv, FramesBounded, FreeFrames
  <2>2. IsFiniteSet(StackFrames)
    BY <2>1, FrameSetsFinite
  <2>3. Cardinality(StackFrames \cup {f}) = Cardinality(StackFrames) + 1
    BY <1>3, <2>2, FS_AddElement, Zenon
  <2> QED
    BY <1>5, <2>3 DEF IndInv, StackSized
<1>11. StackSized' /\ BootFrames'
  BY <1>1, <1>2, <1>5, <1>10 DEF IndInv, StackSized, BootFrames
<1>12. BootProgress' /\ DeallocNeverPanics' /\ PanicOnlyWhenExhausted'
  BY <1>1 DEF BootProgress, Booting, DeallocNeverPanics, PanicOnlyWhenExhausted
<1> QED
  BY <1>7, <1>8, <1>9, <1>11, <1>12 DEF IndInv

------------------------------------------------------------------------------
(* The invariant, and the properties that follow from it.                  *)

\* A step that changes nothing keeps the invariant.
LEMMA StutterStep == IndInv /\ UNCHANGED vars => IndInv'
<1> SUFFICES ASSUME IndInv, UNCHANGED vars PROVE IndInv'
  BY Zenon
<1>1. UNCHANGED <<phase, usable_ram, free_ranges, cached, stack_base, stack_max,
                  stack, counted, free_frames, hal_initialized, allocated>>
  BY Zenon DEF vars
<1>2. /\ FreeFrames' = FreeFrames /\ StackFrames' = StackFrames
      /\ StackArea' = StackArea /\ CountedFrames' = CountedFrames
  BY <1>1 DEF FreeFrames, StackFrames, StackArea, CountedFrames
<1>3. TypeOK' /\ BootProgress' /\ Accounting'
  BY <1>1, <1>2 DEF IndInv, TypeOK, BootProgress, Booting, Accounting,
                    get_number_of_free_frames
<1>4. NoFrameTwice' /\ StackMemoryReserved' /\ FramesBounded' /\ StackSized'
  BY <1>1, <1>2 DEF IndInv, NoFrameTwice, StackMemoryReserved, FramesBounded,
                    StackSized
<1>5. BootFrames' /\ DeallocNeverPanics' /\ PanicOnlyWhenExhausted'
  BY <1>1, <1>2 DEF IndInv, BootFrames, DeallocNeverPanics, PanicOnlyWhenExhausted
<1> QED
  BY <1>3, <1>4, <1>5 DEF IndInv

\* Every step of init_frame_allocator, alloc_frame and dealloc_frame keeps the
\* inductive invariant.
LEMMA NextPreserves == IndInv /\ [Next]_vars => IndInv'
  BY FindStackRangeStep, CountRangeStep, FinishInitStep, HalInitializedStep,
     AllocFrameStep, DeallocFrameStep, StutterStep DEF Next

\* The inductive invariant holds of the allocator, whatever the memory map,
\* the sizes and the order of allocations and frees.
THEOREM Invariance == Spec => []IndInv
  BY InitEstablishes, NextPreserves, PTL DEF Spec

\* The allocator's variables keep the types frame_allocator.h declares.
THEOREM TypeCorrect == Spec => []TypeOK
<1>1. IndInv => TypeOK
  BY Zenon DEF IndInv
<1> QED
  BY Invariance, <1>1, PTL

\* alloc_frame never hands out a frame that a caller holds, that is waiting on
\* the frame stack, or that another range still offers.
THEOREM FrameExclusive == Spec => []NoFrameTwice
<1>1. IndInv => NoFrameTwice
  BY DEF IndInv
<1> QED
  BY Invariance, <1>1, PTL

\* get_number_of_free_frames() is exact.
THEOREM CounterExact == Spec => []Accounting
<1>1. IndInv => Accounting
  BY DEF IndInv
<1> QED
  BY Invariance, <1>1, PTL

\* The kpanic of frame_stack_push is unreachable from dealloc_frame.
THEOREM DeallocTotal == Spec => []DeallocNeverPanics
<1>1. IndInv => DeallocNeverPanics
  BY DEF IndInv
<1> QED
  BY Invariance, <1>1, PTL

\* The frame stack's own pages are never given to a caller.
THEOREM StackNeverGivenOut == Spec => []StackMemoryReserved
<1>1. IndInv => StackMemoryReserved
  BY DEF IndInv
<1> QED
  BY Invariance, <1>1, PTL

\* alloc_frame panics only for want of a frame the caller could use.
THEOREM PanicJustified == Spec => []PanicOnlyWhenExhausted
<1>1. IndInv => PanicOnlyWhenExhausted
  BY Zenon DEF IndInv
<1> QED
  BY Invariance, <1>1, PTL

\* Before the HAL is up all frames in use, and the frame stack, are inside the
\* bootstage identity map.
THEOREM BootstageSafe == Spec => []BootstageReachable
<1>1. ASSUME IndInv PROVE BootstageReachable
  <2> SUFFICES ASSUME ~hal_initialized, NEW f \in allocated \cup StackArea
               PROVE  f >= BootStart /\ f < BootLimit
    BY DEF BootstageReachable
  <2>1. CASE f \in allocated
    <3>1. f \in Nat /\ UsableInBootstage(f, 1)
      BY <1>1, <2>1, ConstAssumption DEF IndInv, TypeOK, Frame, BootFrames
    <3> QED
      BY <3>1, ConstAssumption DEF UsableInBootstage
  <2>2. CASE f \in StackArea
    <3> DEFINE n == NeededPages(usable_ram)
    <3>1. /\ cached # 0 /\ f \in stack_base .. (stack_base + n - 1)
          /\ UsableInBootstage(stack_base, n)
      BY <1>1, <2>2 DEF StackArea, IndInv, StackSized
    <3>2. stack_base \in Nat /\ n \in Nat
      BY <1>1, StackHoldsAll, Zenon DEF IndInv, TypeOK
    <3> HIDE DEF n
    <3> QED
      BY <3>1, <3>2, ConstAssumption DEF UsableInBootstage, BootStart
  <2> QED
    BY <2>1, <2>2, Zenon
<1> QED
  BY Invariance, <1>1, PTL

------------------------------------------------------------------------------
(* The allocator implements the frame pool.                                *)

\* The allocator's initial state maps to the pool's.
LEMMA PoolInitial == Init => Pool!PoolInit
  BY DEF Init, Pool!PoolInit, Booting

\* Every step of the allocator is a step of the pool or leaves it alone.
LEMMA PoolStep ==
    ASSUME IndInv, Next
    PROVE  Pool!PoolNext \/ UNCHANGED Pool!poolVars
<1>1. CASE FindStackRange \/ CountRange
  <2>1. /\ phase \in {"find", "count"} /\ phase' = "count"
        /\ UNCHANGED <<allocated, hal_initialized>>
    BY <1>1, Zenon DEF FindStackRange, CountRange
  <2> QED
    BY <2>1 DEF Pool!poolVars, Booting
<1>2. CASE FinishInit
  <2>1. /\ phase = "count" /\ phase' \in {"ready", "panic_init"}
        /\ UNCHANGED <<free_ranges, stack, allocated, hal_initialized>>
    BY <1>2, Zenon DEF FinishInit
  <2>2. FreeFrames' \subseteq Frame
    BY <2>1 DEF IndInv, FramesBounded, FreeFrames, StackFrames
  <2>3. Pool!BringUp
    BY <2>1, <2>2, Zenon DEF Pool!BringUp, Booting
  <2> QED
    BY <2>3 DEF Pool!PoolNext
<1>3. CASE HalInitialized
  <2>1. /\ phase = "ready" /\ phase' = "ready"
        /\ ~hal_initialized /\ hal_initialized'
        /\ UNCHANGED <<free_ranges, stack, allocated>>
    BY <1>3, Zenon DEF HalInitialized
  <2>2. FreeFrames' = FreeFrames
    BY <2>1 DEF FreeFrames, StackFrames
  <2>3. hal_initialized' = TRUE
    BY <1>3, Zenon DEF HalInitialized
  <2>4. Pool!HalUp
    BY <2>1, <2>2, <2>3 DEF Pool!HalUp, Booting
  <2> QED
    BY <2>4 DEF Pool!PoolNext
<1>4. ASSUME phase = "ready", phase' = "ready",
             NEW f, f \in FreeFrames,
             ~hal_initialized => UsableInBootstage(f, 1),
             FreeFrames' = FreeFrames \ {f},
             allocated' = allocated \cup {f},
             hal_initialized' = hal_initialized
      PROVE  Pool!PoolNext
  <2>1. f \in Frame
    BY <1>4 DEF IndInv, FramesBounded
  <2>2. f \in Pool!Suitable
    BY <1>4, <2>1 DEF Pool!Suitable, Booting
  <2>3. Pool!Take(f)
    BY <1>4, <2>2 DEF Pool!Take, Booting
  <2> QED
    BY <2>1, <2>3 DEF Pool!PoolNext
<1>5. CASE alloc_frame
  <2>1. phase = "ready" /\ hal_initialized' = hal_initialized
    BY <1>5 DEF alloc_frame
  <2>2. CASE PopFrame
    <3> DEFINE f == stack[Len(stack)]
    <3>1. phase' = "ready"
      BY <2>1, <2>2 DEF PopFrame
    <3>2. /\ f \in StackFrames /\ f \in FreeFrames
          /\ FreeFrames' = FreeFrames \ {f}
          /\ allocated' = allocated \cup {f}
      BY <2>1, <2>2, PopFrameEffect
    <3>3. ~hal_initialized => UsableInBootstage(f, 1)
      BY <3>2 DEF IndInv, BootFrames
    <3> HIDE DEF f
    <3> QED
      BY <1>4, <2>1, <3>1, <3>2, <3>3
  <2>3. ASSUME stack = <<>>, NEW i \in Usable, CutFrame(i)
        PROVE  Pool!PoolNext
    <3> DEFINE f == free_ranges[i].start
    <3>1. phase' = "ready"
      BY <2>1, <2>3 DEF CutFrame
    <3>2. /\ f \in FreeFrames
          /\ FreeFrames' = FreeFrames \ {f}
          /\ allocated' = allocated \cup {f}
      BY <2>1, <2>3, CutFrameEffect
    <3>3. ~hal_initialized => UsableInBootstage(f, 1)
      BY Zenon DEF Usable
    <3> HIDE DEF f
    <3> QED
      BY <1>4, <2>1, <3>1, <3>2, <3>3
  <2>4. CASE CutFromRange
    BY <2>3, <2>4 DEF CutFromRange, IsFirst
  <2>5. CASE OutOfFrames
    <3>1. /\ phase' = "panic_alloc" /\ stack = <<>> /\ Usable = {}
          /\ UNCHANGED <<free_ranges, stack, allocated>>
      BY <2>5 DEF OutOfFrames
    <3>2. FreeFrames' = FreeFrames
      BY <3>1, Zenon DEF FreeFrames, StackFrames
    <3>3. Pool!Suitable = {}
      BY <2>1, <3>1, NothingUsable DEF Pool!Suitable, Booting
    <3>4. Pool!Exhausted
      BY <2>1, <3>1, <3>2, <3>3 DEF Pool!Exhausted, Booting
    <3> QED
      BY <3>4, Zenon DEF Pool!PoolNext
  <2> QED
    BY <1>5, <2>2, <2>4, <2>5 DEF alloc_frame
<1>6. ASSUME NEW f \in allocated, dealloc_frame(f)
      PROVE  Pool!PoolNext
  <2>1. phase = "ready" /\ phase' = "ready" /\ stack' = Append(stack, f)
    BY <1>6, PushFits, Zenon DEF dealloc_frame, frame_stack_push
  <2>2. /\ allocated' = allocated \ {f}
        /\ UNCHANGED <<free_ranges, hal_initialized>>
    BY <1>6 DEF dealloc_frame
  <2>3. /\ f \in Frame /\ f \notin StackFrames
        /\ stack \in Seq(Frame) /\ NoRepeat(stack)
    BY Zenon DEF IndInv, TypeOK, NoFrameTwice, NoRepeat, FreeFrames
  <2>4. StackFrames' = StackFrames \cup {f}
    BY <2>1, <2>3, PushEntries DEF StackFrames, Entries
  <2>5. FreeFrames' = FreeFrames \cup {f}
    BY <2>2, <2>4, Zenon DEF FreeFrames
  <2>6. Pool!Return(f)
    BY <2>1, <2>2, <2>5 DEF Pool!Return, Booting
  <2> QED
    BY <2>3, <2>6 DEF Pool!PoolNext
<1> QED
  BY <1>1, <1>2, <1>3, <1>5, <1>6 DEF Next

\* A stuttering step of the allocator leaves the pool alone.
LEMMA PoolStutter == UNCHANGED vars => UNCHANGED Pool!poolVars
  BY Zenon DEF vars, Pool!poolVars, Booting, FreeFrames, StackFrames

\* The allocator implements the frame pool of module FramePool: alloc_frame and
\* dealloc_frame move one frame at a time between the free frames and their
\* callers, and a panic for want of memory happens only when none is suitable.
THEOREM Refinement == Spec => ImplementsPool
<1>1. IndInv /\ [Next]_vars => [Pool!PoolNext]_(Pool!poolVars)
  BY PoolStep, PoolStutter, Zenon
<1> QED
  BY Invariance, PoolInitial, <1>1, PTL DEF Spec, ImplementsPool, Pool!PoolSpec
=============================================================================

--------------------------- MODULE VmmListProofs ----------------------------
(***************************************************************************)
(* Lemmas about Vmm's list of descriptors: what a walk finds, and that     *)
(* cutting, marking and merging descriptors keeps the list well formed.    *)
(***************************************************************************)
EXTENDS Vmm, FiniteSetTheorems, WellFoundedInduction, TLAPS

------------------------------------------------------------------------------
(* A well-formed list and its manager.                                     *)

End(d) == d.start + d.size
\* Where the descriptor behind one that ends at e starts.
After(e) == IF e = IDENTITY_END THEN KERNEL_START ELSE e
InRange(d) ==
    \/ 1 <= d.start /\ End(d) <= IDENTITY_END
    \/ KERNEL_START <= d.start /\ End(d) <= KERNEL_END
Apart(d, e) == End(d) <= e.start \/ End(e) <= d.start

\* The descriptors lie apart from each other in the two ranges, and each next
\* has its prev.
List(desc) ==
    /\ desc = [k \in DOMAIN desc |-> desc[k]]
    /\ DOMAIN desc \subseteq Nat \ {NULL}
    /\ \A k \in DOMAIN desc : desc[k] \in Descriptor /\ InRange(desc[k])
    /\ \A j, k \in DOMAIN desc : j # k => Apart(desc[j], desc[k])
    /\ \A k \in DOMAIN desc : desc[k].next = NULL => End(desc[k]) = KERNEL_END
    /\ \A k \in DOMAIN desc : desc[k].next # NULL =>
           /\ desc[k].next \in DOMAIN desc
           /\ desc[desc[k].next].prev = k
           /\ desc[desc[k].next].start = After(End(desc[k]))
    /\ \A k \in DOMAIN desc : desc[k].prev = NULL => desc[k].start = 1
    /\ \A k \in DOMAIN desc : desc[k].prev # NULL =>
           desc[k].prev \in DOMAIN desc /\ desc[desc[k].prev].next = k

\* Each range has its free type, a free range has no padding, and no padding is
\* larger than its descriptor.
Padded(d) ==
    /\ d.type = "FREE" => KERNEL_START <= d.start
    /\ d.type = "IDENTITY_MAP_FREE" => d.start < IDENTITY_END
    /\ d.type \in FreeTypes => d.up = 0 /\ d.low = 0
    /\ d.up + d.low <= d.size

\* No two free neighbours, unless one of them is `but'.
Merged(desc, but) ==
    \A k \in DOMAIN desc :
        desc[k].next # NULL /\ k # but /\ desc[k].next # but /\ desc[k].type \in FreeTypes
            => desc[desc[k].next].type # desc[k].type

\* The rest of the manager; before the heap is up, descriptors are the bump
\* allocator's.
Manager(v) ==
    /\ v.bump \in Nat /\ v.heap \in BOOLEAN
    /\ v.panic \in {"none", "VMM_ERROR", "FAILED_ASSERT", "NULL_DEREFERENCE"}
    /\ v.head \in DOMAIN v.desc
    /\ ~v.heap => \A k \in DOMAIN v.desc : k <= v.bump

\* A list of descriptors without free neighbours, and its manager.
Sound(v) ==
    /\ Manager(v) /\ List(v.desc) /\ v.desc[v.head].prev = NULL
    /\ \A k \in DOMAIN v.desc : Padded(v.desc[k])
    /\ Merged(v.desc, NULL)

Type == FreeTypes \cup OwnFrames \cup {"IDENTITY_MAP", "MEMORY_MAPPING"}

------------------------------------------------------------------------------
(* Induction and recursion.  The list is walked by recursive functions; what *)
(* they compute is proved by looking at a least counterexample.              *)

\* Every non-empty set of naturals has a least element.
LEMMA LeastNat ==
  ASSUME NEW T, T \subseteq Nat, T # {}
  PROVE  \E n \in T : \A m \in T : n <= m
<1> DEFINE F == {0 .. k : k \in T}
<1>1. IsWellFoundedOn(StrictSubsetOrdering(Nat), FiniteSubsetsOf(Nat))
  BY FS_StrictSubsetOrderingWellFounded, Zenon
<1>2. \A k \in Nat : 0 .. k \in FiniteSubsetsOf(Nat)
  BY FS_Interval DEF FiniteSubsetsOf
<1>3. F \subseteq FiniteSubsetsOf(Nat) /\ F # {}
  BY <1>2, Zenon
<1>4. PICK s \in F : \A y \in F : ~(<<y, s>> \in StrictSubsetOrdering(Nat))
  <2> HIDE DEF F
  <2> QED BY <1>1, <1>3, WFMin, Zenon
<1>5. PICK n \in T : s = 0 .. n
  BY Zenon
<1>6. \A m \in T : m < n => <<0 .. m, s>> \in StrictSubsetOrdering(Nat)
  BY <1>5 DEF StrictSubsetOrdering
<1>7. \A m \in T : ~(m < n)
  <2> TAKE m \in T
  <2>1. 0 .. m \in F
    BY Zenon
  <2>2. ~(<<0 .. m, s>> \in StrictSubsetOrdering(Nat))
    BY <1>4, <2>1, Zenon
  <2> QED BY <1>6, <2>2, Zenon
<1> QED BY <1>7

\* The chain from k over nx[k] on stops, since its rank goes down.
Chain(D, R, stop, base, nx, step, rank, N) ==
    /\ stop \in SUBSET D /\ base \in [stop -> R]
    /\ nx \in [D \ stop -> D] /\ step \in [D \X R -> R]
    /\ rank \in [D -> Nat] /\ N \in Nat /\ \A k \in D : rank[k] < N
    /\ \A k \in D \ stop : rank[nx[k]] < rank[k]

\* A recursion along such a chain defines a function.
LEMMA Recursion ==
  ASSUME NEW D, NEW R, NEW stop, NEW base, NEW nx, NEW step, NEW rank, NEW N,
         Chain(D, R, stop, base, nx, step, rank, N)
  PROVE  \E f \in [D -> R] :
            \A k \in D : f[k] = IF k \in stop THEN base[k] ELSE step[<<k, f[nx[k]]>>]
<1> USE DEF Chain
<1> DEFINE Below(n) == {k \in D : rank[k] < n}
           Solves(f, n) ==
             /\ f \in [Below(n) -> R]
             /\ \A k \in Below(n) :
                  f[k] = IF k \in stop THEN base[k] ELSE step[<<k, f[nx[k]]>>]
           Bad == {n \in Nat : ~ \E f : Solves(f, n)}
<1>1. 0 \notin Bad
  <2>1. Below(0) = {}
    OBVIOUS
  <2>2. Solves([k \in Below(0) |-> 0], 0)
    BY <2>1, Zenon
  <2> QED BY <2>2, Zenon
<1>2. ASSUME NEW n \in Nat, n \notin Bad
      PROVE  n + 1 \notin Bad
  <2>1. PICK f : Solves(f, n)
    BY <1>2, Zenon
  <2> DEFINE g == [k \in Below(n + 1) |->
                     IF k \in stop THEN base[k] ELSE step[<<k, f[nx[k]]>>]]
  <2>2. \A k \in Below(n + 1) \ stop : nx[k] \in Below(n) /\ nx[k] \in Below(n + 1)
    OBVIOUS
  <2>3. \A k \in Below(n) : g[k] = f[k]
    BY <2>1
  <2>4. g \in [Below(n + 1) -> R]
    BY <2>1, <2>2, Zenon
  <2>5. \A k \in Below(n + 1) \ stop : g[nx[k]] = f[nx[k]]
    <3> HIDE DEF g, Below
    <3> QED BY <2>2, <2>3, Zenon
  <2>6. \A k \in Below(n + 1) :
          g[k] = IF k \in stop THEN base[k] ELSE step[<<k, g[nx[k]]>>]
    <3>1. \A k \in Below(n + 1) :
            g[k] = IF k \in stop THEN base[k] ELSE step[<<k, f[nx[k]]>>]
      BY Zenon
    <3> HIDE DEF g, Below
    <3> QED BY <2>5, <3>1, Zenon
  <2>7. Solves(g, n + 1)
    BY <2>4, <2>6, Zenon
  <2> HIDE DEF Solves
  <2> QED BY <2>7, Zenon
<1>3. Bad = {}
  <2> SUFFICES ASSUME Bad # {} PROVE FALSE
    BY Zenon
  <2>1. Bad \subseteq Nat
    BY Zenon
  <2> HIDE DEF Bad
  <2>2. PICK m \in Bad : \A j \in Bad : m <= j
    BY <2>1, LeastNat, Zenon
  <2>3. m # 0 /\ m - 1 \in Nat /\ m - 1 \notin Bad
    BY <1>1, <2>1, <2>2
  <2>4. (m - 1) + 1 \notin Bad
    BY <1>2, <2>3, Zenon
  <2> QED BY <2>1, <2>2, <2>4
<1>4. Below(N) = D
  BY Zenon
<1>5. PICK f : Solves(f, N)
  <2> HIDE DEF Solves
  <2> QED BY <1>3, Zenon
<1> QED BY <1>4, <1>5, Zenon

------------------------------------------------------------------------------
(* The order of the list.                                                  *)

\* The fields of a descriptor.
LEMMA Fields ==
  ASSUME NEW d \in Descriptor
  PROVE  /\ d.start \in Nat /\ d.size \in Nat /\ d.size > 0 /\ d.up \in Nat /\ d.low \in Nat
         /\ d.next \in Nat /\ d.prev \in Nat
         /\ d.type \in FreeTypes \cup OwnFrames \cup {"IDENTITY_MAP", "MEMORY_MAPPING"}
         /\ d.is_from_heap \in BOOLEAN
BY DEF Descriptor

\* The fields of the descriptors of a list.
LEMMA ListFields ==
  ASSUME NEW desc, List(desc), NEW k \in DOMAIN desc
  PROVE  /\ k \in Nat /\ k # NULL
         /\ desc[k].start \in Nat /\ desc[k].size \in Nat /\ desc[k].size > 0
         /\ desc[k].next \in Nat /\ desc[k].prev \in Nat
         /\ desc[k].up \in Nat /\ desc[k].low \in Nat
         /\ 1 <= desc[k].start /\ End(desc[k]) <= KERNEL_END /\ End(desc[k]) \in Nat
<1>1. desc[k] \in Descriptor /\ InRange(desc[k]) /\ k \in Nat \ {NULL}
  BY Zenon DEF List
<1>2. /\ desc[k].start \in Nat /\ desc[k].size \in Nat /\ desc[k].size > 0
      /\ desc[k].next \in Nat /\ desc[k].prev \in Nat
      /\ desc[k].up \in Nat /\ desc[k].low \in Nat
  BY <1>1, Fields, Zenon
<1> QED BY <1>1, <1>2, VmmAssumption DEF InRange, End

\* Between a descriptor and its next there is no other.
LEMMA Ordered ==
  ASSUME NEW desc, List(desc), NEW j \in DOMAIN desc, NEW k \in DOMAIN desc,
         desc[j].start < desc[k].start
  PROVE  /\ desc[j].next # NULL /\ desc[j].next \in DOMAIN desc
         /\ desc[j].start < desc[desc[j].next].start
         /\ desc[desc[j].next].start <= desc[k].start
<1>1. /\ desc[j].start \in Nat /\ desc[j].size \in Nat /\ desc[j].size > 0
      /\ desc[k].start \in Nat /\ desc[k].size \in Nat /\ desc[k].size > 0
  BY ListFields, Zenon
<1>2. j # k
  BY <1>1
<1>3. Apart(desc[j], desc[k]) /\ InRange(desc[j]) /\ InRange(desc[k])
  BY <1>2, Zenon DEF List
<1>4. End(desc[j]) <= desc[k].start
  BY <1>1, <1>3 DEF Apart, End
<1>5. desc[j].next # NULL
  <2> SUFFICES ASSUME desc[j].next = NULL PROVE FALSE
    BY Zenon
  <2>1. End(desc[j]) = KERNEL_END
    BY Zenon DEF List
  <2> QED BY <1>1, <1>3, <1>4, <2>1, VmmAssumption DEF InRange, End
<1>6. desc[j].next \in DOMAIN desc /\ desc[desc[j].next].start = After(End(desc[j]))
  BY <1>5, Zenon DEF List
<1> QED BY <1>1, <1>3, <1>4, <1>5, <1>6, VmmAssumption DEF After, InRange, End

\* The next of a descriptor starts behind it.
LEMMA NextIsBehind ==
  ASSUME NEW desc, List(desc), NEW k \in DOMAIN desc, desc[k].next # NULL
  PROVE  desc[k].next \in DOMAIN desc /\ desc[k].start < desc[desc[k].next].start
<1>1. desc[k].start \in Nat /\ desc[k].size \in Nat /\ desc[k].size > 0
  BY ListFields, Zenon
<1>2. desc[k].next \in DOMAIN desc /\ desc[desc[k].next].start = After(End(desc[k]))
  BY Zenon DEF List
<1> QED BY <1>1, <1>2, VmmAssumption DEF After, End

\* Two descriptors do not start at the same page.
LEMMA StartsDiffer ==
  ASSUME NEW desc, List(desc), NEW j \in DOMAIN desc, NEW k \in DOMAIN desc,
         desc[j].start = desc[k].start
  PROVE  j = k
<1> SUFFICES ASSUME j # k PROVE FALSE
  BY Zenon
<1>1. /\ desc[j].start \in Nat /\ desc[j].size \in Nat /\ desc[j].size > 0
      /\ desc[k].start \in Nat /\ desc[k].size \in Nat /\ desc[k].size > 0
  BY ListFields, Zenon
<1>2. Apart(desc[j], desc[k])
  BY Zenon DEF List
<1> QED BY <1>1, <1>2 DEF Apart, End

\* A walk from the head ends at the first descriptor, in the order of the
\* addresses, at which it may stop or which is the last one.
LEMMA Walk ==
  ASSUME NEW v, List(v.desc), v.head \in DOMAIN v.desc, v.desc[v.head].prev = NULL, NEW stop
  PROVE  LET w == WalkTo(v, stop)
             Stops == {k \in DOMAIN v.desc : k \in stop \/ v.desc[k].next = NULL}
         IN  /\ w \in Stops
             /\ \A k \in Stops : v.desc[w].start <= v.desc[k].start
<1> DEFINE D == DOMAIN v.desc
           Stops == {k \in D : k \in stop \/ v.desc[k].next = NULL}
           base == [k \in Stops |-> k]
           nx == [k \in D \ Stops |-> v.desc[k].next]
           step == [x \in D \X D |-> x[2]]
           rank == [k \in D |-> KERNEL_END - v.desc[k].start]
           Solves(f) == f = [k \in D |-> IF k \in stop \/ v.desc[k].next = NULL THEN k
                                         ELSE f[v.desc[k].next]]
           F == CHOOSE f : Solves(f)
           N == KERNEL_END + 1
<1>1. \A k \in D : /\ v.desc[k].start \in Nat /\ 1 <= v.desc[k].start
                   /\ v.desc[k].start <= KERNEL_END
                   /\ v.desc[k].size \in Nat
  <2> TAKE k \in D
  <2>1. /\ v.desc[k].start \in Nat /\ 1 <= v.desc[k].start /\ v.desc[k].size \in Nat
        /\ End(v.desc[k]) <= KERNEL_END
    BY ListFields, Zenon
  <2> QED BY <2>1, VmmAssumption DEF End
<1>2. \A k \in D \ Stops : /\ v.desc[k].next # NULL /\ v.desc[k].next \in D
                           /\ v.desc[k].start < v.desc[v.desc[k].next].start
  BY NextIsBehind, Zenon
<1>3. \E f : Solves(f)
  <2>1. base \in [Stops -> D] /\ nx \in [D \ Stops -> D] /\ step \in [D \X D -> D]
    BY <1>2, Zenon
  <2>2. rank \in [D -> Nat] /\ N \in Nat
    BY <1>1, VmmAssumption
  <2>3. /\ \A k \in D : rank[k] < N
        /\ \A k \in D \ Stops : rank[nx[k]] < rank[k]
    <3>1. /\ \A k \in D : rank[k] = KERNEL_END - v.desc[k].start
          /\ \A k \in D \ Stops : nx[k] = v.desc[k].next
      BY Zenon
    <3> HIDE DEF rank, nx, Stops, D
    <3> QED BY <1>1, <1>2, <3>1, VmmAssumption
  <2>4. Stops \in SUBSET D
    BY Zenon
  <2>5. \E f \in [D -> D] :
          \A k \in D : f[k] = IF k \in Stops THEN base[k] ELSE step[<<k, f[nx[k]]>>]
    <3> HIDE DEF D, Stops, base, nx, step, rank, N
    <3>1. Chain(D, D, Stops, base, nx, step, rank, N)
      BY <2>1, <2>2, <2>3, <2>4, Zenon DEF Chain
    <3> QED BY <3>1, Recursion
  <2>6. PICK f \in [D -> D] :
          \A k \in D : f[k] = IF k \in Stops THEN base[k] ELSE step[<<k, f[nx[k]]>>]
    BY <2>5, Zenon
  <2>7. \A k \in D : f[k] = IF k \in stop \/ v.desc[k].next = NULL THEN k
                            ELSE f[v.desc[k].next]
    BY <1>2, <2>6, Zenon
  <2> QED BY <2>7
<1>4. Solves(F)
  <2> HIDE DEF Solves
  <2> QED BY <1>3, Zenon
<1>5. \A k \in D : F[k] = IF k \in Stops THEN k ELSE F[v.desc[k].next]
  <2>1. F = [k \in D |-> IF k \in stop \/ v.desc[k].next = NULL THEN k
                         ELSE F[v.desc[k].next]]
    BY <1>4, Zenon
  <2> HIDE DEF F
  <2> QED BY <2>1, Zenon
<1>6. WalkTo(v, stop) = F[v.head]
  BY Zenon DEF WalkTo
<1> HIDE DEF F
<1> DEFINE Good(k) == /\ F[k] \in Stops
                      /\ \A m \in Stops : v.desc[k].start <= v.desc[m].start
                                            => v.desc[F[k]].start <= v.desc[m].start
           Bad == {n \in Nat : \E k \in D : n = rank[k] /\ ~Good(k)}
<1>7. ASSUME NEW k \in D, k \notin Stops, Good(v.desc[k].next)
      PROVE  Good(k)
  <2>1. F[k] = F[v.desc[k].next]
    BY <1>5, <1>7, Zenon
  <2>2. \A m \in Stops : v.desc[k].start <= v.desc[m].start
                           => v.desc[v.desc[k].next].start <= v.desc[m].start
    <3> TAKE m \in Stops
    <3> HAVE v.desc[k].start <= v.desc[m].start
    <3>1. v.desc[k].start # v.desc[m].start
      BY <1>7, StartsDiffer, Zenon
    <3>2. v.desc[k].start < v.desc[m].start
      BY <1>1, <3>1
    <3> QED BY <3>2, Ordered, Zenon
  <2> QED BY <1>7, <2>1, <2>2, Zenon
<1>8. \A k \in Stops : Good(k)
  BY <1>5, Zenon
<1>9. \A k \in D : Good(k)
  <2>1. Bad = {}
    <3> SUFFICES ASSUME Bad # {} PROVE FALSE
      BY Zenon
    <3>1. Bad \subseteq Nat
      BY Zenon
    <3>2. PICK n \in Bad : \A m \in Bad : n <= m
      <4> HIDE DEF Bad
      <4> QED BY <3>1, LeastNat, Zenon
    <3>3. PICK k \in D : n = rank[k] /\ ~Good(k)
      BY Zenon
    <3>4. k \notin Stops
      <4> HIDE DEF Good, Stops
      <4> QED BY <1>8, <3>3, Zenon
    <3>5. ~Good(v.desc[k].next)
      <4> HIDE DEF Good, Stops
      <4> QED BY <1>7, <3>3, <3>4, Zenon
    <3>6. /\ rank[v.desc[k].next] \in Nat
          /\ rank[v.desc[k].next] < rank[k] /\ v.desc[k].next \in D
      BY <1>1, <1>2, <3>4, VmmAssumption
    <3>7. rank[v.desc[k].next] \in Bad
      <4> HIDE DEF Good, rank
      <4> QED BY <3>5, <3>6, Zenon
    <3> HIDE DEF Bad, rank
    <3> QED BY <3>1, <3>2, <3>3, <3>6, <3>7
  <2>2. \A k \in D : rank[k] \in Nat
    BY <1>1, VmmAssumption
  <2> HIDE DEF Good, rank
  <2> QED BY <2>1, <2>2, Zenon
<1>10. v.desc[v.head].start = 1
  BY Zenon DEF List
<1> QED BY <1>1, <1>6, <1>9, <1>10, Zenon

\* A walk that can stop somewhere does so at a descriptor of `stop'.
LEMMA WalkFinds ==
  ASSUME NEW v, List(v.desc), v.head \in DOMAIN v.desc, v.desc[v.head].prev = NULL, NEW stop,
         NEW k \in DOMAIN v.desc, k \in stop
  PROVE  /\ WalkTo(v, stop) \in DOMAIN v.desc /\ WalkTo(v, stop) \in stop
         /\ v.desc[WalkTo(v, stop)].start <= v.desc[k].start
<1> DEFINE w == WalkTo(v, stop)
<1>1. /\ w \in DOMAIN v.desc /\ (w \in stop \/ v.desc[w].next = NULL)
      /\ v.desc[w].start <= v.desc[k].start
  BY Walk, Zenon
<1> HIDE DEF w
<1>2. CASE v.desc[w].next = NULL
  <2>1. ~(v.desc[w].start < v.desc[k].start)
    BY <1>1, <1>2, Ordered, Zenon
  <2>2. v.desc[w].start \in Nat /\ v.desc[k].start \in Nat
    BY <1>1, ListFields, Zenon
  <2>3. v.desc[w].start = v.desc[k].start
    BY <1>1, <2>1, <2>2
  <2>4. w = k
    BY <1>1, <2>3, StartsDiffer, Zenon
  <2> QED BY <1>1, <2>4, Zenon DEF w
<1> QED BY <1>1, <1>2, Zenon DEF w

\* A page is in at most one descriptor.
LEMMA OneDescriptor ==
  ASSUME NEW desc, List(desc), NEW j \in DOMAIN desc, NEW k \in DOMAIN desc, NEW a,
         a \in Pages(desc[j].start, desc[j].size), a \in Pages(desc[k].start, desc[k].size)
  PROVE  j = k
<1> SUFFICES ASSUME j # k PROVE FALSE
  BY Zenon
<1>1. /\ desc[j].start \in Nat /\ desc[j].size \in Nat
      /\ desc[k].start \in Nat /\ desc[k].size \in Nat
  BY ListFields, Zenon
<1>2. Apart(desc[j], desc[k])
  BY Zenon DEF List
<1> QED BY <1>1, <1>2 DEF Apart, End, Pages

\* get_vmem_from_address finds the one descriptor that has the address, if any.
LEMMA Lookup ==
  ASSUME NEW v, List(v.desc), v.head \in DOMAIN v.desc, v.desc[v.head].prev = NULL, NEW a \in Int
  PROVE  {k \in DOMAIN v.desc : a \in Pages(v.desc[k].start, v.desc[k].size)}
           = IF get_vmem_from_address(v, a) = NULL THEN {} ELSE {get_vmem_from_address(v, a)}
<1> DEFINE in == {k \in DOMAIN v.desc : a \in Pages(v.desc[k].start, v.desc[k].size)}
           w == WalkTo(v, in)
<1>1. w \in DOMAIN v.desc
  BY Walk, Zenon
<1>2. v.desc[w].start \in Nat /\ v.desc[w].size \in Nat /\ w # NULL
  BY <1>1, ListFields, Zenon
<1>3. get_vmem_from_address(v, a) = IF w \in in THEN w ELSE NULL
  <2>1. w \in in <=> ~(a >= v.desc[w].start + v.desc[w].size \/ a < v.desc[w].start)
    <3> HIDE DEF w
    <3> QED BY <1>1, <1>2 DEF Pages
  <2>2. get_vmem_from_address(v, a) =
          IF a >= v.desc[w].start + v.desc[w].size \/ a < v.desc[w].start THEN NULL ELSE w
    BY Zenon DEF get_vmem_from_address
  <2> HIDE DEF w, in
  <2> QED BY <2>1, <2>2, Zenon
<1>4. \A k \in in : w \in in
  <2> TAKE k \in in
  <2>1. k \in DOMAIN v.desc
    BY Zenon
  <2> HIDE DEF in
  <2> QED BY <2>1, WalkFinds, Zenon
<1>5. \A j, k \in in : j = k
  BY OneDescriptor, Zenon
<1> HIDE DEF w, in
<1>6. in = IF w \in in THEN {w} ELSE {}
  BY <1>4, <1>5, Zenon
<1> QED BY <1>2, <1>3, <1>6, Zenon DEF in

------------------------------------------------------------------------------
(* New descriptors.                                                        *)

\* kmalloc finds an address that no descriptor has: there are fewer descriptors
\* than pages.
LEMMA FreshAddress ==
  ASSUME NEW v, List(v.desc), NEW start \in Nat \ {0}
  PROVE  /\ HeapAddress(v, start) \in Nat \ {NULL}
         /\ HeapAddress(v, start) \notin DOMAIN v.desc
<1> DEFINE K == EARLY_ALLOCATION_SIZE + KERNEL_END .. EARLY_ALLOCATION_SIZE + 2 * KERNEL_END
           S == K \ DOMAIN v.desc
           named == EARLY_ALLOCATION_SIZE + start
<1>1. CASE named \notin DOMAIN v.desc
  <2>1. HeapAddress(v, start) = named
    BY <1>1, Zenon DEF HeapAddress
  <2> QED BY <1>1, <2>1, VmmAssumption DEF NULL
<1>2. CASE named \in DOMAIN v.desc
  <2>1. HeapAddress(v, start) = Min(S)
    BY <1>2, Zenon DEF HeapAddress
  <2>2. S # {}
    <3> SUFFICES ASSUME S = {} PROVE FALSE
      BY Zenon
    <3> DEFINE f == [k \in K |-> v.desc[k].start]
               T == 1 .. KERNEL_END
    <3>1. \A k \in K : k \in DOMAIN v.desc
      BY Zenon
    <3>2. \A k \in K : v.desc[k].start \in T
      <4> TAKE k \in K
      <4>1. k \in DOMAIN v.desc
        BY <3>1, Zenon
      <4>2. /\ v.desc[k].start \in Nat /\ v.desc[k].size \in Nat /\ 1 <= v.desc[k].start
            /\ End(v.desc[k]) <= KERNEL_END
        BY <4>1, ListFields, Zenon
      <4> QED BY <4>2, VmmAssumption DEF End
    <3>3. \A j, k \in K : v.desc[j].start = v.desc[k].start => j = k
      BY <3>1, StartsDiffer, Zenon
    <3>4. f \in Injection(K, T)
      <4> HIDE DEF K, T
      <4> QED BY <3>2, <3>3, Zenon DEF Injection, IsInjective
    <3>5. IsFiniteSet(T) /\ Cardinality(T) = KERNEL_END
      <4>1. 1 \in Int /\ KERNEL_END \in Int /\ ~(1 > KERNEL_END) /\ KERNEL_END - 1 + 1 = KERNEL_END
        BY VmmAssumption
      <4>2. IsFiniteSet(T) /\ Cardinality(T) = IF 1 > KERNEL_END THEN 0 ELSE KERNEL_END - 1 + 1
        BY <4>1, FS_Interval, Zenon
      <4> QED BY <4>1, <4>2, Zenon
    <3>6. IsFiniteSet(K) /\ Cardinality(K) = KERNEL_END + 1
      <4> DEFINE a == EARLY_ALLOCATION_SIZE + KERNEL_END
                 b == EARLY_ALLOCATION_SIZE + 2 * KERNEL_END
      <4>1. a \in Int /\ b \in Int /\ ~(a > b) /\ b - a + 1 = KERNEL_END + 1
        BY VmmAssumption
      <4>2. K = a .. b
        BY Zenon
      <4>3. IsFiniteSet(K) /\ Cardinality(K) = IF a > b THEN 0 ELSE b - a + 1
        <5> HIDE DEF a, b, K
        <5> QED BY <4>1, <4>2, FS_Interval, Zenon
      <4> QED BY <4>1, <4>3, Zenon
    <3>7. Cardinality(K) <= Cardinality(T)
      <4> HIDE DEF K, T, f
      <4> QED BY <3>4, <3>5, FS_Injection, Zenon
    <3> HIDE DEF K, T
    <3> QED BY <3>5, <3>6, <3>7, VmmAssumption
  <2>3. S \subseteq Nat /\ \A k \in S : k > 0
    BY VmmAssumption
  <2>4. \E m \in S : \A k \in S : m <= k
    <3> HIDE DEF S
    <3> QED BY <2>2, <2>3, LeastNat, Zenon
  <2>5. Min(S) \in S
    <3> HIDE DEF S
    <3> QED BY <2>4, Zenon DEF Min
  <2> QED BY <2>1, <2>3, <2>5 DEF NULL
<1> QED BY <1>1, <1>2, Zenon

\* The bump allocator has room for n more descriptors, or is not used any more.
RoomFor(v, n) == v.heap \/ v.bump + n <= EARLY_ALLOCATION_SIZE

NewDescriptor(start, size, type, heap) ==
    [start |-> start, size |-> size, up |-> 0, low |-> 0, type |-> type,
     next |-> NULL, prev |-> NULL, is_from_heap |-> heap]

\* A new descriptor is at an address of its own.
LEMMA Allocate ==
  ASSUME NEW v, Manager(v), List(v.desc), NEW n \in Nat, RoomFor(v, n + 1),
         NEW start \in Nat \ {0}, NEW size, NEW type
  PROVE  LET a == allocate_vmem_descriptor(v, start, size, type)
         IN  /\ a.at \in Nat \ {NULL} /\ a.at \notin DOMAIN v.desc
             /\ a.v.desc = Bind(v.desc, a.at, NewDescriptor(start, size, type, v.heap))
             /\ a.v.head = v.head /\ a.v.heap = v.heap /\ a.v.panic = v.panic
             /\ a.v.bump \in Nat /\ RoomFor(a.v, n)
             /\ ~v.heap => a.at <= a.v.bump /\ v.bump <= a.v.bump
<1> DEFINE at == IF v.heap THEN HeapAddress(v, start) ELSE v.bump + 1
           new == NewDescriptor(start, size, type, v.heap)
           v1 == VM(Bind(v.desc, at, new), v.head, IF v.heap THEN v.bump ELSE v.bump + 1,
                    v.heap, v.panic)
           a == allocate_vmem_descriptor(v, start, size, type)
<1>1. at \in Nat \ {NULL} /\ at \notin DOMAIN v.desc
  <2>1. CASE v.heap
    BY <2>1, FreshAddress, Zenon
  <2>2. CASE ~v.heap
    BY <2>2 DEF Manager, NULL
  <2> QED BY <2>1, <2>2, Zenon
<1>2. /\ v1.desc = Bind(v.desc, at, new) /\ v1.head = v.head
      /\ v1.bump = IF v.heap THEN v.bump ELSE v.bump + 1
      /\ v1.heap = v.heap /\ v1.panic = v.panic
  BY Zenon DEF VM
<1>3. v.heap \/ v.bump < EARLY_ALLOCATION_SIZE
  BY VmmAssumption DEF RoomFor, Manager
<1>4. a = [v |-> v1, at |-> at]
  BY <1>3, Zenon DEF allocate_vmem_descriptor, NewDescriptor
<1> HIDE DEF at, new, v1, a
<1>5. a.v = v1 /\ a.at = at
  BY <1>4, Zenon
<1>6. v1.bump \in Nat /\ RoomFor(v1, n)
  BY <1>2, VmmAssumption DEF Manager, RoomFor
<1>7. ~v.heap => at <= v1.bump /\ v.bump <= v1.bump
  BY <1>2 DEF at, Manager
<1> QED BY <1>1, <1>2, <1>5, <1>6, <1>7, Zenon DEF a, new

\* The prev of a descriptor starts before it.
LEMMA PrevIsBefore ==
  ASSUME NEW desc, List(desc), NEW k \in DOMAIN desc, desc[k].prev # NULL
  PROVE  desc[k].prev \in DOMAIN desc /\ desc[desc[k].prev].start < desc[k].start
<1>1. desc[k].prev \in DOMAIN desc /\ desc[desc[k].prev].next = k
  BY Zenon DEF List
<1>2. k # NULL
  BY ListFields, Zenon
<1> QED BY <1>1, <1>2, NextIsBehind, Zenon

\* update_head goes back to the first descriptor.
LEMMA HeadIsFirst ==
  ASSUME NEW v, List(v.desc), v.head \in DOMAIN v.desc
  PROVE  /\ update_head(v).desc = v.desc /\ update_head(v).bump = v.bump
         /\ update_head(v).heap = v.heap /\ update_head(v).panic = v.panic
         /\ update_head(v).head \in DOMAIN v.desc /\ v.desc[update_head(v).head].prev = NULL
<1> DEFINE D == DOMAIN v.desc
           Stops == {k \in D : v.desc[k].prev = NULL}
           base == [k \in Stops |-> k]
           nx == [k \in D \ Stops |-> v.desc[k].prev]
           step == [x \in D \X D |-> x[2]]
           rank == [k \in D |-> v.desc[k].start]
           Solves(f) == f = [k \in D |-> IF v.desc[k].prev = NULL THEN k
                                         ELSE f[v.desc[k].prev]]
           F == CHOOSE f : Solves(f)
           N == KERNEL_END + 1
<1>1. \A k \in D : v.desc[k].start \in Nat /\ v.desc[k].start <= KERNEL_END
  <2> TAKE k \in D
  <2>1. /\ v.desc[k].start \in Nat /\ v.desc[k].size \in Nat /\ End(v.desc[k]) <= KERNEL_END
    BY ListFields, Zenon
  <2> QED BY <2>1, VmmAssumption DEF End
<1>2. \A k \in D \ Stops : /\ v.desc[k].prev \in D
                           /\ v.desc[v.desc[k].prev].start < v.desc[k].start
  BY PrevIsBefore, Zenon
<1>3. \E f : Solves(f)
  <2>1. base \in [Stops -> D] /\ nx \in [D \ Stops -> D] /\ step \in [D \X D -> D]
    BY <1>2, Zenon
  <2>2. rank \in [D -> Nat] /\ N \in Nat
    BY <1>1, VmmAssumption
  <2>3. /\ \A k \in D : rank[k] < N
        /\ \A k \in D \ Stops : rank[nx[k]] < rank[k]
    <3>1. /\ \A k \in D : rank[k] = v.desc[k].start
          /\ \A k \in D \ Stops : nx[k] = v.desc[k].prev
      BY Zenon
    <3> HIDE DEF rank, nx, Stops, D
    <3> QED BY <1>1, <1>2, <3>1, VmmAssumption
  <2>4. Stops \in SUBSET D
    BY Zenon
  <2>5. \E f \in [D -> D] :
          \A k \in D : f[k] = IF k \in Stops THEN base[k] ELSE step[<<k, f[nx[k]]>>]
    <3> HIDE DEF D, Stops, base, nx, step, rank, N
    <3>1. Chain(D, D, Stops, base, nx, step, rank, N)
      BY <2>1, <2>2, <2>3, <2>4, Zenon DEF Chain
    <3> QED BY <3>1, Recursion
  <2>6. PICK f \in [D -> D] :
          \A k \in D : f[k] = IF k \in Stops THEN base[k] ELSE step[<<k, f[nx[k]]>>]
    BY <2>5, Zenon
  <2>7. \A k \in D : f[k] = IF v.desc[k].prev = NULL THEN k ELSE f[v.desc[k].prev]
    BY <1>2, <2>6, Zenon
  <2> QED BY <2>7
<1>4. Solves(F)
  <2> HIDE DEF Solves
  <2> QED BY <1>3, Zenon
<1>5. \A k \in D : F[k] = IF k \in Stops THEN k ELSE F[v.desc[k].prev]
  <2>1. F = [k \in D |-> IF v.desc[k].prev = NULL THEN k ELSE F[v.desc[k].prev]]
    BY <1>4, Zenon
  <2> HIDE DEF F
  <2> QED BY <2>1, Zenon
<1>6. update_head(v) = VM(v.desc, F[v.head], v.bump, v.heap, v.panic)
  BY Zenon DEF update_head
<1> HIDE DEF F
<1> DEFINE Bad == {n \in Nat : \E k \in D : n = rank[k] /\ F[k] \notin Stops}
<1>7. Bad = {}
  <2> SUFFICES ASSUME Bad # {} PROVE FALSE
    BY Zenon
  <2>1. Bad \subseteq Nat
    BY Zenon
  <2>2. PICK n \in Bad : \A m \in Bad : n <= m
    <3> HIDE DEF Bad
    <3> QED BY <2>1, LeastNat, Zenon
  <2>3. PICK k \in D : n = rank[k] /\ F[k] \notin Stops
    BY Zenon
  <2>4. k \notin Stops /\ F[k] = F[v.desc[k].prev]
    <3> HIDE DEF Stops
    <3> QED BY <1>5, <2>3, Zenon
  <2>5. /\ rank[v.desc[k].prev] \in Nat
        /\ rank[v.desc[k].prev] < rank[k] /\ v.desc[k].prev \in D
    BY <1>1, <1>2, <2>4, Zenon
  <2>6. rank[v.desc[k].prev] \in Bad
    <3> HIDE DEF Stops, rank
    <3> QED BY <2>3, <2>4, <2>5, Zenon
  <2> HIDE DEF Bad, rank
  <2> QED BY <2>1, <2>2, <2>3, <2>5, <2>6
<1>8. \A k \in D : rank[k] \in Nat
  BY <1>1, Zenon
<1>9. F[v.head] \in Stops
  <2> HIDE DEF Stops, rank
  <2> QED BY <1>7, <1>8, Zenon
<1>10. F[v.head] \in DOMAIN v.desc /\ v.desc[F[v.head]].prev = NULL
  BY <1>9, Zenon
<1>11. /\ update_head(v).desc = v.desc /\ update_head(v).bump = v.bump
       /\ update_head(v).heap = v.heap /\ update_head(v).panic = v.panic
       /\ update_head(v).head = F[v.head]
  BY <1>6 DEF VM
<1> QED BY <1>10, <1>11, Zenon

------------------------------------------------------------------------------
(* Cutting a descriptor.                                                   *)

Desc(start, size, up, low, type, next, prev, heap) ==
    [start |-> start, size |-> size, up |-> up, low |-> low, type |-> type,
     next |-> next, prev |-> prev, is_from_heap |-> heap]

\* A descriptor is its fields.
LEMMA Whole ==
  ASSUME NEW d \in Descriptor
  PROVE  d = Desc(d.start, d.size, d.up, d.low, d.type, d.next, d.prev, d.is_from_heap)
BY Zenon DEF Descriptor, Desc

\* The assignments of the list operations to the fields of a descriptor.
Resize(d, size, next) == [d EXCEPT !.size = size, !.next = next]
Link(d, prev, next) == [d EXCEPT !.prev = prev, !.next = next]
Retreat(d, prev, start, size) == [d EXCEPT !.prev = prev, !.start = start, !.size = size]
Mark(d, type, up, low) == [d EXCEPT !.type = type, !.up = up, !.low = low]
Release(d, type, low, up) == [d EXCEPT !.type = type, !.low = low, !.up = up]

\* e is desc with descriptor i split after `first' pages, the rest being n.
IsSplit(e, desc, i, first, n, heap) ==
    /\ e = [k \in DOMAIN desc \cup {n} |-> e[k]]
    /\ e[n] = Desc(desc[i].start + first, desc[i].size - first, 0, 0, desc[i].type,
                   desc[i].next, i, heap)
    /\ e[i] = Desc(desc[i].start, first, desc[i].up, desc[i].low, desc[i].type,
                   n, desc[i].prev, desc[i].is_from_heap)
    /\ \A k \in DOMAIN desc \ {i} :
          e[k] = Desc(desc[k].start, desc[k].size, desc[k].up, desc[k].low, desc[k].type,
                      desc[k].next, IF k = desc[i].next THEN n ELSE desc[k].prev,
                      desc[k].is_from_heap)

\* The same, with the part before i's range as the new descriptor p.
IsSplitBefore(e, desc, i, first, p, heap) ==
    /\ e = [k \in DOMAIN desc \cup {p} |-> e[k]]
    /\ e[p] = Desc(desc[i].start, first, 0, 0, desc[i].type, i, desc[i].prev, heap)
    /\ e[i] = Desc(desc[i].start + first, desc[i].size - first, desc[i].up, desc[i].low,
                   desc[i].type, desc[i].next, p, desc[i].is_from_heap)
    /\ \A k \in DOMAIN desc \ {i} :
          e[k] = Desc(desc[k].start, desc[k].size, desc[k].up, desc[k].low, desc[k].type,
                      IF k = desc[i].prev THEN p ELSE desc[k].next, desc[k].prev,
                      desc[k].is_from_heap)

\* What List says of each descriptor and its neighbours.
LEMMA ListFacts ==
  ASSUME NEW desc, List(desc)
  PROVE  /\ \A k \in DOMAIN desc :
              /\ k \in Nat /\ k # NULL /\ desc[k] \in Descriptor /\ InRange(desc[k])
              /\ desc[k].start \in Nat /\ desc[k].size \in Nat /\ desc[k].size > 0
              /\ desc[k].next \in Nat /\ desc[k].prev \in Nat
         /\ \A j, k \in DOMAIN desc : j # k => Apart(desc[j], desc[k])
         /\ \A k \in DOMAIN desc : desc[k].next = NULL => End(desc[k]) = KERNEL_END
         /\ \A k \in DOMAIN desc : desc[k].next # NULL =>
              /\ desc[k].next \in DOMAIN desc /\ desc[k].next # k
              /\ desc[desc[k].next].prev = k
              /\ desc[desc[k].next].start = After(End(desc[k]))
         /\ \A k \in DOMAIN desc : desc[k].prev = NULL => desc[k].start = 1
         /\ \A k \in DOMAIN desc : desc[k].prev # NULL =>
              desc[k].prev \in DOMAIN desc /\ desc[k].prev # k /\ desc[desc[k].prev].next = k
<1>1. \A k \in DOMAIN desc :
              /\ k \in Nat /\ k # NULL
              /\ desc[k].start \in Nat /\ desc[k].size \in Nat /\ desc[k].size > 0
              /\ desc[k].next \in Nat /\ desc[k].prev \in Nat
  BY ListFields, Zenon
<1>2. \A k \in DOMAIN desc : desc[k].next # NULL => desc[k].next # k
  <2> TAKE k \in DOMAIN desc
  <2> HAVE desc[k].next # NULL
  <2>1. desc[k].start < desc[desc[k].next].start
    BY NextIsBehind, Zenon
  <2> QED BY <1>1, <2>1
<1>3. \A k \in DOMAIN desc : desc[k].prev # NULL => desc[k].prev # k
  <2> TAKE k \in DOMAIN desc
  <2> HAVE desc[k].prev # NULL
  <2>1. desc[desc[k].prev].start < desc[k].start
    BY PrevIsBefore, Zenon
  <2> QED BY <1>1, <2>1
<1> QED BY <1>1, <1>2, <1>3, Zenon DEF List

\* The neighbours of a descriptor point back to it.
LEMMA Neighbours ==
  ASSUME NEW desc, List(desc), NEW k \in DOMAIN desc
  PROVE  /\ k # NULL
         /\ desc[k].next # NULL =>
              desc[k].next \in DOMAIN desc /\ desc[k].next # k /\ desc[desc[k].next].prev = k
         /\ desc[k].prev # NULL =>
              desc[k].prev \in DOMAIN desc /\ desc[k].prev # k /\ desc[desc[k].prev].next = k
BY ListFacts

\* A split keeps the list.
LEMMA SplitList ==
  ASSUME NEW desc, List(desc), NEW i \in DOMAIN desc, NEW first \in Nat, 0 < first,
         first < desc[i].size, NEW n \in Nat \ {NULL}, n \notin DOMAIN desc,
         NEW heap \in BOOLEAN, NEW e, IsSplit(e, desc, i, first, n, heap)
  PROVE  List(e)
<1> DEFINE D == DOMAIN desc
           d == desc[i]
<1>1. DOMAIN e = D \cup {n}
  BY Zenon DEF IsSplit
<1>2. /\ e[n].start = d.start + first /\ e[n].size = d.size - first
      /\ e[n].next = d.next /\ e[n].prev = i
  BY DEF IsSplit, Desc
<1>3. e[i].start = d.start /\ e[i].size = first /\ e[i].next = n /\ e[i].prev = d.prev
  BY DEF IsSplit, Desc
<1>4. \A k \in D \ {i} : /\ e[k].start = desc[k].start /\ e[k].size = desc[k].size
                         /\ e[k].next = desc[k].next
                         /\ e[k].prev = IF k = d.next THEN n ELSE desc[k].prev
  BY DEF IsSplit, Desc
<1>5. \A k \in D :
        /\ k \in Nat /\ k # NULL /\ desc[k] \in Descriptor /\ InRange(desc[k])
        /\ desc[k].start \in Nat /\ desc[k].size \in Nat /\ desc[k].size > 0
        /\ desc[k].next \in Nat /\ desc[k].prev \in Nat
  BY ListFacts, Zenon
<1>6. \A j, k \in D : j # k => Apart(desc[j], desc[k])
  BY ListFacts, Zenon
<1>7. /\ \A k \in D : desc[k].next = NULL => End(desc[k]) = KERNEL_END
      /\ \A k \in D : desc[k].next # NULL =>
           /\ desc[k].next \in D /\ desc[k].next # k /\ desc[desc[k].next].prev = k
           /\ desc[desc[k].next].start = After(End(desc[k]))
  BY ListFacts
<1>8. /\ \A k \in D : desc[k].prev = NULL => desc[k].start = 1
      /\ \A k \in D : desc[k].prev # NULL =>
           desc[k].prev \in D /\ desc[k].prev # k /\ desc[desc[k].prev].next = k
  BY ListFacts, Zenon
<1>9. i \in D /\ i # n /\ n \notin D /\ n \in Nat \ {NULL}
  BY Zenon
<1> HIDE DEF D
<1>10. DOMAIN e \subseteq Nat \ {NULL}
  BY <1>1, <1>5, Zenon
<1>11. \A k \in DOMAIN e : e[k] \in Descriptor
  <2> SUFFICES ASSUME NEW k \in DOMAIN e PROVE e[k] \in Descriptor
    BY Zenon
  <2>1. CASE k = n
    BY <1>5, <1>9, <2>1, Fields DEF IsSplit, Desc, Descriptor
  <2>2. CASE k = i
    BY <1>5, <1>9, <2>2, Fields DEF IsSplit, Desc, Descriptor
  <2>3. CASE k \in D \ {i}
    BY <1>5, <1>9, <2>3, Fields DEF IsSplit, Desc, Descriptor, D
  <2> QED BY <1>1, <2>1, <2>2, <2>3, Zenon
<1>12. \A k \in DOMAIN e : InRange(e[k])
  <2> SUFFICES ASSUME NEW k \in DOMAIN e PROVE InRange(e[k])
    BY Zenon
  <2>1. CASE k = n
    BY <1>2, <1>5, <1>9, <2>1, VmmAssumption DEF InRange, End
  <2>2. CASE k = i
    BY <1>3, <1>5, <1>9, <2>2, VmmAssumption DEF InRange, End
  <2>3. CASE k \in D \ {i}
    BY <1>4, <1>5, <2>3, Zenon DEF InRange, End
  <2> QED BY <1>1, <2>1, <2>2, <2>3, Zenon
<1>13. \A j, k \in DOMAIN e : j # k => Apart(e[j], e[k])
  <2>1. \A j \in D \ {i} : Apart(e[j], e[i]) /\ Apart(e[i], e[j])
    BY <1>3, <1>4, <1>5, <1>6, <1>9 DEF Apart, End
  <2>2. \A j \in D \ {i} : Apart(e[j], e[n]) /\ Apart(e[n], e[j])
    BY <1>2, <1>4, <1>5, <1>6, <1>9 DEF Apart, End
  <2>3. Apart(e[i], e[n]) /\ Apart(e[n], e[i])
    BY <1>2, <1>3, <1>5, <1>9 DEF Apart, End
  <2>4. \A j, k \in D \ {i} : j # k => Apart(e[j], e[k])
    BY <1>4, <1>6 DEF Apart, End
  <2> QED BY <1>1, <2>1, <2>2, <2>3, <2>4, Zenon
<1>14. \A k \in DOMAIN e : e[k].next = NULL => End(e[k]) = KERNEL_END
  BY <1>1, <1>2, <1>3, <1>4, <1>5, <1>7, <1>9, VmmAssumption DEF End
<1>15. \A k \in DOMAIN e : e[k].next # NULL =>
         /\ e[k].next \in DOMAIN e /\ e[e[k].next].prev = k
         /\ e[e[k].next].start = After(End(e[k]))
  <2> SUFFICES ASSUME NEW k \in DOMAIN e, e[k].next # NULL
               PROVE  /\ e[k].next \in DOMAIN e /\ e[e[k].next].prev = k
                      /\ e[e[k].next].start = After(End(e[k]))
    BY Zenon
  <2>1. CASE k = n
    <3>1. End(e[n]) = End(d)
      BY <1>2, <1>5, <1>9 DEF End
    <3>2. d.next # NULL /\ d.next \in D /\ d.next # i /\ desc[d.next].start = After(End(d))
      BY <1>2, <1>7, <1>9, <2>1, Zenon
    <3> QED BY <1>1, <1>2, <1>4, <2>1, <3>1, <3>2
  <2>2. CASE k = i
    <3>1. End(e[i]) = d.start + first /\ d.start + first # IDENTITY_END
      BY <1>3, <1>5, <1>9, VmmAssumption DEF End, InRange
    <3> QED BY <1>1, <1>2, <1>3, <2>2, <3>1, Zenon DEF After
  <2>3. CASE k \in D \ {i}
    <3>1. /\ desc[k].next # NULL /\ desc[k].next \in D /\ desc[k].next # k
          /\ desc[desc[k].next].prev = k
          /\ desc[desc[k].next].start = After(End(desc[k]))
      BY <1>4, <1>7, <2>3, Zenon
    <3>2. End(e[k]) = End(desc[k])
      BY <1>4, <2>3, Zenon DEF End
    <3>3. desc[k].next # d.next
      BY <1>7, <1>9, <2>3, <3>1, Zenon
    <3>4. e[desc[k].next].prev = k /\ e[desc[k].next].start = desc[desc[k].next].start
      BY <1>3, <1>4, <3>1, <3>3, Zenon
    <3> QED BY <1>1, <1>4, <2>3, <3>1, <3>2, <3>4, Zenon
  <2> QED BY <1>1, <2>1, <2>2, <2>3, Zenon
<1>16. \A k \in DOMAIN e : e[k].prev = NULL => e[k].start = 1
  BY <1>1, <1>2, <1>3, <1>4, <1>5, <1>8, <1>9
<1>17. \A k \in DOMAIN e : e[k].prev # NULL =>
         e[k].prev \in DOMAIN e /\ e[e[k].prev].next = k
  <2> SUFFICES ASSUME NEW k \in DOMAIN e, e[k].prev # NULL
               PROVE  e[k].prev \in DOMAIN e /\ e[e[k].prev].next = k
    BY Zenon
  <2>1. CASE k = n
    BY <1>1, <1>2, <1>3, <1>9, <2>1, Zenon
  <2>2. CASE k = i
    BY <1>1, <1>3, <1>4, <1>8, <1>9, <2>2
  <2>3. CASE k \in D \ {i} /\ k = d.next
    BY <1>1, <1>2, <1>4, <2>3, Zenon
  <2>4. CASE k \in D \ {i} /\ k # d.next
    <3>1. e[k].prev = desc[k].prev /\ desc[k].prev \in D /\ desc[desc[k].prev].next = k
      BY <1>4, <1>8, <2>4, Zenon
    <3>2. desc[k].prev # i
      BY <2>4, <3>1, Zenon
    <3> QED BY <1>1, <1>4, <3>1, <3>2, Zenon
  <2> QED BY <1>1, <2>1, <2>2, <2>3, <2>4, Zenon
<1>18. e = [k \in DOMAIN e |-> e[k]]
  BY <1>1, Zenon DEF IsSplit, D
<1> QED BY <1>10, <1>11, <1>12, <1>13, <1>14, <1>15, <1>16, <1>17, <1>18, Zenon DEF List

\* So does a split that gives the first part to a new descriptor.
LEMMA SplitBeforeList ==
  ASSUME NEW desc, List(desc), NEW i \in DOMAIN desc, NEW first \in Nat, 0 < first,
         first < desc[i].size, NEW p \in Nat \ {NULL}, p \notin DOMAIN desc,
         NEW heap \in BOOLEAN, NEW e, IsSplitBefore(e, desc, i, first, p, heap)
  PROVE  List(e)
<1> DEFINE D == DOMAIN desc
           d == desc[i]
<1>1. DOMAIN e = D \cup {p}
  BY Zenon DEF IsSplitBefore
<1>2. e[p].start = d.start /\ e[p].size = first /\ e[p].next = i /\ e[p].prev = d.prev
  BY DEF IsSplitBefore, Desc
<1>3. /\ e[i].start = d.start + first /\ e[i].size = d.size - first
      /\ e[i].next = d.next /\ e[i].prev = p
  BY DEF IsSplitBefore, Desc
<1>4. \A k \in D \ {i} : /\ e[k].start = desc[k].start /\ e[k].size = desc[k].size
                         /\ e[k].next = IF k = d.prev THEN p ELSE desc[k].next
                         /\ e[k].prev = desc[k].prev
  BY DEF IsSplitBefore, Desc
<1>5. \A k \in D :
        /\ k \in Nat /\ k # NULL /\ desc[k] \in Descriptor /\ InRange(desc[k])
        /\ desc[k].start \in Nat /\ desc[k].size \in Nat /\ desc[k].size > 0
        /\ desc[k].next \in Nat /\ desc[k].prev \in Nat
  BY ListFacts, Zenon
<1>6. \A j, k \in D : j # k => Apart(desc[j], desc[k])
  BY ListFacts, Zenon
<1>7. /\ \A k \in D : desc[k].next = NULL => End(desc[k]) = KERNEL_END
      /\ \A k \in D : desc[k].next # NULL =>
           /\ desc[k].next \in D /\ desc[k].next # k /\ desc[desc[k].next].prev = k
           /\ desc[desc[k].next].start = After(End(desc[k]))
  BY ListFacts
<1>8. /\ \A k \in D : desc[k].prev = NULL => desc[k].start = 1
      /\ \A k \in D : desc[k].prev # NULL =>
           desc[k].prev \in D /\ desc[k].prev # k /\ desc[desc[k].prev].next = k
  BY ListFacts, Zenon
<1>9. i \in D /\ i # p /\ p \notin D /\ p \in Nat \ {NULL}
  BY Zenon
<1> HIDE DEF D
<1>10. DOMAIN e \subseteq Nat \ {NULL}
  BY <1>1, <1>5, Zenon
<1>11. \A k \in DOMAIN e : e[k] \in Descriptor
  <2> SUFFICES ASSUME NEW k \in DOMAIN e PROVE e[k] \in Descriptor
    BY Zenon
  <2>1. CASE k = p
    BY <1>5, <1>9, <2>1, Fields DEF IsSplitBefore, Desc, Descriptor
  <2>2. CASE k = i
    BY <1>5, <1>9, <2>2, Fields DEF IsSplitBefore, Desc, Descriptor
  <2>3. CASE k \in D \ {i}
    BY <1>5, <1>9, <2>3, Fields DEF IsSplitBefore, Desc, Descriptor, D
  <2> QED BY <1>1, <2>1, <2>2, <2>3, Zenon
<1>12. \A k \in DOMAIN e : InRange(e[k])
  <2> SUFFICES ASSUME NEW k \in DOMAIN e PROVE InRange(e[k])
    BY Zenon
  <2>1. CASE k = p
    BY <1>2, <1>5, <1>9, <2>1, VmmAssumption DEF InRange, End
  <2>2. CASE k = i
    BY <1>3, <1>5, <1>9, <2>2, VmmAssumption DEF InRange, End
  <2>3. CASE k \in D \ {i}
    BY <1>4, <1>5, <2>3, Zenon DEF InRange, End
  <2> QED BY <1>1, <2>1, <2>2, <2>3, Zenon
<1>13. \A j, k \in DOMAIN e : j # k => Apart(e[j], e[k])
  <2>1. \A j \in D \ {i} : Apart(e[j], e[i]) /\ Apart(e[i], e[j])
    BY <1>3, <1>4, <1>5, <1>6, <1>9 DEF Apart, End
  <2>2. \A j \in D \ {i} : Apart(e[j], e[p]) /\ Apart(e[p], e[j])
    BY <1>2, <1>4, <1>5, <1>6, <1>9 DEF Apart, End
  <2>3. Apart(e[i], e[p]) /\ Apart(e[p], e[i])
    BY <1>2, <1>3, <1>5, <1>9 DEF Apart, End
  <2>4. \A j, k \in D \ {i} : j # k => Apart(e[j], e[k])
    BY <1>4, <1>6, Zenon DEF Apart, End
  <2> QED BY <1>1, <2>1, <2>2, <2>3, <2>4, Zenon
<1>14. \A k \in DOMAIN e : e[k].next = NULL => End(e[k]) = KERNEL_END
  BY <1>1, <1>2, <1>3, <1>4, <1>5, <1>7, <1>9, VmmAssumption DEF End
<1>15. \A k \in DOMAIN e : e[k].next # NULL =>
         /\ e[k].next \in DOMAIN e /\ e[e[k].next].prev = k
         /\ e[e[k].next].start = After(End(e[k]))
  <2> SUFFICES ASSUME NEW k \in DOMAIN e, e[k].next # NULL
               PROVE  /\ e[k].next \in DOMAIN e /\ e[e[k].next].prev = k
                      /\ e[e[k].next].start = After(End(e[k]))
    BY Zenon
  <2>1. CASE k = i
    <3>1. End(e[i]) = End(d)
      BY <1>3, <1>5, <1>9 DEF End
    <3>2. /\ d.next # NULL /\ d.next \in D /\ d.next # i /\ desc[d.next].prev = i
          /\ desc[d.next].start = After(End(d))
      BY <1>3, <1>7, <1>9, <2>1, Zenon
    <3> QED BY <1>1, <1>3, <1>4, <2>1, <3>1, <3>2
  <2>2. CASE k = p
    <3>1. End(e[p]) = d.start + first /\ d.start + first # IDENTITY_END
      BY <1>2, <1>5, <1>9, VmmAssumption DEF End, InRange
    <3> QED BY <1>1, <1>2, <1>3, <1>9, <2>2, <3>1, Zenon DEF After
  <2>3. CASE k \in D \ {i} /\ k = d.prev
    <3>1. desc[k].next = i /\ d.start = After(End(desc[k]))
      BY <1>5, <1>7, <1>8, <1>9, <2>3
    <3>2. End(e[k]) = End(desc[k])
      BY <1>4, <2>3, Zenon DEF End
    <3> QED BY <1>1, <1>2, <1>4, <2>3, <3>1, <3>2
  <2>4. CASE k \in D \ {i} /\ k # d.prev
    <3>1. /\ desc[k].next # NULL /\ desc[k].next \in D /\ desc[k].next # k
          /\ desc[desc[k].next].prev = k
          /\ desc[desc[k].next].start = After(End(desc[k]))
      BY <1>4, <1>7, <2>4, Zenon
    <3>2. End(e[k]) = End(desc[k])
      BY <1>4, <2>4, Zenon DEF End
    <3>3. desc[k].next # i
      BY <1>9, <2>4, <3>1, Zenon
    <3>4. e[desc[k].next].prev = k /\ e[desc[k].next].start = desc[desc[k].next].start
      BY <1>4, <3>1, <3>3, Zenon
    <3> QED BY <1>1, <1>4, <2>4, <3>1, <3>2, <3>4, Zenon
  <2> QED BY <1>1, <2>1, <2>2, <2>3, <2>4, Zenon
<1>16. \A k \in DOMAIN e : e[k].prev = NULL => e[k].start = 1
  BY <1>1, <1>2, <1>3, <1>4, <1>5, <1>8, <1>9
<1>17. \A k \in DOMAIN e : e[k].prev # NULL =>
         e[k].prev \in DOMAIN e /\ e[e[k].prev].next = k
  <2> SUFFICES ASSUME NEW k \in DOMAIN e, e[k].prev # NULL
               PROVE  e[k].prev \in DOMAIN e /\ e[e[k].prev].next = k
    BY Zenon
  <2>1. CASE k = i
    BY <1>1, <1>2, <1>3, <1>9, <2>1, Zenon
  <2>2. CASE k = p
    BY <1>1, <1>2, <1>4, <1>8, <1>9, <2>2
  <2>3. CASE k \in D \ {i}
    <3>1. e[k].prev = desc[k].prev /\ desc[k].prev \in D /\ desc[desc[k].prev].next = k
      BY <1>4, <1>8, <2>3, Zenon
    <3>2. desc[k].prev # d.prev
      BY <1>5, <1>8, <1>9, <2>3, <3>1, Zenon
    <3>3. CASE desc[k].prev = i
      BY <1>1, <1>3, <1>9, <3>1, <3>3, Zenon
    <3>4. CASE desc[k].prev # i
      BY <1>1, <1>4, <3>1, <3>2, <3>4
    <3> QED BY <3>3, <3>4, Zenon
  <2> QED BY <1>1, <2>1, <2>2, <2>3, Zenon
<1>18. e = [k \in DOMAIN e |-> e[k]]
  BY <1>1, Zenon DEF IsSplitBefore, D
<1> QED BY <1>10, <1>11, <1>12, <1>13, <1>14, <1>15, <1>16, <1>17, <1>18, Zenon DEF List

\* What Resize makes of it.
LEMMA ResizeIs ==
  ASSUME NEW s, NEW z, NEW u, NEW l, NEW t, NEW n, NEW p, NEW h, NEW x, NEW y
  PROVE  Resize(Desc(s, z, u, l, t, n, p, h), x, y) = Desc(s, x, u, l, t, y, p, h)
<1> DEFINE d0 == Desc(s, z, u, l, t, n, p, h)
           d1 == [d0 EXCEPT !.size = x]
           d2 == [d1 EXCEPT !.next = y]
<1>1. d1 = Desc(s, x, u, l, t, n, p, h)
  BY DEF Desc
<1>2. d2 = Desc(s, x, u, l, t, y, p, h)
  <2> HIDE DEF d1
  <2> QED BY <1>1 DEF Desc
<1> QED BY <1>2, Zenon DEF Resize

\* What Link makes of it.
LEMMA LinkIs ==
  ASSUME NEW s, NEW z, NEW u, NEW l, NEW t, NEW n, NEW p, NEW h, NEW x, NEW y
  PROVE  Link(Desc(s, z, u, l, t, n, p, h), x, y) = Desc(s, z, u, l, t, y, x, h)
<1> DEFINE d0 == Desc(s, z, u, l, t, n, p, h)
           d1 == [d0 EXCEPT !.prev = x]
           d2 == [d1 EXCEPT !.next = y]
<1>1. d1 = Desc(s, z, u, l, t, n, x, h)
  BY DEF Desc
<1>2. d2 = Desc(s, z, u, l, t, y, x, h)
  <2> HIDE DEF d1
  <2> QED BY <1>1 DEF Desc
<1> QED BY <1>2, Zenon DEF Link

\* What Retreat makes of it.
LEMMA RetreatIs ==
  ASSUME NEW s, NEW z, NEW u, NEW l, NEW t, NEW n, NEW p, NEW h, NEW x, NEW y, NEW w
  PROVE  Retreat(Desc(s, z, u, l, t, n, p, h), x, y, w) = Desc(y, w, u, l, t, n, x, h)
<1> DEFINE d0 == Desc(s, z, u, l, t, n, p, h)
           d1 == [d0 EXCEPT !.prev = x]
           d2 == [d1 EXCEPT !.start = y]
           d3 == [d2 EXCEPT !.size = w]
<1>1. d1 = Desc(s, z, u, l, t, n, x, h)
  BY DEF Desc
<1>2. d2 = Desc(y, z, u, l, t, n, x, h)
  <2> HIDE DEF d1
  <2> QED BY <1>1 DEF Desc
<1>3. d3 = Desc(y, w, u, l, t, n, x, h)
  <2> HIDE DEF d2
  <2> QED BY <1>2 DEF Desc
<1> QED BY <1>3, Zenon DEF Retreat

\* What Mark makes of it.
LEMMA MarkIs ==
  ASSUME NEW s, NEW z, NEW u, NEW l, NEW t, NEW n, NEW p, NEW h, NEW x, NEW y, NEW w
  PROVE  Mark(Desc(s, z, u, l, t, n, p, h), x, y, w) = Desc(s, z, y, w, x, n, p, h)
<1> DEFINE d0 == Desc(s, z, u, l, t, n, p, h)
           d1 == [d0 EXCEPT !.type = x]
           d2 == [d1 EXCEPT !.up = y]
           d3 == [d2 EXCEPT !.low = w]
<1>1. d1 = Desc(s, z, u, l, x, n, p, h)
  BY DEF Desc
<1>2. d2 = Desc(s, z, y, l, x, n, p, h)
  <2> HIDE DEF d1
  <2> QED BY <1>1 DEF Desc
<1>3. d3 = Desc(s, z, y, w, x, n, p, h)
  <2> HIDE DEF d2
  <2> QED BY <1>2 DEF Desc
<1> QED BY <1>3, Zenon DEF Mark

\* What Release makes of it.
LEMMA ReleaseIs ==
  ASSUME NEW s, NEW z, NEW u, NEW l, NEW t, NEW n, NEW p, NEW h, NEW x, NEW y, NEW w
  PROVE  Release(Desc(s, z, u, l, t, n, p, h), x, y, w) = Desc(s, z, w, y, x, n, p, h)
<1> DEFINE d0 == Desc(s, z, u, l, t, n, p, h)
           d1 == [d0 EXCEPT !.type = x]
           d2 == [d1 EXCEPT !.low = y]
           d3 == [d2 EXCEPT !.up = w]
<1>1. d1 = Desc(s, z, u, l, x, n, p, h)
  BY DEF Desc
<1>2. d2 = Desc(s, z, u, y, x, n, p, h)
  <2> HIDE DEF d1
  <2> QED BY <1>1 DEF Desc
<1>3. d3 = Desc(s, z, w, y, x, n, p, h)
  <2> HIDE DEF d2
  <2> QED BY <1>2 DEF Desc
<1> QED BY <1>3, Zenon DEF Release


\* Split does split, at a new descriptor, and leaves the manager as it was.
LEMMA SplitEffect ==
  ASSUME NEW v, Manager(v), List(v.desc), NEW m \in Nat, RoomFor(v, m + 1),
         NEW i \in DOMAIN v.desc, NEW first \in Nat, 0 < first, first < v.desc[i].size
  PROVE  LET s == Split(v, i, first)
         IN  /\ s.at \in Nat \ {NULL} /\ s.at \notin DOMAIN v.desc
             /\ IsSplit(s.v.desc, v.desc, i, first, s.at, v.heap) /\ List(s.v.desc)
             /\ Manager(s.v) /\ s.v.desc[s.v.head].prev = NULL
             /\ s.v.panic = v.panic /\ s.v.heap = v.heap /\ RoomFor(s.v, m)
<1> DEFINE d == v.desc[i]
           a == allocate_vmem_descriptor(v, d.start + first, d.size - first, d.type)
           n == a.at
           new == NewDescriptor(d.start + first, d.size - first, d.type, v.heap)
           e1 == [a.v.desc EXCEPT ![i].size = first, ![i].next = n,
                                  ![n].prev = i, ![n].next = d.next]
           e == SetPrev(e1, d.next, n)
           w == WithDesc(a.v, e)
<1>1. /\ d.start \in Nat /\ d.size \in Nat /\ d.start + first \in Nat \ {0}
      /\ d.next \in Nat /\ d \in Descriptor
  BY ListFacts
<1>2. /\ n \in Nat \ {NULL} /\ n \notin DOMAIN v.desc
      /\ a.v.desc = Bind(v.desc, n, new)
      /\ a.v.head = v.head /\ a.v.heap = v.heap /\ a.v.panic = v.panic
      /\ a.v.bump \in Nat /\ RoomFor(a.v, m)
      /\ ~v.heap => n <= a.v.bump /\ v.bump <= a.v.bump
  <2> HIDE DEF d
  <2> QED BY <1>1, Allocate, Zenon
<1>3. Split(v, i, first) = [v |-> update_head(w), at |-> n]
  BY Zenon DEF Split
<1>4. /\ w.desc = e /\ w.head = v.head /\ w.bump = a.v.bump /\ w.heap = v.heap
      /\ w.panic = v.panic
  <2> HIDE DEF a, e, n
  <2> QED BY <1>2, Zenon DEF WithDesc, VM
<1> HIDE DEF a, n, w
<1>5. \A k \in DOMAIN v.desc : v.desc[k] \in Descriptor
  BY ListFacts, Zenon
<1>6. d.next # NULL => d.next \in DOMAIN v.desc /\ d.next # i /\ d.next # n
  BY <1>2, ListFacts
<1>7. IsSplit(e, v.desc, i, first, n, v.heap)
  <2>1. \A k \in DOMAIN v.desc : v.desc[k] =
          Desc(v.desc[k].start, v.desc[k].size, v.desc[k].up, v.desc[k].low, v.desc[k].type,
               v.desc[k].next, v.desc[k].prev, v.desc[k].is_from_heap)
    BY <1>5, Zenon DEF Descriptor, Desc
  <2>2. e1 = [k \in DOMAIN v.desc \cup {n} |->
                IF k = n THEN Desc(d.start + first, d.size - first, 0, 0, d.type, d.next, i, v.heap)
                ELSE IF k = i THEN Desc(d.start, first, d.up, d.low, d.type, n, d.prev, d.is_from_heap)
                ELSE v.desc[k]]
    <3>1. a.v.desc = [k \in DOMAIN v.desc \cup {n} |-> IF k = n THEN new ELSE v.desc[k]]
      BY <1>2, Zenon DEF Bind
    <3>2. e1 = [k \in DOMAIN v.desc \cup {n} |->
                  IF k = n THEN [new EXCEPT !.prev = i, !.next = d.next]
                  ELSE IF k = i THEN [d EXCEPT !.size = first, !.next = n]
                  ELSE v.desc[k]]
      <4> HIDE DEF d, new
      <4> QED BY <1>2, <3>1, Zenon DEF d
    <3>3. Link(new, i, d.next) =
             Desc(d.start + first, d.size - first, 0, 0, d.type, d.next, i, v.heap)
      <4>1. new = Desc(d.start + first, d.size - first, 0, 0, d.type, NULL, NULL, v.heap)
        BY Zenon DEF NewDescriptor, Desc
      <4> HIDE DEF d, new
      <4> QED BY <4>1, LinkIs
    <3>4. Resize(d, first, n) =
             Desc(d.start, first, d.up, d.low, d.type, n, d.prev, d.is_from_heap)
      <4> HIDE DEF d
      <4> QED BY <1>1, Whole, ResizeIs
    <3>5. /\ [new EXCEPT !.prev = i, !.next = d.next] = Link(new, i, d.next)
          /\ [d EXCEPT !.size = first, !.next = n] = Resize(d, first, n)
      BY Zenon DEF Link, Resize
    <3> HIDE DEF e1, d, new
    <3> QED BY <3>2, <3>3, <3>4, <3>5, Zenon
  <2> HIDE DEF e1
  <2>3. CASE d.next = NULL
    <3>1. e = e1
      BY <2>3, Zenon DEF SetPrev
    <3>2. \A k \in DOMAIN v.desc : k # d.next
      BY <2>3, ListFacts, Zenon
    <3> QED BY <1>2, <2>1, <2>2, <3>1, <3>2, Zenon DEF IsSplit
  <2>4. CASE d.next # NULL
    <3>1. e = [e1 EXCEPT ![d.next].prev = n]
      BY <2>4, Zenon DEF SetPrev
    <3>2. e1[d.next] = v.desc[d.next]
      BY <1>6, <2>2, <2>4, Zenon
    <3>3. e = [k \in DOMAIN v.desc \cup {n} |->
                 IF k = d.next THEN [v.desc[k] EXCEPT !.prev = n] ELSE e1[k]]
      BY <1>6, <2>2, <2>4, <3>1, <3>2, Zenon
    <3>4. [v.desc[d.next] EXCEPT !.prev = n] =
          Desc(v.desc[d.next].start, v.desc[d.next].size, v.desc[d.next].up, v.desc[d.next].low,
               v.desc[d.next].type, v.desc[d.next].next, n, v.desc[d.next].is_from_heap)
      BY <1>5, <1>6, <2>4 DEF Descriptor, Desc
    <3>5. e = [k \in DOMAIN v.desc \cup {n} |-> e[k]]
      BY <3>3, Zenon
    <3>6. e[n] = e1[n] /\ e[i] = e1[i]
      BY <1>2, <1>6, <2>4, <3>3, Zenon
    <3>7. \A k \in DOMAIN v.desc \ {i} : e[k] =
            Desc(v.desc[k].start, v.desc[k].size, v.desc[k].up, v.desc[k].low, v.desc[k].type,
                 v.desc[k].next, IF k = d.next THEN n ELSE v.desc[k].prev, v.desc[k].is_from_heap)
      <4> TAKE k \in DOMAIN v.desc \ {i}
      <4>1. CASE k = d.next
        <5>1. e[k] = [v.desc[k] EXCEPT !.prev = n]
          BY <3>3, <4>1, Zenon
        <5> QED BY <3>4, <4>1, <5>1, Zenon
      <4>2. CASE k # d.next
        <5>1. e[k] = v.desc[k]
          BY <1>2, <2>2, <3>3, <4>2, Zenon
        <5> QED BY <2>1, <4>2, <5>1, Zenon
      <4> QED BY <4>1, <4>2, Zenon
    <3> QED BY <1>2, <2>2, <3>5, <3>6, <3>7, Zenon DEF IsSplit
  <2> QED BY <2>3, <2>4, Zenon
<1> HIDE DEF e
<1>8. List(e)
  <2>1. v.heap \in BOOLEAN
    BY Zenon DEF Manager
  <2> QED BY <1>2, <1>7, <2>1, SplitList, Zenon
<1>9. DOMAIN e = DOMAIN v.desc \cup {n}
  BY <1>7, Zenon DEF IsSplit
<1>10. w.head \in DOMAIN w.desc
  BY <1>4, <1>9, Zenon DEF Manager
<1>11. /\ update_head(w).desc = e /\ update_head(w).bump = a.v.bump
       /\ update_head(w).heap = v.heap /\ update_head(w).panic = v.panic
       /\ update_head(w).head \in DOMAIN e /\ e[update_head(w).head].prev = NULL
  BY <1>4, <1>8, <1>10, HeadIsFirst, Zenon
<1>12. Manager(update_head(w))
  <2>1. ~v.heap => \A k \in DOMAIN e : k <= a.v.bump
    BY <1>2, <1>9, ListFacts DEF Manager
  <2> QED BY <1>2, <1>11, <2>1, Zenon DEF Manager
<1>13. RoomFor(update_head(w), m)
  BY <1>2, <1>11, Zenon DEF RoomFor
<1> DEFINE s == Split(v, i, first)
<1>14. s.v = update_head(w) /\ s.at = n
  BY <1>3
<1> QED BY <1>2, <1>7, <1>8, <1>11, <1>12, <1>13, <1>14, Zenon

\* s is v with descriptor i split twice: the part before start goes to a new
\* descriptor, and so does the part behind start + size.
SplitTwice(s, v, i, start, size) ==
    /\ \E e, p, n :
          /\ p \in Nat \ {NULL} /\ p \notin DOMAIN v.desc
          /\ IsSplitBefore(e, v.desc, i, start - v.desc[i].start, p, v.heap) /\ List(e)
          /\ n \in Nat \ {NULL} /\ n \notin DOMAIN e
          /\ IsSplit(s.v.desc, e, i, size, n, v.heap)
    /\ List(s.v.desc) /\ s.at = i
    /\ Manager(s.v) /\ s.v.desc[s.v.head].prev = NULL
    /\ s.v.panic = v.panic /\ s.v.heap = v.heap

\* Which is what CutMiddle does.
LEMMA CutMiddleEffect ==
  ASSUME NEW v, Manager(v), List(v.desc), RoomFor(v, 2), NEW i \in DOMAIN v.desc,
         NEW start \in Nat, NEW size \in Nat \ {0}, v.desc[i].start < start,
         start + size < End(v.desc[i])
  PROVE  SplitTwice(CutMiddle(v, i, start, size), v, i, start, size)
<1> DEFINE d == v.desc[i]
           first == start - d.start
           a == allocate_vmem_descriptor(v, d.start, first, d.type)
           p == a.at
           new == NewDescriptor(d.start, first, d.type, v.heap)
           e1 == [a.v.desc EXCEPT ![p].prev = d.prev, ![p].next = i, ![i].prev = p,
                                  ![i].start = start, ![i].size = d.start + d.size - start]
           e == SetNext(e1, d.prev, p)
           w == WithDesc(a.v, e)
<1>1. /\ d.start \in Nat \ {0} /\ d.size \in Nat /\ d.prev \in Nat /\ d \in Descriptor
      /\ first \in Nat /\ 0 < first /\ first < d.size
      /\ d.start + first = start /\ d.start + d.size - start = d.size - first
  <2>1. /\ d.start \in Nat /\ 1 <= d.start /\ d.size \in Nat /\ d.prev \in Nat /\ d \in Descriptor
    BY ListFacts, ListFields, Zenon
  <2> QED BY <2>1 DEF End
<1>2. /\ p \in Nat \ {NULL} /\ p \notin DOMAIN v.desc
      /\ a.v.desc = Bind(v.desc, p, new)
      /\ a.v.head = v.head /\ a.v.heap = v.heap /\ a.v.panic = v.panic
      /\ a.v.bump \in Nat /\ RoomFor(a.v, 1)
      /\ ~v.heap => p <= a.v.bump /\ v.bump <= a.v.bump
  <2>1. RoomFor(v, 1 + 1)
    OBVIOUS
  <2> HIDE DEF d, first
  <2> QED BY <1>1, <2>1, Allocate, Zenon
<1>3. CutMiddle(v, i, start, size) = [v |-> Split(w, i, size).v, at |-> i]
  BY Zenon DEF CutMiddle
<1>4. /\ w.desc = e /\ w.head = v.head /\ w.bump = a.v.bump /\ w.heap = v.heap
      /\ w.panic = v.panic
  <2> HIDE DEF a, e, p
  <2> QED BY <1>2, Zenon DEF WithDesc, VM
<1> HIDE DEF a, p, w, first
<1>5. \A k \in DOMAIN v.desc : v.desc[k] \in Descriptor
  BY ListFacts, Zenon
<1>6. d.prev # NULL => d.prev \in DOMAIN v.desc /\ d.prev # i /\ d.prev # p
  BY <1>2, ListFacts
<1>7. IsSplitBefore(e, v.desc, i, first, p, v.heap)
  <2>1. \A k \in DOMAIN v.desc : v.desc[k] =
          Desc(v.desc[k].start, v.desc[k].size, v.desc[k].up, v.desc[k].low, v.desc[k].type,
               v.desc[k].next, v.desc[k].prev, v.desc[k].is_from_heap)
    BY <1>5, Whole, Zenon
  <2>2. e1 = [k \in DOMAIN v.desc \cup {p} |->
                IF k = p THEN Desc(d.start, first, 0, 0, d.type, i, d.prev, v.heap)
                ELSE IF k = i THEN Desc(start, d.size - first, d.up, d.low, d.type, d.next, p,
                                        d.is_from_heap)
                ELSE v.desc[k]]
    <3>1. a.v.desc = [k \in DOMAIN v.desc \cup {p} |-> IF k = p THEN new ELSE v.desc[k]]
      BY <1>2, Zenon DEF Bind
    <3>2. e1 = [k \in DOMAIN v.desc \cup {p} |->
                  IF k = p THEN Link(new, d.prev, i)
                  ELSE IF k = i THEN Retreat(d, p, start, d.start + d.size - start)
                  ELSE v.desc[k]]
      <4> HIDE DEF d, new
      <4> QED BY <1>2, <3>1, Zenon DEF d, Link, Retreat
    <3>3. Link(new, d.prev, i) = Desc(d.start, first, 0, 0, d.type, i, d.prev, v.heap)
      <4>1. new = Desc(d.start, first, 0, 0, d.type, NULL, NULL, v.heap)
        BY Zenon DEF NewDescriptor, Desc
      <4> HIDE DEF d, new
      <4> QED BY <4>1, LinkIs
    <3>4. Retreat(d, p, start, d.size - first) =
             Desc(start, d.size - first, d.up, d.low, d.type, d.next, p, d.is_from_heap)
      <4> HIDE DEF d
      <4> QED BY <1>1, Whole, RetreatIs
    <3> HIDE DEF e1, d, new
    <3> QED BY <1>1, <3>2, <3>3, <3>4, Zenon
  <2> HIDE DEF e1
  <2>3. CASE d.prev = NULL
    <3>1. e = e1
      BY <2>3, Zenon DEF SetNext
    <3>2. \A k \in DOMAIN v.desc : k # d.prev
      BY <2>3, ListFacts, Zenon
    <3> QED BY <1>1, <1>2, <2>1, <2>2, <3>1, <3>2, Zenon DEF IsSplitBefore
  <2>4. CASE d.prev # NULL
    <3>1. e = [e1 EXCEPT ![d.prev].next = p]
      BY <2>4, Zenon DEF SetNext
    <3>2. e1[d.prev] = v.desc[d.prev]
      BY <1>6, <2>2, <2>4, Zenon
    <3>3. e = [k \in DOMAIN v.desc \cup {p} |->
                 IF k = d.prev THEN [v.desc[k] EXCEPT !.next = p] ELSE e1[k]]
      BY <1>6, <2>2, <2>4, <3>1, <3>2, Zenon
    <3>4. [v.desc[d.prev] EXCEPT !.next = p] =
          Desc(v.desc[d.prev].start, v.desc[d.prev].size, v.desc[d.prev].up, v.desc[d.prev].low,
               v.desc[d.prev].type, p, v.desc[d.prev].prev, v.desc[d.prev].is_from_heap)
      BY <1>5, <1>6, <2>4 DEF Descriptor, Desc
    <3>5. e = [k \in DOMAIN v.desc \cup {p} |-> e[k]]
      BY <3>3, Zenon
    <3>6. e[p] = e1[p] /\ e[i] = e1[i]
      BY <1>2, <1>6, <2>4, <3>3, Zenon
    <3>7. \A k \in DOMAIN v.desc \ {i} : e[k] =
            Desc(v.desc[k].start, v.desc[k].size, v.desc[k].up, v.desc[k].low, v.desc[k].type,
                 IF k = d.prev THEN p ELSE v.desc[k].next, v.desc[k].prev, v.desc[k].is_from_heap)
      <4> TAKE k \in DOMAIN v.desc \ {i}
      <4>1. CASE k = d.prev
        <5>1. e[k] = [v.desc[k] EXCEPT !.next = p]
          BY <3>3, <4>1, Zenon
        <5> QED BY <3>4, <4>1, <5>1, Zenon
      <4>2. CASE k # d.prev
        <5>1. e[k] = v.desc[k]
          BY <1>2, <2>2, <3>3, <4>2, Zenon
        <5> QED BY <2>1, <4>2, <5>1, Zenon
      <4> QED BY <4>1, <4>2, Zenon
    <3> QED BY <1>1, <1>2, <2>2, <3>5, <3>6, <3>7, Zenon DEF IsSplitBefore
  <2> QED BY <2>3, <2>4, Zenon
<1> HIDE DEF e
<1>8. List(e)
  <2>1. v.heap \in BOOLEAN
    BY Zenon DEF Manager
  <2> QED BY <1>1, <1>2, <1>7, <2>1, SplitBeforeList
<1>9. DOMAIN e = DOMAIN v.desc \cup {p}
  BY <1>7, Zenon DEF IsSplitBefore
<1>10. Manager(w)
  <2>1. ~v.heap => \A k \in DOMAIN e : k <= a.v.bump
    BY <1>2, <1>9, ListFacts DEF Manager
  <2> QED BY <1>2, <1>4, <1>9, <2>1, Zenon DEF Manager
<1>11. RoomFor(w, 0 + 1)
  BY <1>2, <1>4 DEF RoomFor
<1>12. size < w.desc[i].size
  <2>1. e[i].size = d.size - first
    BY <1>7 DEF IsSplitBefore, Desc
  <2> QED BY <1>1, <1>4, <2>1 DEF End
<1> DEFINE s == Split(w, i, size)
<1>13. /\ s.at \in Nat \ {NULL} /\ s.at \notin DOMAIN e
       /\ IsSplit(s.v.desc, e, i, size, s.at, v.heap) /\ List(s.v.desc)
       /\ Manager(s.v) /\ s.v.desc[s.v.head].prev = NULL
       /\ s.v.panic = v.panic /\ s.v.heap = v.heap
  <2>1. List(w.desc) /\ i \in DOMAIN w.desc /\ size \in Nat /\ 0 < size
    BY <1>4, <1>8, <1>9
  <2> QED BY <1>4, <1>10, <1>11, <1>12, <2>1, SplitEffect
<1> DEFINE r == CutMiddle(v, i, start, size)
<1> HIDE DEF s
<1>14. r.v = s.v /\ r.at = i
  BY <1>3 DEF s
<1> HIDE DEF d, r
<1>15. /\ p \in Nat \ {NULL} /\ p \notin DOMAIN v.desc
       /\ IsSplitBefore(e, v.desc, i, start - v.desc[i].start, p, v.heap) /\ List(e)
       /\ s.at \in Nat \ {NULL} /\ s.at \notin DOMAIN e
       /\ IsSplit(r.v.desc, e, i, size, s.at, v.heap)
  BY <1>2, <1>7, <1>8, <1>13, <1>14, Zenon DEF first, d
<1>16. SplitTwice(r, v, i, start, size)
  BY <1>13, <1>14, <1>15, Zenon DEF SplitTwice
<1> QED BY <1>16, Zenon DEF r

\* A split after the part that is to be used: only that part may have a free neighbour.
LEMMA SplitMerged ==
  ASSUME NEW desc, List(desc), NEW i \in DOMAIN desc, NEW first, NEW n, n \notin DOMAIN desc,
         n # NULL, NEW heap, NEW e, IsSplit(e, desc, i, first, n, heap), Merged(desc, i),
         desc[i].next # NULL /\ desc[i].type \in FreeTypes => desc[desc[i].next].type # desc[i].type
  PROVE  Merged(e, i)
<1>1. DOMAIN e = DOMAIN desc \cup {n}
  BY Zenon DEF IsSplit
<1>2. /\ e[n].type = desc[i].type /\ e[n].next = desc[i].next /\ e[i].type = desc[i].type
      /\ \A k \in DOMAIN desc \ {i} : e[k].type = desc[k].type /\ e[k].next = desc[k].next
  BY DEF IsSplit, Desc
<1>3. \A k \in DOMAIN desc : desc[k].next # NULL => desc[k].next \in DOMAIN desc
  BY ListFacts, Zenon
<1> SUFFICES ASSUME NEW k \in DOMAIN e, e[k].next # NULL, k # i, e[k].next # i,
                    e[k].type \in FreeTypes
             PROVE  e[e[k].next].type # e[k].type
  BY Zenon DEF Merged
<1>4. CASE k = n
  BY <1>2, <1>3, <1>4, Zenon
<1>5. CASE k \in DOMAIN desc
  BY <1>2, <1>3, <1>5 DEF Merged
<1> QED BY <1>1, <1>4, <1>5, Zenon

\* A split before the part that is to be used.
LEMMA SplitEndMerged ==
  ASSUME NEW desc, List(desc), NEW i \in DOMAIN desc, NEW first, NEW n, n \notin DOMAIN desc,
         n # NULL, NEW heap, NEW e, IsSplit(e, desc, i, first, n, heap), Merged(desc, NULL)
  PROVE  Merged(e, n)
<1>1. DOMAIN e = DOMAIN desc \cup {n}
  BY Zenon DEF IsSplit
<1>2. /\ e[i].next = n /\ e[i].type = desc[i].type
      /\ \A k \in DOMAIN desc \ {i} : e[k].type = desc[k].type /\ e[k].next = desc[k].next
  BY DEF IsSplit, Desc
<1>3. \A k \in DOMAIN desc : k # NULL /\ (desc[k].next # NULL => desc[k].next \in DOMAIN desc)
  BY ListFacts, Zenon
<1> SUFFICES ASSUME NEW k \in DOMAIN e, e[k].next # NULL, k # n, e[k].next # n,
                    e[k].type \in FreeTypes
             PROVE  e[e[k].next].type # e[k].type
  BY Zenon DEF Merged
<1> QED BY <1>1, <1>2, <1>3 DEF Merged

\* A split that gives the part before to a new descriptor.
LEMMA SplitBeforeMerged ==
  ASSUME NEW desc, List(desc), NEW i \in DOMAIN desc, NEW first, NEW p, p \notin DOMAIN desc,
         p # NULL, NEW heap, NEW e, IsSplitBefore(e, desc, i, first, p, heap), Merged(desc, NULL)
  PROVE  Merged(e, i)
<1>1. DOMAIN e = DOMAIN desc \cup {p}
  BY Zenon DEF IsSplitBefore
<1>2. /\ e[p].next = i /\ e[p].type = desc[i].type
      /\ \A k \in DOMAIN desc \ {i} :
            e[k].type = desc[k].type /\ e[k].next = IF k = desc[i].prev THEN p ELSE desc[k].next
  BY DEF IsSplitBefore, Desc
<1>3. \A k \in DOMAIN desc : k # NULL /\ (desc[k].next # NULL => desc[k].next \in DOMAIN desc)
  BY ListFacts, Zenon
<1>4. desc[i].prev # NULL => desc[i].prev \in DOMAIN desc /\ desc[desc[i].prev].next = i
  BY ListFacts, Zenon
<1> SUFFICES ASSUME NEW k \in DOMAIN e, e[k].next # NULL, k # i, e[k].next # i,
                    e[k].type \in FreeTypes
             PROVE  e[e[k].next].type # e[k].type
  BY Zenon DEF Merged
<1>5. k \in DOMAIN desc
  BY <1>1, <1>2, Zenon
<1>6. CASE k = desc[i].prev
  BY <1>2, <1>3, <1>4, <1>5, <1>6 DEF Merged
<1>7. CASE k # desc[i].prev
  BY <1>2, <1>3, <1>5, <1>7 DEF Merged
<1> QED BY <1>6, <1>7, Zenon

\* e has a descriptor, `at', for the range that was cut out of descriptor i; what
\* is left of i's range is in descriptors of the same type.
SameRange(d, f) ==
    d.start = f.start /\ d.size = f.size /\ d.up = f.up /\ d.low = f.low /\ d.type = f.type
PartOf(d, f) ==
    d.type = f.type /\ d.up = 0 /\ d.low = 0 /\ f.start <= d.start /\ End(d) <= End(f)
CutOf(e, desc, i, at, start, size) ==
    /\ DOMAIN desc \subseteq DOMAIN e /\ at \in DOMAIN e
    /\ at = i \/ at \notin DOMAIN desc
    /\ e[at].start = start /\ e[at].size = size
    /\ \A k \in DOMAIN desc \ {i} : SameRange(e[k], desc[k])
    /\ \A k \in DOMAIN e : k \notin DOMAIN desc \/ k = i => PartOf(e[k], desc[i])
    /\ Merged(e, at)

\* What is left after a first cut may be cut again.
LEMMA SplitIsCut ==
  ASSUME NEW desc, List(desc), NEW i \in DOMAIN desc, NEW first \in Nat, 0 < first,
         first < desc[i].size, NEW n \in Nat \ {NULL}, n \notin DOMAIN desc, NEW heap, NEW e,
         IsSplit(e, desc, i, first, n, heap), Merged(desc, NULL),
         desc[i].up = 0, desc[i].low = 0
  PROVE  /\ CutOf(e, desc, i, i, desc[i].start, first)
         /\ CutOf(e, desc, i, n, desc[i].start + first, desc[i].size - first)
<1>1. DOMAIN e = DOMAIN desc \cup {n}
  BY Zenon DEF IsSplit
<1>2. /\ e[n].start = desc[i].start + first /\ e[n].size = desc[i].size - first
      /\ e[n].up = 0 /\ e[n].low = 0 /\ e[n].type = desc[i].type
      /\ e[i].start = desc[i].start /\ e[i].size = first
      /\ e[i].up = 0 /\ e[i].low = 0 /\ e[i].type = desc[i].type
  BY DEF IsSplit, Desc
<1>3. \A k \in DOMAIN desc \ {i} : SameRange(e[k], desc[k])
  BY DEF IsSplit, Desc, SameRange
<1>4. desc[i].start \in Nat /\ desc[i].size \in Nat
  BY ListFacts, Zenon
<1>5. PartOf(e[i], desc[i]) /\ PartOf(e[n], desc[i])
  BY <1>2, <1>4 DEF PartOf, End
<1>6. i # NULL /\ \A k \in DOMAIN desc : k # NULL
  BY ListFacts, Zenon
<1>7. Merged(desc, i) /\ (desc[i].next # NULL /\ desc[i].type \in FreeTypes
                            => desc[desc[i].next].type # desc[i].type)
  BY <1>6, Zenon DEF Merged
<1>8. Merged(e, i) /\ Merged(e, n)
  BY <1>7, SplitMerged, SplitEndMerged, Zenon
<1> QED BY <1>1, <1>2, <1>3, <1>5, <1>8, Zenon DEF CutOf

\* The two splits of CutMiddle.
LEMMA TwoSplitsAreCut ==
  ASSUME NEW desc, List(desc), NEW i \in DOMAIN desc, NEW start \in Nat, NEW size \in Nat \ {0},
         desc[i].start < start, start + size < End(desc[i]), NEW heap,
         NEW p \in Nat \ {NULL}, p \notin DOMAIN desc, NEW e,
         IsSplitBefore(e, desc, i, start - desc[i].start, p, heap), List(e),
         NEW n \in Nat \ {NULL}, n \notin DOMAIN e, NEW f, IsSplit(f, e, i, size, n, heap),
         Merged(desc, NULL), desc[i].up = 0, desc[i].low = 0
  PROVE  CutOf(f, desc, i, i, start, size)
<1>1. DOMAIN e = DOMAIN desc \cup {p} /\ DOMAIN f = DOMAIN e \cup {n}
  BY Zenon DEF IsSplit, IsSplitBefore
<1>2. desc[i].start \in Nat /\ desc[i].size \in Nat
  BY ListFacts, Zenon
<1>3. /\ e[p].start = desc[i].start /\ e[p].size = start - desc[i].start
      /\ e[p].up = 0 /\ e[p].low = 0 /\ e[p].type = desc[i].type
      /\ e[i].start = start /\ e[i].size = End(desc[i]) - start
      /\ e[i].up = 0 /\ e[i].low = 0 /\ e[i].type = desc[i].type
      /\ e[i].next = desc[i].next
  BY <1>2 DEF IsSplitBefore, Desc, End
<1>4. \A k \in DOMAIN desc \ {i} : SameRange(e[k], desc[k])
  BY DEF IsSplitBefore, Desc, SameRange
<1>5. /\ f[n].start = start + size /\ f[n].size = End(desc[i]) - start - size
      /\ f[n].up = 0 /\ f[n].low = 0 /\ f[n].type = desc[i].type
      /\ f[i].start = start /\ f[i].size = size
      /\ f[i].up = 0 /\ f[i].low = 0 /\ f[i].type = desc[i].type
  BY <1>3 DEF IsSplit, Desc
<1>6. \A k \in DOMAIN e \ {i} : SameRange(f[k], e[k])
  BY DEF IsSplit, Desc, SameRange
<1>7. PartOf(f[i], desc[i]) /\ PartOf(f[n], desc[i]) /\ PartOf(f[p], desc[i])
  <2>1. SameRange(f[p], e[p])
    BY <1>1, <1>6, Zenon
  <2> QED BY <1>2, <1>3, <1>5, <2>1 DEF PartOf, End, SameRange
<1>8. \A k \in DOMAIN desc \ {i} : SameRange(f[k], desc[k])
  BY <1>1, <1>4, <1>6 DEF SameRange
<1>9. Merged(e, i)
  BY SplitBeforeMerged, Zenon
<1>10. e[i].next # NULL /\ e[i].type \in FreeTypes => e[e[i].next].type # e[i].type
  <2>1. \A k \in DOMAIN desc : k # NULL
    BY ListFacts, Zenon
  <2>2. desc[i].next # NULL => desc[i].next \in DOMAIN desc \ {i}
    BY ListFacts
  <2> QED BY <1>3, <1>4, <2>1, <2>2 DEF Merged, SameRange
<1>11. Merged(f, i)
  BY <1>1, <1>9, <1>10, SplitMerged, Zenon
<1> QED BY <1>1, <1>5, <1>7, <1>8, <1>11, Zenon DEF CutOf

\* The manager after a cut.
Cut(r, v, i, start, size) ==
    /\ CutOf(r.v.desc, v.desc, i, r.at, start, size)
    /\ Manager(r.v) /\ List(r.v.desc) /\ r.v.desc[r.v.head].prev = NULL
    /\ r.v.panic = v.panic /\ r.v.heap = v.heap

\* cut_descriptor_start cuts off the start of a descriptor.
LEMMA CutStartEffect ==
  ASSUME NEW v, Sound(v), RoomFor(v, 2), NEW i \in DOMAIN v.desc, NEW size \in Nat \ {0},
         size <= v.desc[i].size, v.desc[i].type \in FreeTypes
  PROVE  Cut(cut_descriptor_start(v, i, size), v, i, v.desc[i].start, size)
<1> USE DEF Sound
<1> DEFINE d == v.desc[i]
           r == cut_descriptor_start(v, i, size)
<1>1. d.start \in Nat /\ d.size \in Nat
  BY ListFacts, Zenon
<1>2. d.up = 0 /\ d.low = 0
  BY Zenon DEF Padded
<1>3. CASE d.size = size
  <2>1. r = [v |-> v, at |-> i]
    BY <1>1, <1>3 DEF cut_descriptor_start
  <2>2. Merged(v.desc, i)
    BY ListFacts DEF Merged
  <2>3. CutOf(v.desc, v.desc, i, i, d.start, size)
    BY <1>1, <1>2, <1>3, <2>2 DEF CutOf, PartOf, SameRange, End
  <2>4. r.v = v /\ r.at = i
    BY <2>1
  <2> HIDE DEF r, d
  <2> QED BY <2>3, <2>4, Zenon DEF Cut, r, d
<1>4. CASE d.size # size
  <2> DEFINE s == Split(v, i, size)
  <2>1. r = [v |-> s.v, at |-> i]
    BY <1>1, <1>4 DEF cut_descriptor_start
  <2>2. size < d.size
    BY <1>1, <1>4
  <2>3. RoomFor(v, 1 + 1)
    OBVIOUS
  <2>4. /\ s.at \in Nat \ {NULL} /\ s.at \notin DOMAIN v.desc
        /\ IsSplit(s.v.desc, v.desc, i, size, s.at, v.heap) /\ List(s.v.desc)
        /\ Manager(s.v) /\ s.v.desc[s.v.head].prev = NULL
        /\ s.v.panic = v.panic /\ s.v.heap = v.heap
    BY <2>2, <2>3, SplitEffect
  <2>5. CutOf(s.v.desc, v.desc, i, i, d.start, size)
    BY <1>2, <2>2, <2>4, SplitIsCut
  <2>6. r.v = s.v /\ r.at = i
    BY <2>1
  <2> HIDE DEF r, d, s
  <2> QED BY <2>4, <2>5, <2>6, Zenon DEF Cut, r, d
<1> QED BY <1>3, <1>4, Zenon

\* cut_descriptor cuts a range out of the free descriptor that contains it.
LEMMA CutEffect ==
  ASSUME NEW v, Sound(v), RoomFor(v, 2), NEW i \in DOMAIN v.desc, NEW start \in Nat,
         NEW size \in Nat \ {0}, Contains(v.desc[i], start, size), v.desc[i].type \in FreeTypes
  PROVE  Cut(cut_descriptor(v, i, start, size), v, i, start, size)
<1> USE DEF Sound
<1> DEFINE d == v.desc[i]
           r == cut_descriptor(v, i, start, size)
<1>1. d.start \in Nat /\ d.size \in Nat /\ d.start <= start /\ start + size <= d.start + d.size
  BY ListFacts, Zenon DEF Contains
<1>2. d.up = 0 /\ d.low = 0
  BY Zenon DEF Padded
<1>3. CASE d.start = start
  <2>1. r = cut_descriptor_start(v, i, size)
    BY <1>3, Zenon DEF cut_descriptor
  <2>2. size <= d.size
    BY <1>1, <1>3
  <2> QED BY <1>3, <2>1, <2>2, CutStartEffect, Zenon
<1>4. CASE d.start # start /\ d.start + d.size = start + size
  <2>1. PICK first \in Nat : first = start - d.start
    BY <1>1
  <2> DEFINE s == Split(v, i, first)
  <2>6. r = s
    BY <1>4, <2>1, Zenon DEF cut_descriptor
  <2>2. /\ first \in Nat /\ 0 < first /\ first < d.size
        /\ d.start + first = start /\ d.size - first = size
    BY <1>1, <1>4, <2>1
  <2>3. RoomFor(v, 1 + 1)
    BY SMTT(20)
  <2>4. /\ s.at \in Nat \ {NULL} /\ s.at \notin DOMAIN v.desc
        /\ IsSplit(s.v.desc, v.desc, i, first, s.at, v.heap) /\ List(s.v.desc)
        /\ Manager(s.v) /\ s.v.desc[s.v.head].prev = NULL
        /\ s.v.panic = v.panic /\ s.v.heap = v.heap
    BY <2>2, <2>3, SplitEffect
  <2>5. CutOf(s.v.desc, v.desc, i, s.at, start, size)
    BY <1>2, <2>2, <2>4, SplitIsCut, Zenon
  <2> HIDE DEF r, d, s
  <2> QED BY <2>4, <2>5, <2>6, Zenon DEF Cut, r
<1>5. CASE d.start # start /\ d.start + d.size # start + size
  <2> DEFINE s == CutMiddle(v, i, start, size)
  <2>1. r = s
    BY <1>5, Zenon DEF cut_descriptor
  <2>2. d.start < start /\ start + size < End(d)
    BY <1>1, <1>5 DEF End
  <2>3. /\ \E e, p, n :
             /\ p \in Nat \ {NULL} /\ p \notin DOMAIN v.desc
             /\ IsSplitBefore(e, v.desc, i, start - d.start, p, v.heap) /\ List(e)
             /\ n \in Nat \ {NULL} /\ n \notin DOMAIN e
             /\ IsSplit(s.v.desc, e, i, size, n, v.heap)
        /\ List(s.v.desc) /\ s.at = i
        /\ Manager(s.v) /\ s.v.desc[s.v.head].prev = NULL
        /\ s.v.panic = v.panic /\ s.v.heap = v.heap
    <3>1. /\ Manager(v) /\ List(v.desc) /\ RoomFor(v, 2) /\ i \in DOMAIN v.desc
          /\ start \in Nat /\ size \in Nat \ {0}
          /\ v.desc[i].start < start /\ start + size < End(v.desc[i])
      BY <2>2, Zenon
    <3>2. SplitTwice(CutMiddle(v, i, start, size), v, i, start, size)
      BY <3>1, CutMiddleEffect, Zenon
    <3> QED BY <3>2, Zenon DEF SplitTwice
  <2>4. PICK e, p, n :
             /\ p \in Nat \ {NULL} /\ p \notin DOMAIN v.desc
             /\ IsSplitBefore(e, v.desc, i, start - d.start, p, v.heap) /\ List(e)
             /\ n \in Nat \ {NULL} /\ n \notin DOMAIN e
             /\ IsSplit(s.v.desc, e, i, size, n, v.heap)
    BY <2>3, Zenon
  <2>5. CutOf(s.v.desc, v.desc, i, i, start, size)
    BY <1>2, <2>2, <2>4, TwoSplitsAreCut, Zenon
  <2> HIDE DEF r, d, s
  <2> QED BY <2>1, <2>3, <2>5, Zenon DEF Cut, r
<1> QED BY <1>3, <1>4, <1>5, Zenon

\* e is f with the type and the paddings of descriptor i changed.
Marked(e, f, i, type, up, low) ==
    e = [k \in DOMAIN f |->
           IF k = i THEN Desc(f[i].start, f[i].size, up, low, type, f[i].next, f[i].prev,
                              f[i].is_from_heap)
           ELSE f[k]]

\* Which keeps the list.
LEMMA MarkedList ==
  ASSUME NEW f, List(f), NEW i \in DOMAIN f, NEW type \in Type, NEW up \in Nat, NEW low \in Nat,
         NEW e, Marked(e, f, i, type, up, low)
  PROVE  /\ List(e) /\ DOMAIN e = DOMAIN f
         /\ e[i].start = f[i].start /\ e[i].size = f[i].size /\ e[i].type = type
         /\ e[i].up = up /\ e[i].low = low
         /\ \A k \in DOMAIN f : e[k].next = f[k].next /\ e[k].prev = f[k].prev
         /\ \A k \in DOMAIN f \ {i} : e[k] = f[k]
<1>1. DOMAIN e = DOMAIN f /\ e = [k \in DOMAIN e |-> e[k]]
  BY Zenon DEF Marked
<1>2. \A k \in DOMAIN f \ {i} : e[k] = f[k]
  BY Zenon DEF Marked
<1>3. e[i] = Desc(f[i].start, f[i].size, up, low, type, f[i].next, f[i].prev, f[i].is_from_heap)
  BY Zenon DEF Marked
<1>4. /\ e[i].start = f[i].start /\ e[i].size = f[i].size /\ e[i].type = type
      /\ e[i].up = up /\ e[i].low = low /\ e[i].next = f[i].next /\ e[i].prev = f[i].prev
  BY <1>3 DEF Desc
<1>5. \A k \in DOMAIN f : e[k].next = f[k].next /\ e[k].prev = f[k].prev
  BY <1>2, <1>4, Zenon
<1>6. \A k \in DOMAIN f : e[k].start = f[k].start /\ e[k].size = f[k].size
  BY <1>2, <1>4, Zenon
<1>7. \A k \in DOMAIN f : e[k] \in Descriptor
  <2>1. e[i] \in Descriptor
    <3>1. f[i] \in Descriptor
      BY ListFacts, Zenon
    <3> QED BY <1>3, <3>1 DEF Desc, Descriptor, Type
  <2> QED BY <1>2, <2>1, ListFacts
<1>8. /\ \A k \in DOMAIN f : End(e[k]) = End(f[k]) /\ (InRange(f[k]) => InRange(e[k]))
      /\ \A j, k \in DOMAIN f : Apart(f[j], f[k]) => Apart(e[j], e[k])
  BY <1>6, Zenon DEF End, InRange, Apart
<1>9. List(e)
  <2>1. /\ \A k \in DOMAIN f : k \in Nat /\ k # NULL /\ InRange(f[k])
        /\ \A j, k \in DOMAIN f : j # k => Apart(f[j], f[k])
    BY ListFacts, Zenon
  <2>2. /\ \A k \in DOMAIN e : e[k] \in Descriptor /\ InRange(e[k])
        /\ \A j, k \in DOMAIN e : j # k => Apart(e[j], e[k])
        /\ DOMAIN e \subseteq Nat \ {NULL}
    BY <1>1, <1>7, <1>8, <2>1, Zenon
  <2>3. \A k \in DOMAIN e : e[k].next = NULL => End(e[k]) = KERNEL_END
    BY <1>1, <1>5, <1>8, ListFacts
  <2>4. \A k \in DOMAIN e : e[k].next # NULL =>
           /\ e[k].next \in DOMAIN e /\ e[e[k].next].prev = k
           /\ e[e[k].next].start = After(End(e[k]))
    BY <1>1, <1>5, <1>6, <1>8, ListFacts
  <2>5. /\ \A k \in DOMAIN e : e[k].prev = NULL => e[k].start = 1
        /\ \A k \in DOMAIN e : e[k].prev # NULL =>
             e[k].prev \in DOMAIN e /\ e[e[k].prev].next = k
    BY <1>1, <1>5, <1>6, ListFacts
  <2> QED BY <1>1, <2>2, <2>3, <2>4, <2>5, Zenon DEF List
<1> QED BY <1>1, <1>2, <1>4, <1>5, <1>9, Zenon

\* e has a descriptor for a range that was free in desc, and the ranges in use
\* are as they were.
Taken(e, desc, at, start, size, type, up, low) ==
    /\ at \in DOMAIN e /\ (at \in DOMAIN desc => desc[at].type \in FreeTypes)
    /\ e[at].start = start /\ e[at].size = size /\ e[at].type = type
    /\ e[at].up = up /\ e[at].low = low
    /\ DOMAIN desc \subseteq DOMAIN e
    /\ \A k \in DOMAIN desc : desc[k].type \notin FreeTypes => SameRange(e[k], desc[k])

\* w is v with such a descriptor.
Takes(w, v, e, at, start, size, type, up, low) ==
    /\ Sound(w) /\ Taken(e, v.desc, at, start, size, type, up, low)
    /\ w.desc = e /\ w.panic = v.panic /\ w.heap = v.heap

\* A range that is cut out and gets a type and paddings.
LEMMA TakeEffect ==
  ASSUME NEW v, Sound(v), NEW i \in DOMAIN v.desc, v.desc[i].type \in FreeTypes, NEW start,
         NEW size, NEW r, Cut(r, v, i, start, size), NEW type \in Type \ FreeTypes,
         NEW up \in Nat, NEW low \in Nat, up + low <= size,
         NEW e, Marked(e, r.v.desc, r.at, type, up, low)
  PROVE  Takes(WithDesc(r.v, e), v, e, r.at, start, size, type, up, low)
<1> DEFINE f == r.v.desc
           at == r.at
           w == WithDesc(r.v, e)
<1>1. /\ CutOf(f, v.desc, i, at, start, size)
      /\ Manager(r.v) /\ List(f) /\ f[r.v.head].prev = NULL
      /\ r.v.panic = v.panic /\ r.v.heap = v.heap
  BY Zenon DEF Cut
<1>2. /\ w.desc = e /\ w.head = r.v.head /\ w.bump = r.v.bump /\ w.heap = r.v.heap
      /\ w.panic = r.v.panic
  BY Zenon DEF WithDesc, VM
<1> HIDE DEF w
<1>3. /\ DOMAIN v.desc \subseteq DOMAIN f /\ at \in DOMAIN f
      /\ at = i \/ at \notin DOMAIN v.desc
      /\ f[at].start = start /\ f[at].size = size
      /\ \A k \in DOMAIN v.desc \ {i} : SameRange(f[k], v.desc[k])
      /\ \A k \in DOMAIN f : k \notin DOMAIN v.desc \/ k = i => PartOf(f[k], v.desc[i])
      /\ Merged(f, at)
  BY <1>1, Zenon DEF CutOf
<1>4. type \in Type
  BY Zenon
<1> HIDE DEF f, at
<1>5. /\ List(e) /\ DOMAIN e = DOMAIN f
      /\ e[at].start = start /\ e[at].size = size /\ e[at].type = type
      /\ e[at].up = up /\ e[at].low = low
      /\ \A k \in DOMAIN f : e[k].next = f[k].next /\ e[k].prev = f[k].prev
      /\ \A k \in DOMAIN f \ {at} : e[k] = f[k]
  <2>1. Marked(e, f, at, type, up, low)
    BY Zenon DEF f, at
  <2> QED BY <1>1, <1>3, <1>4, <2>1, MarkedList
<1>6. \A k \in DOMAIN f : Padded(e[k])
  <2> SUFFICES ASSUME NEW k \in DOMAIN f PROVE Padded(e[k])
    BY Zenon
  <2>1. CASE k = at
    BY <1>5, <2>1, Zenon DEF Padded, FreeTypes
  <2>2. CASE k # at /\ k \in DOMAIN v.desc \ {i}
    <3>1. SameRange(f[k], v.desc[k]) /\ e[k] = f[k] /\ Padded(v.desc[k])
      BY <1>3, <1>5, <2>2, Zenon DEF Sound
    <3> QED BY <3>1, Zenon DEF SameRange, Padded
  <2>3. CASE k # at /\ (k \notin DOMAIN v.desc \/ k = i)
    <3>1. PartOf(f[k], v.desc[i]) /\ e[k] = f[k] /\ Padded(v.desc[i])
      BY <1>3, <1>5, <2>3, Zenon DEF Sound
    <3>2. /\ f[k].start \in Nat /\ f[k].size \in Nat /\ f[k].size > 0 /\ InRange(f[k])
          /\ v.desc[i].start \in Nat /\ v.desc[i].size \in Nat /\ InRange(v.desc[i])
      BY <1>1, ListFacts, Zenon DEF Sound
    <3> QED BY <3>1, <3>2, VmmAssumption DEF PartOf, Padded, InRange, End, FreeTypes
  <2> QED BY <2>1, <2>2, <2>3, Zenon
<1>7. Merged(e, NULL)
  <2> SUFFICES ASSUME NEW k \in DOMAIN e, e[k].next # NULL, e[k].type \in FreeTypes
               PROVE  e[e[k].next].type # e[k].type
    BY Zenon DEF Merged
  <2>1. f[k].next # NULL /\ f[k].next \in DOMAIN f /\ e[k].next = f[k].next /\ k # at
    BY <1>1, <1>5, ListFacts, Zenon
  <2>2. CASE f[k].next = at
    BY <1>5, <2>1, <2>2, Zenon
  <2>3. CASE f[k].next # at
    BY <1>3, <1>5, <2>1, <2>3 DEF Merged
  <2> QED BY <2>2, <2>3, Zenon
<1>8. Manager(w)
  BY <1>1, <1>2, <1>5, Zenon DEF Manager, f
<1>9. e[w.head].prev = NULL /\ w.head \in DOMAIN e
  BY <1>1, <1>2, <1>5, Zenon DEF Manager, f
<1>10. Sound(w)
  BY <1>2, <1>5, <1>6, <1>7, <1>8, <1>9, Zenon DEF Sound
<1>11. \A k \in DOMAIN v.desc : v.desc[k].type \notin FreeTypes => SameRange(e[k], v.desc[k])
  BY <1>3, <1>5, Zenon
<1>12. Taken(e, v.desc, at, start, size, type, up, low)
  BY <1>3, <1>5, <1>11, Zenon DEF Taken
<1> QED BY <1>1, <1>2, <1>10, <1>12, Zenon DEF at, w, Takes

------------------------------------------------------------------------------
(* Merging free descriptors.                                               *)

\* The loop of deallocate_kernel_virtual_memory, one turn at a time.
LEMMA FreeRunIs ==
  ASSUME NEW v, List(v.desc), NEW free, NEW j \in DOMAIN v.desc \cup {NULL}
  PROVE  FreeRun(v, j, free) =
           IF j = NULL THEN [gone |-> {}, size |-> 0, last |-> NULL]
           ELSE IF v.desc[j].type # free THEN [gone |-> {}, size |-> 0, last |-> j]
           ELSE [gone |-> FreeRun(v, v.desc[j].next, free).gone \cup {j},
                 size |-> FreeRun(v, v.desc[j].next, free).size + v.desc[j].size,
                 last |-> FreeRun(v, v.desc[j].next, free).last]
<1> DEFINE D == DOMAIN v.desc \cup {NULL}
           R == [gone : SUBSET D, size : Nat, last : D]
           stop == {k \in D : k = NULL \/ v.desc[k].type # free}
           base == [k \in stop |-> [gone |-> {}, size |-> 0, last |-> k]]
           nx == [k \in D \ stop |-> v.desc[k].next]
           step == [x \in D \X R |->
                      [gone |-> x[2].gone \cup {x[1]},
                       size |-> x[2].size + (IF x[1] = NULL THEN 0 ELSE v.desc[x[1]].size),
                       last |-> x[2].last]]
           rank == [k \in D |-> IF k = NULL THEN 0 ELSE KERNEL_END - v.desc[k].start + 1]
           N == KERNEL_END + 1
           Value(f, k) ==
             IF k = NULL THEN [gone |-> {}, size |-> 0, last |-> NULL]
             ELSE IF v.desc[k].type # free THEN [gone |-> {}, size |-> 0, last |-> k]
             ELSE [gone |-> f[v.desc[k].next].gone \cup {k},
                   size |-> f[v.desc[k].next].size + v.desc[k].size,
                   last |-> f[v.desc[k].next].last]
           Solves(f) == f = [k \in D |-> Value(f, k)]
           F == CHOOSE f : Solves(f)
<1>1. \A k \in DOMAIN v.desc :
        /\ k # NULL /\ v.desc[k].start \in Nat /\ 1 <= v.desc[k].start
        /\ v.desc[k].start <= KERNEL_END /\ v.desc[k].size \in Nat /\ v.desc[k].next \in D
  <2> TAKE k \in DOMAIN v.desc
  <2>1. /\ k # NULL /\ v.desc[k].start \in Nat /\ 1 <= v.desc[k].start /\ v.desc[k].size \in Nat
        /\ End(v.desc[k]) <= KERNEL_END
    BY ListFields, Zenon
  <2>2. v.desc[k].next \in D
    BY ListFacts, Zenon
  <2> QED BY <2>1, <2>2, VmmAssumption DEF End
<1>2. \A k \in DOMAIN v.desc : v.desc[k].next # NULL =>
        v.desc[k].start < v.desc[v.desc[k].next].start /\ v.desc[k].next \in DOMAIN v.desc
  BY NextIsBehind, Zenon
<1>3. \E f : Solves(f)
  <2>1. base \in [stop -> R] /\ nx \in [D \ stop -> D] /\ stop \in SUBSET D
    BY <1>1, Zenon
  <2>2. step \in [D \X R -> R]
    <3>1. \A x \in D \X R : step[x] \in R
      <4> TAKE x \in D \X R
      <4>1. x[1] \in D /\ x[2].gone \in SUBSET D /\ x[2].size \in Nat /\ x[2].last \in D
        BY Zenon
      <4>2. (IF x[1] = NULL THEN 0 ELSE v.desc[x[1]].size) \in Nat
        BY <1>1, <4>1, Zenon
      <4> QED BY <4>1, <4>2
    <3> HIDE DEF R
    <3> QED BY <3>1, Zenon
  <2>3. rank \in [D -> Nat] /\ N \in Nat /\ \A k \in D : rank[k] < N
    BY <1>1, VmmAssumption
  <2>4. \A k \in D \ stop : rank[nx[k]] < rank[k]
    <3> TAKE k \in D \ stop
    <3>1. k \in DOMAIN v.desc /\ nx[k] = v.desc[k].next /\ nx[k] \in D
      BY <1>1, Zenon
    <3>2. k # NULL /\ rank[k] = KERNEL_END - v.desc[k].start + 1
      BY <1>1, <3>1, Zenon
    <3>3. v.desc[k].start \in Nat /\ v.desc[k].start <= KERNEL_END /\ KERNEL_END \in Nat
      BY <1>1, <3>1, VmmAssumption, Zenon
    <3>4. CASE nx[k] = NULL
      <4>1. rank[nx[k]] = 0
        BY <3>1, <3>4, Zenon
      <4> HIDE DEF rank, nx
      <4> QED BY <3>2, <3>3, <4>1
    <3>5. CASE nx[k] # NULL
      <4>1. /\ rank[nx[k]] = KERNEL_END - v.desc[nx[k]].start + 1
            /\ v.desc[k].start < v.desc[nx[k]].start /\ nx[k] \in DOMAIN v.desc
        BY <1>2, <3>1, <3>5, Zenon
      <4>2. v.desc[nx[k]].start \in Nat
        BY <1>1, <4>1, Zenon
      <4> HIDE DEF rank, nx
      <4> QED BY <3>2, <3>3, <4>1, <4>2
    <3> QED BY <3>4, <3>5, Zenon
  <2>5. PICK f \in [D -> R] :
          \A k \in D : f[k] = IF k \in stop THEN base[k] ELSE step[<<k, f[nx[k]]>>]
    <3> HIDE DEF D, R, stop, base, nx, step, rank, N
    <3>1. Chain(D, R, stop, base, nx, step, rank, N)
      BY <2>1, <2>2, <2>3, <2>4, Zenon DEF Chain
    <3> QED BY <3>1, Recursion
  <2>6. \A k \in D : f[k] = Value(f, k)
    <3> TAKE k \in D
    <3>1. CASE k \in stop
      <4>1. f[k] = [gone |-> {}, size |-> 0, last |-> k]
        BY <2>5, <3>1, Zenon
      <4> QED BY <3>1, <4>1, Zenon
    <3>2. CASE k \notin stop
      <4>1. k \in DOMAIN v.desc /\ k # NULL /\ v.desc[k].type = free /\ nx[k] = v.desc[k].next
        BY <1>1, <3>2, Zenon
      <4>2. f[nx[k]] \in R
        BY <1>1, <4>1, Zenon
      <4>3. f[k] = step[<<k, f[nx[k]]>>]
        BY <2>5, <3>2, Zenon
      <4>4. <<k, f[nx[k]]>> \in D \X R
        <5> HIDE DEF R, nx
        <5> QED BY <4>2, Zenon
      <4>5. f[k] = [gone |-> f[nx[k]].gone \cup {k}, size |-> f[nx[k]].size + v.desc[k].size,
                    last |-> f[nx[k]].last]
        <5> DEFINE y == f[nx[k]]
        <5>1. <<k, y>> \in D \X R /\ f[k] = step[<<k, y>>]
          BY <4>3, <4>4, Zenon
        <5> HIDE DEF R, D, y, nx
        <5> QED BY <4>1, <5>1, Zenon DEF y
      <4> QED BY <4>1, <4>5, Zenon
    <3> QED BY <3>1, <3>2, Zenon
  <2>7. f = [k \in D |-> Value(f, k)]
    <3> HIDE DEF Value, D, R
    <3> QED BY <2>6, Zenon
  <2> QED BY <2>7, Zenon
<1>4. Solves(F)
  <2> HIDE DEF Solves
  <2> QED BY <1>3, Zenon
<1>5. \A k \in D : FreeRun(v, k, free) = F[k]
  BY Zenon DEF FreeRun
<1>6. \A k \in D : F[k] = Value(F, k)
  <2>1. F = [k \in D |-> Value(F, k)]
    BY <1>4, Zenon
  <2> HIDE DEF F, Value
  <2> QED BY <2>1, Zenon
<1> HIDE DEF F
<1>7. j \in DOMAIN v.desc => v.desc[j].next \in D
  BY <1>1, Zenon
<1>8. j \in DOMAIN v.desc => FreeRun(v, v.desc[j].next, free) = F[v.desc[j].next]
  BY <1>5, <1>7, Zenon
<1> QED BY <1>5, <1>6, <1>8, Zenon

\* Descriptor i takes over the range of its next.
Absorb(f, i) ==
    LET j == f[i].next IN
    [k \in DOMAIN f \ {j} |->
       IF k = i THEN Desc(f[i].start, f[i].size + f[j].size, f[i].up, f[i].low, f[i].type,
                          f[j].next, f[i].prev, f[i].is_from_heap)
       ELSE Desc(f[k].start, f[k].size, f[k].up, f[k].low, f[k].type, f[k].next,
                 IF k = f[j].next THEN i ELSE f[k].prev, f[k].is_from_heap)]

\* Two neighbours of one free type are of one range and contiguous.
LEMMA Contiguous ==
  ASSUME NEW f, List(f), NEW i \in DOMAIN f, f[i].next # NULL, f[i].type \in FreeTypes,
         f[f[i].next].type = f[i].type, Padded(f[i]), Padded(f[f[i].next])
  PROVE  /\ f[f[i].next].start = End(f[i])
         /\ \/ 1 <= f[i].start /\ End(f[f[i].next]) <= IDENTITY_END
            \/ KERNEL_START <= f[i].start /\ End(f[f[i].next]) <= KERNEL_END
<1> DEFINE j == f[i].next
<1>1. j \in DOMAIN f /\ f[j].start = After(End(f[i]))
  BY ListFacts, Zenon
<1>2. /\ f[i].start \in Nat /\ f[i].size \in Nat /\ f[i].size > 0 /\ InRange(f[i])
      /\ f[j].start \in Nat /\ f[j].size \in Nat /\ f[j].size > 0 /\ InRange(f[j])
  BY <1>1, ListFacts, Zenon
<1> HIDE DEF j
<1>3. f[j].type = f[i].type /\ Padded(f[j])
  BY Zenon DEF j
<1>4. CASE f[i].type = "FREE"
  BY <1>1, <1>2, <1>3, <1>4, VmmAssumption, SMTT(20) DEF Padded, After, InRange, End, j
<1>5. CASE f[i].type = "IDENTITY_MAP_FREE"
  BY <1>1, <1>2, <1>3, <1>5, VmmAssumption DEF Padded, After, InRange, End, j
<1> QED BY <1>4, <1>5, Zenon DEF FreeTypes

\* Taking over a range keeps the list.
LEMMA AbsorbList ==
  ASSUME NEW f, List(f), NEW i \in DOMAIN f, f[i].next # NULL, f[i].type \in FreeTypes,
         f[f[i].next].type = f[i].type, Padded(f[i]), Padded(f[f[i].next])
  PROVE  List(Absorb(f, i))
<1> DEFINE j == f[i].next
           e == Absorb(f, i)
           D == DOMAIN f
<1>1. /\ \A k \in D :
            /\ k \in Nat /\ k # NULL /\ f[k] \in Descriptor /\ InRange(f[k])
            /\ f[k].start \in Nat /\ f[k].size \in Nat /\ f[k].size > 0
            /\ f[k].next \in Nat /\ f[k].prev \in Nat
      /\ \A m, k \in D : m # k => Apart(f[m], f[k])
  BY ListFacts, Zenon
<1>2. /\ \A k \in D : f[k].next = NULL => End(f[k]) = KERNEL_END
      /\ \A k \in D : f[k].next # NULL =>
           /\ f[k].next \in D /\ f[k].next # k /\ f[f[k].next].prev = k
           /\ f[f[k].next].start = After(End(f[k]))
  BY ListFacts, Zenon
<1>3. /\ \A k \in D : f[k].prev = NULL => f[k].start = 1
      /\ \A k \in D : f[k].prev # NULL =>
           f[k].prev \in D /\ f[k].prev # k /\ f[f[k].prev].next = k
  BY ListFacts, Zenon
<1>4. i \in D /\ j \in D /\ j # i /\ f[j].prev = i /\ j # NULL
  BY <1>2, Zenon
<1>5. DOMAIN e = D \ {j} /\ e = [k \in DOMAIN e |-> e[k]] /\ i \in DOMAIN e
  BY <1>4, Zenon DEF Absorb
<1>6. e[i] = Desc(f[i].start, f[i].size + f[j].size, f[i].up, f[i].low, f[i].type, f[j].next,
                  f[i].prev, f[i].is_from_heap)
  BY <1>4, Zenon DEF Absorb
<1>7. \A k \in D \ {i, j} : e[k] =
        Desc(f[k].start, f[k].size, f[k].up, f[k].low, f[k].type, f[k].next,
             IF k = f[j].next THEN i ELSE f[k].prev, f[k].is_from_heap)
  BY <1>4, Zenon DEF Absorb
<1>8. /\ e[i].start = f[i].start /\ e[i].size = f[i].size + f[j].size
      /\ e[i].next = f[j].next /\ e[i].prev = f[i].prev
  <2>1. PICK d, size : d = e[i] /\ size = f[i].size + f[j].size
    BY Zenon
  <2> HIDE DEF e, j
  <2>2. d = Desc(f[i].start, size, f[i].up, f[i].low, f[i].type, f[j].next, f[i].prev,
                 f[i].is_from_heap)
    BY <1>6, <2>1, Zenon
  <2>3. d.start = f[i].start /\ d.size = size /\ d.next = f[j].next /\ d.prev = f[i].prev
    BY ONLY <2>2 DEF Desc
  <2> QED BY <2>1, <2>3, Zenon
<1>9. \A k \in D \ {i, j} :
        /\ e[k].start = f[k].start /\ e[k].size = f[k].size /\ e[k].next = f[k].next
        /\ e[k].prev = IF k = f[j].next THEN i ELSE f[k].prev
  <2> TAKE k \in D \ {i, j}
  <2> DEFINE prev == IF k = f[j].next THEN i ELSE f[k].prev
  <2>1. e[k] = Desc(f[k].start, f[k].size, f[k].up, f[k].low, f[k].type, f[k].next, prev,
                    f[k].is_from_heap)
    BY <1>7, Zenon
  <2> HIDE DEF prev, e
  <2>2. /\ e[k].start = f[k].start /\ e[k].size = f[k].size /\ e[k].next = f[k].next
        /\ e[k].prev = prev
    BY <2>1 DEF Desc
  <2> QED BY <2>2, Zenon DEF prev
<1>10. /\ f[j].start = End(f[i])
       /\ \/ 1 <= f[i].start /\ End(f[j]) <= IDENTITY_END
          \/ KERNEL_START <= f[i].start /\ End(f[j]) <= KERNEL_END
  BY Contiguous, Zenon
<1> HIDE DEF D, e, j
<1>11. End(e[i]) = End(f[j])
  BY <1>1, <1>4, <1>8, <1>10 DEF End
<1>12. \A k \in DOMAIN e : e[k] \in Descriptor
  <2>1. e[i] \in Descriptor
    <3>1. f[i] \in Descriptor /\ f[j] \in Descriptor
      BY <1>1, <1>4, Zenon
    <3> QED BY <1>6, <3>1 DEF Desc, Descriptor
  <2>2. \A k \in D \ {i, j} : e[k] \in Descriptor
    <3> TAKE k \in D \ {i, j}
    <3> DEFINE prev == IF k = f[j].next THEN i ELSE f[k].prev
    <3>1. f[k] \in Descriptor /\ prev \in Nat
      BY <1>1, <1>4, Zenon
    <3>2. e[k] = Desc(f[k].start, f[k].size, f[k].up, f[k].low, f[k].type, f[k].next, prev,
                      f[k].is_from_heap)
      BY <1>7, Zenon
    <3> HIDE DEF prev
    <3> QED BY <3>1, <3>2 DEF Desc, Descriptor
  <2> QED BY <1>5, <2>1, <2>2, Zenon
<1>13. \A k \in DOMAIN e : InRange(e[k])
  BY <1>1, <1>5, <1>8, <1>9, <1>10, <1>11, Zenon DEF InRange, End
<1>14. \A m, k \in DOMAIN e : m # k => Apart(e[m], e[k])
  <2>1. \A m \in D \ {i, j} : Apart(e[m], e[i]) /\ Apart(e[i], e[m])
    <3> TAKE m \in D \ {i, j}
    <3>1. Apart(f[m], f[i]) /\ Apart(f[m], f[j])
      BY <1>1, <1>4, Zenon
    <3>2. /\ f[m].start \in Nat /\ f[m].size \in Nat /\ f[m].size > 0
          /\ f[i].start \in Nat /\ f[i].size \in Nat /\ f[i].size > 0
          /\ f[j].start \in Nat /\ f[j].size \in Nat /\ f[j].size > 0
      BY <1>1, <1>4, Zenon
    <3>3. e[m].start = f[m].start /\ e[m].size = f[m].size
      BY <1>9, Zenon
    <3> QED BY <1>8, <1>10, <3>1, <3>2, <3>3 DEF Apart, End
  <2>2. \A m, k \in D \ {i, j} : m # k => Apart(e[m], e[k])
    BY <1>1, <1>9, Zenon DEF Apart, End
  <2> QED BY <1>5, <2>1, <2>2, Zenon
<1>15. \A k \in DOMAIN e : e[k].next = NULL => End(e[k]) = KERNEL_END
  BY <1>2, <1>4, <1>5, <1>8, <1>9, <1>11 DEF End
<1>16. \A k \in DOMAIN e : e[k].next # NULL =>
         /\ e[k].next \in DOMAIN e /\ e[e[k].next].prev = k
         /\ e[e[k].next].start = After(End(e[k]))
  <2>1. f[j].next # NULL => f[j].next \in D \ {i, j} /\ f[f[j].next].start = After(End(f[j]))
    <3> SUFFICES ASSUME f[j].next # NULL, f[j].next = i PROVE FALSE
      BY <1>2, <1>4, Zenon
    <3>1. f[i].start < f[j].start /\ f[j].start < f[i].start
      BY <1>4, NextIsBehind, Zenon DEF D, j
    <3> QED BY <1>1, <1>4, <3>1
  <2>2. \A k \in D \ {i, j} : f[k].next # NULL =>
          /\ f[k].next \in D /\ f[k].next # j /\ f[f[k].next].prev = k
          /\ f[f[k].next].start = After(End(f[k])) /\ f[k].next # f[j].next
    <3> TAKE k \in D \ {i, j}
    <3> HAVE f[k].next # NULL
    <3> QED BY <1>2, <1>4
  <2> SUFFICES ASSUME NEW k \in DOMAIN e, e[k].next # NULL
               PROVE  /\ e[k].next \in DOMAIN e /\ e[e[k].next].prev = k
                      /\ e[e[k].next].start = After(End(e[k]))
    BY Zenon
  <2>3. CASE k = i
    BY <1>5, <1>8, <1>9, <1>11, <2>1, <2>3, Zenon
  <2>4. CASE k # i
    <3>1. k \in D \ {i, j} /\ e[k].next = f[k].next /\ End(e[k]) = End(f[k])
      BY <1>5, <1>9, <2>4, Zenon DEF End
    <3>2. CASE f[k].next = i
      BY <1>5, <1>8, <2>2, <3>1, <3>2, Zenon
    <3>3. CASE f[k].next # i
      BY <1>5, <1>9, <2>2, <3>1, <3>3
    <3> QED BY <3>2, <3>3, Zenon
  <2> QED BY <2>3, <2>4, Zenon
<1>17. \A k \in DOMAIN e : e[k].prev = NULL => e[k].start = 1
  BY <1>1, <1>3, <1>5, <1>8, <1>9
<1>18. \A k \in DOMAIN e : e[k].prev # NULL =>
         e[k].prev \in DOMAIN e /\ e[e[k].prev].next = k
  <2> SUFFICES ASSUME NEW k \in DOMAIN e, e[k].prev # NULL
               PROVE  e[k].prev \in DOMAIN e /\ e[e[k].prev].next = k
    BY Zenon
  <2>1. CASE k = i
    <3>1. f[i].prev # NULL /\ f[i].prev \in D /\ f[i].prev # i /\ f[f[i].prev].next = i
      BY <1>3, <1>5, <1>8, <2>1, Zenon
    <3>2. f[i].prev # j
      <4> SUFFICES ASSUME f[i].prev = j PROVE FALSE
        BY Zenon
      <4>1. f[i].start < f[j].start /\ f[j].start < f[i].start
        BY <3>1, NextIsBehind, PrevIsBefore, Zenon DEF D, j
      <4> QED BY <1>1, <1>4, <4>1
    <3> QED BY <1>5, <1>8, <1>9, <2>1, <3>1, <3>2
  <2>2. CASE k # i /\ k = f[j].next
    BY <1>5, <1>8, <1>9, <2>2, Zenon
  <2>3. CASE k # i /\ k # f[j].next
    <3>1. k \in D \ {i, j} /\ e[k].prev = f[k].prev
      BY <1>5, <1>9, <2>3, Zenon
    <3>2. f[k].prev \in D /\ f[f[k].prev].next = k /\ f[k].prev # i /\ f[k].prev # j
      BY <1>3, <2>3, <3>1, Zenon DEF j
    <3> QED BY <1>5, <1>9, <3>1, <3>2
  <2> QED BY <2>1, <2>2, <2>3, Zenon
<1>19. DOMAIN e \subseteq Nat \ {NULL}
  BY <1>1, <1>5, Zenon
<1>20. List(e)
  BY <1>5, <1>12, <1>13, <1>14, <1>15, <1>16, <1>17, <1>18, <1>19, Zenon DEF List
<1> QED BY <1>20, Zenon DEF e

\* e is f with j, the next of i, taken over by i.
IsAbsorbed(e, f, i, j) ==
    /\ List(e) /\ j \in DOMAIN f /\ DOMAIN e = DOMAIN f \ {j} /\ i \in DOMAIN e
    /\ e[i].type = f[i].type /\ e[i].next = f[j].next
    /\ \A k \in DOMAIN e \ {i} : SameRange(e[k], f[k]) /\ e[k].next = f[k].next
    /\ \A k \in DOMAIN e : Padded(e[k]) /\ (f[k].prev = NULL => e[k].prev = NULL)

\* What Absorb makes of the descriptors.
LEMMA AbsorbIs ==
  ASSUME NEW f, List(f), NEW i \in DOMAIN f, f[i].next # NULL, f[i].type \in FreeTypes,
         f[f[i].next].type = f[i].type, \A k \in DOMAIN f : Padded(f[k])
  PROVE  IsAbsorbed(Absorb(f, i), f, i, f[i].next)
<1> DEFINE j == f[i].next
           e == Absorb(f, i)
<1>1. j \in DOMAIN f /\ j # i /\ f[j].prev = i /\ (f[j].next # NULL => f[f[j].next].prev = j)
  BY ListFacts
<1>2. i # NULL /\ j # NULL
  BY <1>1, ListFacts, Zenon
<1>3. Padded(f[i]) /\ Padded(f[j])
  BY <1>1, Zenon
<1>4. List(e)
  BY <1>3, AbsorbList, Zenon
<1>5. DOMAIN e = DOMAIN f \ {j} /\ i \in DOMAIN e
  BY <1>1, Zenon DEF Absorb
<1>6. e[i] = Desc(f[i].start, f[i].size + f[j].size, f[i].up, f[i].low, f[i].type, f[j].next,
                  f[i].prev, f[i].is_from_heap)
  BY <1>1, Zenon DEF Absorb
<1>7. \A k \in DOMAIN f \ {i, j} : e[k] =
        Desc(f[k].start, f[k].size, f[k].up, f[k].low, f[k].type, f[k].next,
             IF k = f[j].next THEN i ELSE f[k].prev, f[k].is_from_heap)
  BY <1>1, Zenon DEF Absorb
<1> HIDE DEF e, j
<1>8. /\ e[i].start = f[i].start /\ e[i].size = f[i].size + f[j].size
      /\ e[i].next = f[j].next /\ e[i].prev = f[i].prev /\ e[i].type = f[i].type
      /\ e[i].up = f[i].up /\ e[i].low = f[i].low
  BY <1>6 DEF Desc
<1>9. \A k \in DOMAIN f \ {i, j} :
        /\ SameRange(e[k], f[k]) /\ e[k].next = f[k].next
        /\ e[k].prev = IF k = f[j].next THEN i ELSE f[k].prev
  <2> TAKE k \in DOMAIN f \ {i, j}
  <2> DEFINE prev == IF k = f[j].next THEN i ELSE f[k].prev
  <2>1. e[k] = Desc(f[k].start, f[k].size, f[k].up, f[k].low, f[k].type, f[k].next, prev,
                    f[k].is_from_heap)
    BY <1>7, Zenon
  <2> HIDE DEF prev
  <2>2. SameRange(e[k], f[k]) /\ e[k].next = f[k].next /\ e[k].prev = prev
    BY <2>1 DEF Desc, SameRange
  <2> QED BY <2>2, Zenon DEF prev
<1>10. Padded(e[i])
  <2>1. /\ f[i].size \in Nat /\ f[j].size \in Nat /\ f[i].up = 0 /\ f[i].low = 0
    BY <1>1, <1>3, ListFacts, Zenon DEF Padded
  <2> QED BY <1>3, <1>8, <2>1 DEF Padded
<1>11. \A k \in DOMAIN f \ {i, j} : Padded(e[k])
  BY <1>9 DEF Padded, SameRange
<1>12. \A k \in DOMAIN e : f[k].prev = NULL => e[k].prev = NULL
  <2> SUFFICES ASSUME NEW k \in DOMAIN e, f[k].prev = NULL PROVE e[k].prev = NULL
    BY Zenon
  <2>1. k # f[j].next
    <3>1. k # NULL
      BY <1>5, ListFacts, Zenon
    <3> QED BY <1>1, <1>2, <3>1, Zenon
  <2> QED BY <1>5, <1>8, <1>9, <2>1, Zenon
<1> QED BY <1>1, <1>4, <1>5, <1>8, <1>9, <1>10, <1>11, <1>12, Zenon DEF e, j, IsAbsorbed

\* The list that Merge makes of f when descriptor i takes over those of `gone'.
Joined(f, i, gone, size, last) ==
    Restrict(SetPrev([f EXCEPT ![i].size = @ + size, ![i].next = last], last, i),
             DOMAIN f \ gone)

\* Its descriptors.
Descriptors(f, i, gone, size, last) ==
    [k \in DOMAIN f \ gone |->
       IF k = i THEN Desc(f[i].start, f[i].size + size, f[i].up, f[i].low, f[i].type,
                          last, f[i].prev, f[i].is_from_heap)
       ELSE Desc(f[k].start, f[k].size, f[k].up, f[k].low, f[k].type, f[k].next,
                 IF k = last THEN i ELSE f[k].prev, f[k].is_from_heap)]

\* The assignments of Merge make those.
LEMMA JoinedIs ==
  ASSUME NEW f, List(f), NEW i \in DOMAIN f, NEW gone \in SUBSET DOMAIN f, i \notin gone,
         NEW size \in Nat, NEW last \in DOMAIN f \cup {NULL}, last # i
  PROVE  Joined(f, i, gone, size, last) = Descriptors(f, i, gone, size, last)
<1> DEFINE e == [f EXCEPT ![i].size = @ + size, ![i].next = last]
           d == Desc(f[i].start, f[i].size + size, f[i].up, f[i].low, f[i].type,
                     last, f[i].prev, f[i].is_from_heap)
           g == SetPrev(e, last, i)
           Other(k) == Desc(f[k].start, f[k].size, f[k].up, f[k].low, f[k].type, f[k].next,
                            IF k = last THEN i ELSE f[k].prev, f[k].is_from_heap)
<1>1. f = [k \in DOMAIN f |-> f[k]]
  BY Zenon DEF List
<1>2. \A k \in DOMAIN f : f[k] \in Descriptor /\ k # NULL
  BY ListFacts, Zenon
<1>3. \A k \in DOMAIN f : f[k] = Desc(f[k].start, f[k].size, f[k].up, f[k].low, f[k].type,
                                     f[k].next, f[k].prev, f[k].is_from_heap)
  BY <1>2, Whole, Zenon
<1>4. e = [k \in DOMAIN f |-> IF k = i THEN d ELSE f[k]]
  <2>1. e = [k \in DOMAIN f |-> IF k = i THEN Resize(f[i], f[i].size + size, last) ELSE f[k]]
    BY <1>1, Zenon DEF Resize
  <2>2. Resize(f[i], f[i].size + size, last) = d
    BY <1>3, ResizeIs
  <2> HIDE DEF e, d
  <2> QED BY <2>1, <2>2, Zenon
<1> HIDE DEF e, d
<1>5. \A k \in DOMAIN f : g[k] = IF k = i THEN d ELSE Other(k)
  <2>1. CASE last = NULL
    <3>1. g = e
      BY <2>1, Zenon DEF SetPrev
    <3>2. \A k \in DOMAIN f : k # last
      BY <1>2, <2>1, Zenon
    <3>3. \A k \in DOMAIN f : Other(k) = f[k]
      BY <1>3, <3>2, Zenon
    <3> HIDE DEF Other, g
    <3> QED BY <1>4, <3>1, <3>3, Zenon
  <2>2. CASE last # NULL
    <3>1. g = [e EXCEPT ![last].prev = i]
      BY <2>2, Zenon DEF SetPrev
    <3>2. last \in DOMAIN f /\ last # i /\ e[last] = f[last]
      BY <1>4, <2>2, Zenon
    <3>3. g = [k \in DOMAIN f |-> IF k = last THEN [f[last] EXCEPT !.prev = i] ELSE e[k]]
      BY <1>4, <3>1, <3>2, Zenon
    <3>4. [f[last] EXCEPT !.prev = i] = Other(last)
      BY <1>2, <3>2 DEF Descriptor, Desc
    <3>5. \A k \in DOMAIN f : k # last => Other(k) = f[k]
      BY <1>3, Zenon
    <3> HIDE DEF Other, g
    <3> QED BY <1>4, <3>2, <3>3, <3>4, <3>5, Zenon
  <2> QED BY <2>1, <2>2, Zenon
<1>6. Joined(f, i, gone, size, last) = [k \in DOMAIN f \ gone |-> g[k]]
  BY Zenon DEF Joined, Restrict, e
<1> HIDE DEF g, Other
<1>7. Joined(f, i, gone, size, last) = [k \in DOMAIN f \ gone |-> IF k = i THEN d ELSE Other(k)]
  BY <1>5, <1>6, Zenon
<1> QED BY <1>7, Zenon DEF d, Other, Descriptors

\* Merge takes over no descriptor, one or two, as many as there are free ones.
LEMMA MergeIs ==
  ASSUME NEW v, List(v.desc), NEW i \in DOMAIN v.desc, NEW free \in FreeTypes,
         v.desc[i].type = free, \A k \in DOMAIN v.desc : Padded(v.desc[k]), v.desc[i].next # NULL
  PROVE  LET f == v.desc
             j == f[i].next
             m == f[j].next
         IN  /\ f[j].type # free => Merge(v, i, free) = WithDesc(v, f)
             /\ f[j].type = free /\ (m = NULL \/ f[m].type # free)
                  => Merge(v, i, free) = WithDesc(v, Absorb(f, i))
             /\ f[j].type = free /\ m # NULL /\ f[m].type = free
                  /\ (f[m].next = NULL \/ f[f[m].next].type # free)
                  => Merge(v, i, free) = WithDesc(v, Absorb(Absorb(f, i), i))
<1> DEFINE f == v.desc
           j == f[i].next
           m == f[j].next
           q == f[m].next
           run == FreeRun(v, j, free)
           D == DOMAIN f
<1>1. i \in D /\ j \in D /\ j # NULL /\ f[i].start < f[j].start /\ f[j].prev = i
  BY NextIsBehind, ListFacts, Zenon
<1>2. m # NULL => m \in D /\ f[j].start < f[m].start
  BY <1>1, NextIsBehind, Zenon
<1>3. m # NULL /\ q # NULL => q \in D /\ f[m].start < f[q].start
  BY <1>2, NextIsBehind, Zenon
<1>4. \A k \in D : /\ f[k].start \in Nat /\ f[k].size \in Nat /\ k # NULL
                   /\ f[k].next \in D \cup {NULL}
  BY ListFacts, Zenon
<1>5. i # j /\ i # m /\ j # m /\ (m # NULL => q # i /\ q # j /\ q # m)
  <2> HIDE DEF j, m, q, f
  <2>1. i # j /\ j # m
    BY <1>1, <1>2, <1>4
  <2>2. m # NULL => i # m /\ q # i /\ q # j /\ q # m
    BY <1>1, <1>2, <1>3, <1>4
  <2>3. i # NULL
    BY <1>4, Zenon DEF f
  <2> QED BY <2>1, <2>2, <2>3, Zenon
<1>6. Merge(v, i, free) = WithDesc(v, Joined(f, i, run.gone, run.size, run.last))
  <2> DEFINE e == [f EXCEPT ![i].size = @ + run.size, ![i].next = run.last]
  <2>1. Merge(v, i, free) = WithDesc(v, Restrict(SetPrev(e, run.last, i), DOMAIN e \ run.gone))
    BY Zenon DEF Merge
  <2>2. DOMAIN e = DOMAIN f
    <3> HIDE DEF run, f
    <3> QED BY Zenon
  <2>3. Joined(f, i, run.gone, run.size, run.last) =
          Restrict(SetPrev(e, run.last, i), DOMAIN f \ run.gone)
    BY Zenon DEF Joined
  <2> HIDE DEF e, run, f
  <2> QED BY <2>1, <2>2, <2>3, Zenon
<1>7. run = IF f[j].type # free THEN [gone |-> {}, size |-> 0, last |-> j]
            ELSE [gone |-> FreeRun(v, m, free).gone \cup {j},
                  size |-> FreeRun(v, m, free).size + f[j].size,
                  last |-> FreeRun(v, m, free).last]
  <2> HIDE DEF j, m
  <2> QED BY <1>1, FreeRunIs DEF m
<1>8. m = NULL \/ f[m].type # free =>
        FreeRun(v, m, free) = [gone |-> {}, size |-> 0, last |-> m]
  <2>1. m \in D \cup {NULL}
    BY <1>1, <1>4, Zenon
  <2> HIDE DEF m
  <2> QED BY <2>1, FreeRunIs
<1>9. m # NULL /\ f[m].type = free /\ (q = NULL \/ f[q].type # free) =>
        FreeRun(v, m, free) = [gone |-> {m}, size |-> f[m].size, last |-> q]
  <2> SUFFICES ASSUME m # NULL /\ f[m].type = free /\ (q = NULL \/ f[q].type # free)
               PROVE  FreeRun(v, m, free) = [gone |-> {m}, size |-> f[m].size, last |-> q]
    BY Zenon
  <2>1. FreeRun(v, m, free) = [gone |-> FreeRun(v, q, free).gone \cup {m},
                               size |-> FreeRun(v, q, free).size + f[m].size,
                               last |-> FreeRun(v, q, free).last]
    <3> HIDE DEF m, q
    <3> QED BY <1>2, FreeRunIs, SMTT(20) DEF q
  <2>2. FreeRun(v, q, free) = [gone |-> {}, size |-> 0, last |-> q]
    <3>1. q \in D \cup {NULL}
      BY <1>2, <1>4, Zenon
    <3> HIDE DEF q
    <3> QED BY <3>1, FreeRunIs
  <2>3. f[m].size \in Nat
    BY <1>2, <1>4, Zenon
  <2> HIDE DEF q, m
  <2> QED BY <2>1, <2>2, <2>3
<1>10. f[j].type # free => Merge(v, i, free) = WithDesc(v, f)
  <2> SUFFICES ASSUME f[j].type # free
               PROVE  Merge(v, i, free) = WithDesc(v, f)
    BY Zenon
  <2>1. run.gone = {} /\ run.size = 0 /\ run.last = j
    BY <1>7
  <2>2. Joined(f, i, {}, 0, j) = Descriptors(f, i, {}, 0, j)
    <3>1. /\ List(f) /\ i \in DOMAIN f /\ {} \in SUBSET DOMAIN f /\ i \notin {} /\ 0 \in Nat
          /\ j \in DOMAIN f \cup {NULL} /\ j # i
      BY <1>1, <1>5, Zenon
    <3> HIDE DEF j, f
    <3> QED BY <3>1, JoinedIs, Zenon
  <2>3. \A k \in D : f[k] = Desc(f[k].start, f[k].size, f[k].up, f[k].low, f[k].type,
                                f[k].next, f[k].prev, f[k].is_from_heap)
    BY ListFacts, Whole, Zenon
  <2>4. f = [k \in D |-> f[k]]
    BY Zenon DEF List
  <2>5. Joined(f, i, {}, 0, j) = f
    <3>1. f[i].size + 0 = f[i].size
      BY <1>4
    <3> HIDE DEF f
    <3> QED BY <1>1, <2>2, <2>3, <2>4, <3>1 DEF Descriptors
  <2> HIDE DEF run
  <2> QED BY <1>6, <2>1, <2>5, Zenon
<1>11. f[j].type = free /\ (m = NULL \/ f[m].type # free)
         => Merge(v, i, free) = WithDesc(v, Absorb(f, i))
  <2> SUFFICES ASSUME f[j].type = free /\ (m = NULL \/ f[m].type # free)
               PROVE  Merge(v, i, free) = WithDesc(v, Absorb(f, i))
    BY Zenon
  <2>1. f[j].size \in Nat /\ m \in D \cup {NULL}
    BY <1>1, <1>4, Zenon
  <2>2. run.gone = {j} /\ run.size = f[j].size /\ run.last = m
    <3> HIDE DEF m, j, run
    <3> QED BY <1>7, <1>8, <2>1
  <2>3. Joined(f, i, {j}, f[j].size, m) = Absorb(f, i)
    <3>1. /\ List(f) /\ i \in DOMAIN f /\ {j} \in SUBSET DOMAIN f /\ i \notin {j}
          /\ f[j].size \in Nat /\ m \in DOMAIN f \cup {NULL} /\ m # i
      BY <1>1, <1>5, <2>1, Zenon
    <3>2. Joined(f, i, {j}, f[j].size, m) = Descriptors(f, i, {j}, f[j].size, m)
      <4> HIDE DEF m, j, f
      <4> QED BY <3>1, JoinedIs, Zenon
    <3> QED BY <3>2, Zenon DEF Absorb, Descriptors
  <2> HIDE DEF run, j, m, f
  <2> QED BY <1>6, <2>2, <2>3, Zenon
<1>12. f[j].type = free /\ m # NULL /\ f[m].type = free /\ (q = NULL \/ f[q].type # free)
         => Merge(v, i, free) = WithDesc(v, Absorb(Absorb(f, i), i))
  <2> SUFFICES ASSUME f[j].type = free, m # NULL, f[m].type = free,
                      q = NULL \/ f[q].type # free
               PROVE  Merge(v, i, free) = WithDesc(v, Absorb(Absorb(f, i), i))
    BY Zenon
  <2>1. /\ f[j].size \in Nat /\ m \in D /\ f[m].size \in Nat /\ q \in D \cup {NULL}
        /\ f[i].size \in Nat
    BY <1>1, <1>2, <1>4, Zenon
  <2>2. run.gone = {m, j} /\ run.size = f[m].size + f[j].size /\ run.last = q
    <3> HIDE DEF m, j, run, q
    <3> QED BY <1>7, <1>9, <2>1
  <2> DEFINE g == Absorb(f, i)
             size == f[m].size + f[j].size
  <2>3. Joined(f, i, {m, j}, size, q) = Descriptors(f, i, {m, j}, size, q)
    <3> HIDE DEF m, j, f, q
    <3>1. /\ List(f) /\ i \in DOMAIN f /\ {m, j} \in SUBSET DOMAIN f /\ i \notin {m, j}
          /\ q \in DOMAIN f \cup {NULL} /\ q # i
      BY <1>1, <1>5, <2>1, Zenon DEF f
    <3>2. size \in Nat
      BY <2>1
    <3> HIDE DEF size
    <3> QED BY <3>1, <3>2, JoinedIs, Zenon
  <2>4. /\ DOMAIN g = D \ {j}
        /\ g[i] = Desc(f[i].start, f[i].size + f[j].size, f[i].up, f[i].low, f[i].type, m,
                       f[i].prev, f[i].is_from_heap)
        /\ \A k \in D \ {i, j} : g[k] =
             Desc(f[k].start, f[k].size, f[k].up, f[k].low, f[k].type, f[k].next,
                  IF k = m THEN i ELSE f[k].prev, f[k].is_from_heap)
    BY <1>1, <1>5, Zenon DEF Absorb
  <2> HIDE DEF g
  <2>5. /\ g[i].next = m /\ g[i].start = f[i].start /\ g[i].size = f[i].size + f[j].size
        /\ g[i].up = f[i].up /\ g[i].low = f[i].low /\ g[i].type = f[i].type
        /\ g[i].prev = f[i].prev /\ g[i].is_from_heap = f[i].is_from_heap
    <3> HIDE DEF f, j, m
    <3> QED BY <2>4, SMTT(20) DEF Desc
  <2>6. g[m].next = q /\ g[m].size = f[m].size
    <3> HIDE DEF m, j, f
    <3>1. g[m] = Desc(f[m].start, f[m].size, f[m].up, f[m].low, f[m].type, f[m].next, i,
                      f[m].is_from_heap)
      BY <1>5, <2>1, <2>4, Zenon
    <3> QED BY <3>1 DEF Desc, q
  <2>7. \A k \in D \ {i, j, m} :
           /\ g[k].next = f[k].next /\ g[k].start = f[k].start /\ g[k].size = f[k].size
           /\ g[k].up = f[k].up /\ g[k].low = f[k].low /\ g[k].type = f[k].type
           /\ g[k].prev = f[k].prev /\ g[k].is_from_heap = f[k].is_from_heap
    <3> TAKE k \in D \ {i, j, m}
    <3>1. g[k] = Desc(f[k].start, f[k].size, f[k].up, f[k].low, f[k].type, f[k].next,
                      f[k].prev, f[k].is_from_heap)
      BY <2>4, Zenon
    <3> HIDE DEF f, m, j
    <3> QED BY <3>1 DEF Desc
  <2>8. Absorb(g, i) = Descriptors(f, i, {m, j}, size, q)
    <3> DEFINE A(k) ==
                 IF k = i THEN Desc(g[i].start, g[i].size + g[m].size, g[i].up, g[i].low, g[i].type,
                                    g[m].next, g[i].prev, g[i].is_from_heap)
                 ELSE Desc(g[k].start, g[k].size, g[k].up, g[k].low, g[k].type, g[k].next,
                           IF k = g[m].next THEN i ELSE g[k].prev, g[k].is_from_heap)
               B(k) ==
                 IF k = i THEN Desc(f[i].start, f[i].size + size, f[i].up, f[i].low, f[i].type,
                                    q, f[i].prev, f[i].is_from_heap)
                 ELSE Desc(f[k].start, f[k].size, f[k].up, f[k].low, f[k].type, f[k].next,
                           IF k = q THEN i ELSE f[k].prev, f[k].is_from_heap)
    <3>1. Absorb(g, i) = [k \in DOMAIN g \ {m} |-> A(k)]
      <4> HIDE DEF m, f
      <4> QED BY <2>5, Zenon DEF Absorb
    <3>2. g[i].size + g[m].size = f[i].size + size
      <4> HIDE DEF m, f, j
      <4> QED BY <2>1, <2>5, <2>6
    <3>3. DOMAIN g \ {m} = D \ {m, j}
      BY <2>4, Zenon
    <3>4. Descriptors(f, i, {m, j}, size, q) = [k \in D \ {m, j} |-> B(k)]
      BY Zenon DEF Descriptors
    <3> HIDE DEF m, f, j, q, size, D
    <3>5. \A k \in D \ {m, j} : k = i \/ k \in D \ {i, j, m}
      BY Zenon
    <3>6. ASSUME NEW k \in D \ {m, j}
          PROVE  A(k) = B(k)
      <4>1. CASE k = i
        BY <2>5, <2>6, <3>2, <4>1, Zenon
      <4>2. CASE k # i
        BY <2>6, <2>7, <3>5, <4>2, Zenon
      <4> QED BY <4>1, <4>2, Zenon
    <3> HIDE DEF A, B
    <3> QED BY <3>1, <3>3, <3>4, <3>6, Zenon
  <2>9. Joined(f, i, {m, j}, size, q) = Absorb(g, i)
    BY <2>3, <2>8, Zenon
  <2> HIDE DEF run, j, m, f, q
  <2> QED BY <1>6, <2>2, <2>9, Zenon DEF g, size
<1> QED BY <1>10, <1>11, <1>12, Zenon

\* The descriptors in use are not touched.
InUseKept(e, desc) ==
    /\ DOMAIN e \subseteq DOMAIN desc
    /\ \A k \in DOMAIN desc : desc[k].type \notin FreeTypes =>
          k \in DOMAIN e /\ SameRange(e[k], desc[k])

\* A list e, made of v's by taking over free descriptors, keeps the manager.
LEMMA ManagerKept ==
  ASSUME NEW v, Manager(v), v.desc[v.head].prev = NULL, NEW e, List(e),
         DOMAIN e \subseteq DOMAIN v.desc,
         \A k \in DOMAIN v.desc : v.desc[k].prev = NULL => k \in DOMAIN e /\ e[k].prev = NULL,
         \A k \in DOMAIN e : Padded(e[k]), Merged(e, NULL)
  PROVE  Sound(WithDesc(v, e))
<1> DEFINE w == WithDesc(v, e)
<1>1. /\ w.desc = e /\ w.head = v.head /\ w.bump = v.bump /\ w.heap = v.heap
      /\ w.panic = v.panic
  BY Zenon DEF WithDesc, VM
<1> HIDE DEF w
<1>2. v.head \in DOMAIN v.desc
  BY Zenon DEF Manager
<1>3. v.head \in DOMAIN e /\ e[v.head].prev = NULL
  BY <1>2, Zenon
<1>4. Manager(w)
  BY <1>1, <1>3, Zenon DEF Manager
<1>5. Sound(w)
  BY <1>1, <1>3, <1>4, Zenon DEF Sound
<1> QED BY <1>5, Zenon DEF w

\* The same, with what follows for the descriptors in use and for the neighbours.
Absorbs(e, f, i, j) ==
    /\ List(e) /\ InUseKept(e, f) /\ i \in DOMAIN e
    /\ e[i].type = f[i].type /\ e[i].next = f[j].next
    /\ \A k \in DOMAIN e \ {i} : e[k].type = f[k].type /\ e[k].next = f[k].next
    /\ \A k \in DOMAIN e : Padded(e[k])
    /\ \A k \in DOMAIN f : f[k].prev = NULL => k \in DOMAIN e /\ e[k].prev = NULL
    /\ Merged(f, i) \/ Merged(f, j) => Merged(e, i)
    /\ DOMAIN e = DOMAIN f \ {j}

\* One descriptor is taken over.
LEMMA AbsorbSound ==
  ASSUME NEW f, List(f), \A k \in DOMAIN f : Padded(f[k]),
         NEW i \in DOMAIN f, f[i].next # NULL, f[i].type \in FreeTypes,
         f[f[i].next].type = f[i].type
  PROVE  Absorbs(Absorb(f, i), f, i, f[i].next)
<1> DEFINE j == f[i].next
           e == Absorb(f, i)
<1>1. /\ List(e) /\ j \in DOMAIN f /\ DOMAIN e = DOMAIN f \ {j} /\ i \in DOMAIN e
      /\ e[i].type = f[i].type /\ e[i].next = f[j].next
      /\ \A k \in DOMAIN e \ {i} : SameRange(e[k], f[k]) /\ e[k].next = f[k].next
      /\ \A k \in DOMAIN e : Padded(e[k]) /\ (f[k].prev = NULL => e[k].prev = NULL)
  <2>1. IsAbsorbed(e, f, i, j)
    BY AbsorbIs, Zenon
  <2> HIDE DEF e, j
  <2> QED BY <2>1, Zenon DEF IsAbsorbed
<1>2. f[j].prev = i /\ i # NULL /\ f[j].type \in FreeTypes
  BY ListFacts, Zenon
<1>3. \A k \in DOMAIN e \ {i} : e[k].type = f[k].type /\ e[k].next = f[k].next
  <2> HIDE DEF e
  <2> QED BY <1>1, Zenon DEF SameRange
<1>4. /\ \A k \in DOMAIN f : f[k].next # NULL => f[k].next \in DOMAIN f
      /\ \A k \in DOMAIN e : e[k].next # NULL => e[k].next \in DOMAIN e
  BY <1>1, ListFacts, Zenon
<1> HIDE DEF e, j
<1>6. InUseKept(e, f)
  <2> SUFFICES ASSUME NEW k \in DOMAIN f, f[k].type \notin FreeTypes
               PROVE  k \in DOMAIN e /\ SameRange(e[k], f[k])
    BY <1>1, Zenon DEF InUseKept
  <2>1. k # j /\ k # i
    BY <1>2, Zenon
  <2> QED BY <1>1, <2>1, Zenon
<1>7. \A k \in DOMAIN f : f[k].prev = NULL => k \in DOMAIN e /\ e[k].prev = NULL
  <2> TAKE k \in DOMAIN f
  <2> HAVE f[k].prev = NULL
  <2>1. k # j
    BY <1>2, Zenon
  <2> QED BY <1>1, <2>1, Zenon
<1>8. Merged(f, i) \/ Merged(f, j) => Merged(e, i)
  <2> SUFFICES ASSUME Merged(f, i) \/ Merged(f, j),
                      NEW k \in DOMAIN e, e[k].next # NULL, k # i, e[k].next # i,
                      e[k].type \in FreeTypes
               PROVE  e[e[k].next].type # e[k].type
    BY Zenon DEF Merged
  <2>1. /\ k \in DOMAIN f /\ k # j /\ e[k].type = f[k].type /\ e[k].next = f[k].next
        /\ f[k].next \in DOMAIN e /\ f[k].next # j
        /\ e[f[k].next].type = f[f[k].next].type
    BY <1>1, <1>3, <1>4, Zenon
  <2> QED BY <2>1, Zenon DEF Merged
<1> QED BY <1>1, <1>3, <1>6, <1>7, <1>8, Zenon DEF e, j, Absorbs

\* deallocate_kernel_virtual_memory's list operations on a descriptor that was
\* set free: the list has no free neighbours again, and panics only if the
\* descriptor is the last one.
LEMMA MergeEffect ==
  ASSUME NEW v, Manager(v), List(v.desc), v.desc[v.head].prev = NULL,
         \A k \in DOMAIN v.desc : Padded(v.desc[k]),
         NEW free \in FreeTypes, NEW h \in DOMAIN v.desc, v.desc[h].type = free,
         Merged(v.desc, h)
  PROVE  LET w == Merge(v, MergeInto(v, h, free), free)
         IN  /\ Sound(w) /\ InUseKept(w.desc, v.desc)
             /\ v.desc[h].next # NULL => w.panic = v.panic
<1> DEFINE f == v.desc
           i == MergeInto(v, h, free)
           w == Merge(v, i, free)
<1>1. /\ \A k \in DOMAIN f : k # NULL /\ f[k].start \in Nat
      /\ \A k \in DOMAIN f : f[k].next # NULL =>
           f[k].next \in DOMAIN f /\ f[k].next # k /\ f[f[k].next].prev = k
      /\ \A k \in DOMAIN f : f[k].prev # NULL =>
           f[k].prev \in DOMAIN f /\ f[k].prev # k /\ f[f[k].prev].next = k
  BY ListFacts
<1>2. f[h].type = free /\ h \in DOMAIN f /\ free \in FreeTypes /\ List(f) /\ Merged(f, h)
  BY Zenon
<1>3. \A e : /\ List(e) /\ DOMAIN e \subseteq DOMAIN f
             /\ \A k \in DOMAIN f : f[k].prev = NULL => k \in DOMAIN e /\ e[k].prev = NULL
             /\ \A k \in DOMAIN e : Padded(e[k])
             /\ Merged(e, NULL) /\ InUseKept(e, f) /\ w = WithDesc(v, e)
             => Sound(w) /\ InUseKept(w.desc, f) /\ w.panic = v.panic
  <2> TAKE e
  <2> HAVE /\ List(e) /\ DOMAIN e \subseteq DOMAIN f
           /\ \A k \in DOMAIN f : f[k].prev = NULL => k \in DOMAIN e /\ e[k].prev = NULL
           /\ \A k \in DOMAIN e : Padded(e[k])
           /\ Merged(e, NULL) /\ InUseKept(e, f) /\ w = WithDesc(v, e)
  <2>1. Sound(WithDesc(v, e))
    BY ManagerKept, Zenon
  <2>2. WithDesc(v, e).desc = e /\ WithDesc(v, e).panic = v.panic
    BY Zenon DEF WithDesc, VM
  <2> HIDE DEF w, f
  <2> QED BY <2>1, <2>2, Zenon
\* The whole of a list e in which only i may have a free neighbour behind it.
<1>4. ASSUME NEW e, List(e), NEW x \in DOMAIN e, e[x].type = free,
             e[x].prev = NULL \/ e[e[x].prev].type # free,
             e[x].next = NULL \/ e[e[x].next].type # free, Merged(e, x)
      PROVE  Merged(e, NULL)
  <2> SUFFICES ASSUME NEW k \in DOMAIN e, e[k].next # NULL, e[k].type \in FreeTypes
               PROVE  e[e[k].next].type # e[k].type
    BY Zenon DEF Merged
  <2>1. e[k].next \in DOMAIN e /\ e[e[k].next].prev = k /\ k # NULL
    BY <1>4, Neighbours, Zenon
  <2> QED BY <1>4, <2>1, Zenon DEF Merged
<1>5. i = IF f[h].prev # NULL /\ f[IF f[h].prev = NULL THEN h ELSE f[h].prev].type = free
          THEN f[h].prev ELSE h
  BY Zenon DEF MergeInto
<1>6. CASE i = h /\ (f[h].prev = NULL \/ f[f[h].prev].type # free)
  <2> DEFINE j == f[h].next
             m == f[j].next
  <2>1. CASE j = NULL
    <3>1. w = Kpanic(v, "NULL_DEREFERENCE")
      BY <1>6, <2>1, Zenon DEF Merge
    <3>2. /\ w.desc = f /\ w.head = v.head /\ w.bump = v.bump /\ w.heap = v.heap
          /\ w.panic \in {"NULL_DEREFERENCE", v.panic}
      <4> HIDE DEF w
      <4> QED BY <3>1, Zenon DEF Kpanic, VM
    <3>3. Merged(f, NULL)
      BY <1>2, <1>4, <1>6, <2>1, Zenon
    <3> HIDE DEF w
    <3>4. Manager(w)
      BY <3>2, Zenon DEF Manager
    <3>5. Sound(w)
      BY <3>2, <3>3, <3>4, Zenon DEF Sound
    <3>6. InUseKept(w.desc, f)
      BY <3>2, Zenon DEF InUseKept, SameRange
    <3> QED BY <2>1, <3>5, <3>6, Zenon DEF w
  <2>2. CASE j # NULL /\ f[j].type # free
    <3>1. w = WithDesc(v, f)
      BY <1>6, <2>2, MergeIs, Zenon
    <3>2. Merged(f, NULL)
      BY <1>2, <1>4, <1>6, <2>2, Zenon
    <3>3. InUseKept(f, f)
      BY Zenon DEF InUseKept, SameRange
    <3>4. Sound(w) /\ InUseKept(w.desc, f) /\ w.panic = v.panic
      <4> HIDE DEF w
      <4> QED BY <1>3, <3>1, <3>2, <3>3, Zenon
    <3> QED BY <3>4, Zenon
  <2>3. CASE j # NULL /\ f[j].type = free
    <3> DEFINE e == Absorb(f, h)
    <3>1. j \in DOMAIN f /\ f[j].prev = h /\ j # h
      BY <1>1, <2>3, Zenon
    <3>2. m # h
      <4> SUFFICES ASSUME m = h PROVE FALSE
        BY Zenon
      <4>1. f[h].start < f[j].start /\ f[j].start < f[h].start
        BY <1>1, <2>3, <3>1, NextIsBehind, Zenon
      <4>2. f[h].start \in Nat /\ f[j].start \in Nat
        BY <1>1, <1>2, <3>1, Zenon
      <4> HIDE DEF f, j
      <4> QED BY <4>1, <4>2
    <3>3. m = NULL \/ f[m].type # free
      BY <1>2, <2>3, <3>1, <3>2, Zenon DEF Merged
    <3>4. w = WithDesc(v, e)
      BY <1>6, <2>3, <3>3, MergeIs, Zenon
    <3>5. /\ List(e) /\ InUseKept(e, f) /\ h \in DOMAIN e
          /\ e[h].type = free /\ e[h].next = m
          /\ \A k \in DOMAIN e \ {h} : e[k].type = f[k].type /\ e[k].next = f[k].next
          /\ \A k \in DOMAIN e : Padded(e[k])
          /\ \A k \in DOMAIN f : f[k].prev = NULL => k \in DOMAIN e /\ e[k].prev = NULL
          /\ Merged(e, h) /\ DOMAIN e = DOMAIN f \ {j}
      <4>1. Absorbs(e, f, h, j)
        BY <2>3, AbsorbSound, Zenon
      <4> HIDE DEF e, j
      <4> QED BY <1>2, <4>1, Zenon DEF Absorbs
    <3> HIDE DEF e, w
    <3>6. e[h].prev = NULL \/ e[e[h].prev].type # free
      <4> SUFFICES ASSUME e[h].prev # NULL PROVE e[e[h].prev].type # free
        BY Zenon
      <4>1. e[h].prev \in DOMAIN e /\ e[h].prev # h /\ e[e[h].prev].next = h
        BY <3>5, Neighbours, Zenon
      <4>2. f[e[h].prev].next = h /\ e[h].prev \in DOMAIN f
        BY <3>5, <4>1, Zenon
      <4>3. f[h].prev = e[h].prev
        BY <1>1, <4>2, Zenon
      <4>4. e[e[h].prev].type = f[e[h].prev].type
        BY <3>5, <4>1, Zenon
      <4>5. f[e[h].prev].type # free
        BY <1>6, <4>3, Zenon
      <4> QED BY <4>4, <4>5, Zenon
    <3>7. e[h].next = NULL \/ e[e[h].next].type # free
      <4> SUFFICES ASSUME e[h].next # NULL PROVE e[e[h].next].type # free
        BY Zenon
      <4>1. m \in DOMAIN e
        BY <3>5, ListFacts, Zenon
      <4> QED BY <3>2, <3>3, <3>5, <4>1, Zenon
    <3>8. Merged(e, NULL)
      BY <1>4, <3>5, <3>6, <3>7, Zenon
    <3>9. DOMAIN e \subseteq DOMAIN f
      BY <3>5, Zenon
    <3>10. Sound(w) /\ InUseKept(w.desc, f) /\ w.panic = v.panic
      BY <1>3, <3>4, <3>5, <3>8, <3>9, Zenon
    <3> QED BY <3>10, Zenon DEF w
  <2> QED BY <2>1, <2>2, <2>3, Zenon
<1>7. CASE i = f[h].prev /\ f[h].prev # NULL /\ f[f[h].prev].type = free
  <2> DEFINE p == f[h].prev
             m == f[h].next
             e == Absorb(f, p)
  <2>1. p \in DOMAIN f /\ f[p].next = h /\ p # h /\ p # NULL /\ f[p].type = free
    BY <1>1, <1>7, ZenonT(30)
  <2>2. p # m
    <3> SUFFICES ASSUME p = m PROVE FALSE
      BY Zenon
    <3>1. f[p].start < f[h].start /\ f[h].start < f[p].start
      BY <1>1, <2>1, NextIsBehind
    <3> QED BY <1>1, <2>1, <3>1
  <2>3. f[p].prev = NULL \/ f[f[p].prev].type # free
    <3> SUFFICES ASSUME f[p].prev # NULL PROVE f[f[p].prev].type # free
      BY Zenon
    <3>1. f[p].prev \in DOMAIN f /\ f[f[p].prev].next = p
      BY <1>1, <2>1, Zenon
    <3>2. f[p].prev # h
      BY <2>1, <2>2, <3>1, Zenon
    <3> QED BY <1>2, <2>1, <3>1, <3>2, Zenon DEF Merged
  <2>4. /\ List(e) /\ InUseKept(e, f) /\ p \in DOMAIN e
        /\ e[p].type = free /\ e[p].next = m
        /\ \A k \in DOMAIN e \ {p} : e[k].type = f[k].type /\ e[k].next = f[k].next
        /\ \A k \in DOMAIN e : Padded(e[k])
        /\ \A k \in DOMAIN f : f[k].prev = NULL => k \in DOMAIN e /\ e[k].prev = NULL
        /\ Merged(e, p) /\ DOMAIN e = DOMAIN f \ {h}
    <3>1. f[p].next # NULL /\ f[f[p].next].type = f[p].type
      BY <1>1, <2>1, Zenon
    <3>2. Absorbs(e, f, p, h)
      <4> HIDE DEF p
      <4> QED BY <1>2, <2>1, <3>1, AbsorbSound, Zenon
    <3> HIDE DEF p, e, f
    <3> QED BY <1>2, <2>1, <3>2, Zenon DEF Absorbs
  <2>5. e[p].prev = NULL \/ e[e[p].prev].type # free
    <3> HIDE DEF e, p, m, f
    <3> SUFFICES ASSUME e[p].prev # NULL PROVE e[e[p].prev].type # free
      BY Zenon
    <3>1. e[p].prev \in DOMAIN e /\ e[p].prev # p /\ e[e[p].prev].next = p
      BY <2>4, Neighbours, ZenonT(30)
    <3>2. f[e[p].prev].next = p /\ e[p].prev \in DOMAIN f
      BY <2>4, <3>1, Zenon
    <3>3. f[p].prev = e[p].prev /\ e[p].prev # NULL
      BY <1>1, <2>1, <3>2
    <3> QED BY <2>3, <2>4, <3>1, <3>3, Zenon
  <2>6. CASE m = NULL \/ f[m].type # free
    <3>1. w = WithDesc(v, e)
      <4>1. f[p].next # NULL
        BY <1>1, <2>1, Zenon
      <4> HIDE DEF p
      <4> QED BY <1>2, <1>7, <2>1, <2>6, <4>1, MergeIs, Zenon DEF p
    <3> HIDE DEF e, p, w
    <3>2. e[p].next = NULL \/ e[e[p].next].type # free
      <4> SUFFICES ASSUME e[p].next # NULL PROVE e[e[p].next].type # free
        BY Zenon
      <4>1. m \in DOMAIN e
        BY <2>4, ListFacts, Zenon
      <4> QED BY <2>2, <2>4, <2>6, <4>1, Zenon
    <3>3. Merged(e, NULL)
      BY <1>4, <2>4, <2>5, <3>2, Zenon
    <3>4. DOMAIN e \subseteq DOMAIN f
      BY <2>4, Zenon
    <3>5. Sound(w) /\ InUseKept(w.desc, f) /\ w.panic = v.panic
      BY <1>3, <2>4, <3>1, <3>3, <3>4, Zenon
    <3> QED BY <3>5, Zenon DEF w
  <2>7. CASE m # NULL /\ f[m].type = free
    <3> DEFINE q == f[m].next
               g == Absorb(e, p)
    <3>1. m \in DOMAIN f /\ m # h /\ f[m].prev = h
      BY <1>1, <2>7, Zenon
    <3>2. q # h /\ q # p /\ q # m
      <4>1. f[p].start < f[h].start /\ f[h].start < f[m].start
        BY <1>1, <2>1, <2>7, NextIsBehind, Zenon
      <4>2. q # NULL => q \in DOMAIN f /\ f[m].start < f[q].start
        BY <3>1, NextIsBehind, Zenon
      <4>3. /\ f[p].start \in Nat /\ f[h].start \in Nat /\ f[m].start \in Nat
            /\ p # NULL /\ h # NULL /\ m # NULL
        BY <1>1, <1>2, <2>1, <3>1, Zenon
      <4>4. q # NULL => f[q].start \in Nat
        BY <1>1, <4>2, Zenon
      <4> HIDE DEF q, m, p, f
      <4>6. CASE q = NULL
        BY <4>3, <4>6, Zenon
      <4>7. CASE q # NULL
        <5>1. f[q].start # f[p].start /\ f[q].start # f[h].start /\ f[q].start # f[m].start
          BY <4>1, <4>2, <4>3, <4>4, <4>7
        <5> QED BY <5>1, Zenon
      <4> QED BY <4>6, <4>7, Zenon
    <3>3. q = NULL \/ f[q].type # free
      BY <1>2, <2>7, <3>1, <3>2, Zenon DEF Merged
    <3>4. w = WithDesc(v, g)
      <4>1. f[p].next # NULL
        BY <1>1, <2>1, Zenon
      <4> HIDE DEF p
      <4> QED BY <1>2, <1>7, <2>1, <2>7, <3>3, <4>1, MergeIs, Zenon DEF p
    <3> HIDE DEF e, p, w, q
    <3>5. /\ m \in DOMAIN e \ {p} /\ e[m].type = free /\ e[m].next = q
      BY <2>2, <2>4, <2>7, <3>1, Zenon DEF q
    <3>9. /\ List(g) /\ InUseKept(g, e) /\ p \in DOMAIN g
          /\ g[p].type = free /\ g[p].next = q
          /\ \A k \in DOMAIN g \ {p} : g[k].type = e[k].type /\ g[k].next = e[k].next
          /\ \A k \in DOMAIN g : Padded(g[k])
          /\ \A k \in DOMAIN e : e[k].prev = NULL => k \in DOMAIN g /\ g[k].prev = NULL
          /\ Merged(g, p) /\ DOMAIN g = DOMAIN e \ {m}
      <4>1. Absorbs(g, e, p, m)
        BY <1>2, <2>4, <2>7, <3>5, AbsorbSound, ZenonT(30)
      <4> HIDE DEF g, m
      <4> QED BY <2>4, <3>5, <4>1, Zenon DEF Absorbs
    <3> HIDE DEF g
    <3>10. g[p].prev = NULL \/ g[g[p].prev].type # free
      <4> SUFFICES ASSUME g[p].prev # NULL PROVE g[g[p].prev].type # free
        BY Zenon
      <4>1. g[p].prev \in DOMAIN g /\ g[p].prev # p /\ g[g[p].prev].next = p
        <5>1. List(g) /\ p \in DOMAIN g
          BY <3>9, Zenon
        <5> QED BY <5>1, Neighbours, Zenon
      <4>2. e[g[p].prev].next = p /\ g[p].prev \in DOMAIN e /\ p # NULL
        BY <2>1, <3>9, <4>1, Zenon
      <4>3. e[p].prev = g[p].prev
        <5>1. PICK x \in DOMAIN e : x = g[p].prev /\ List(e) /\ e[x].next = p
          BY <2>4, <4>2, Zenon
        <5>2. e[e[x].next].prev = x
          BY <4>2, <5>1, Neighbours, ZenonT(30)
        <5> QED BY <5>1, <5>2, Zenon
      <4> QED BY <2>5, <3>9, <4>1, <4>3, Zenon
    <3>11. g[p].next = NULL \/ g[g[p].next].type # free
      <4> SUFFICES ASSUME g[p].next # NULL PROVE g[g[p].next].type # free
        BY Zenon
      <4>1. q \in DOMAIN g
        BY <3>9, ListFacts, Zenon
      <4> QED BY <2>4, <3>2, <3>3, <3>9, <4>1, Zenon
    <3>12. Merged(g, NULL)
      BY <1>4, <3>9, <3>10, <3>11, Zenon
    <3>13. DOMAIN g \subseteq DOMAIN f
      BY <2>4, <3>9, Zenon
    <3>14. \A k \in DOMAIN f : f[k].prev = NULL => k \in DOMAIN g /\ g[k].prev = NULL
      BY <2>4, <3>9, Zenon
    <3>15. InUseKept(g, f)
      <4> SUFFICES ASSUME NEW k \in DOMAIN f, f[k].type \notin FreeTypes
                   PROVE  k \in DOMAIN g /\ SameRange(g[k], f[k])
        BY <3>13, Zenon DEF InUseKept
      <4>1. k \in DOMAIN e /\ SameRange(e[k], f[k])
        BY <2>4, Zenon DEF InUseKept
      <4>2. e[k].type \notin FreeTypes
        BY <4>1, Zenon DEF SameRange
      <4>3. k \in DOMAIN g /\ SameRange(g[k], e[k])
        BY <3>9, <4>1, <4>2, Zenon DEF InUseKept
      <4> QED BY <4>1, <4>3, Zenon DEF SameRange
    <3>16. Sound(w) /\ InUseKept(w.desc, f) /\ w.panic = v.panic
      BY <1>3, <3>4, <3>9, <3>12, <3>13, <3>14, <3>15, Zenon
    <3> QED BY <3>16, Zenon DEF w
  <2> QED BY <2>6, <2>7, Zenon
<1> QED BY <1>5, <1>6, <1>7, ZenonT(30)

=============================================================================

----------------------------- MODULE VmmProofs ------------------------------
(***************************************************************************)
(* Proofs about Vmm: the list of descriptors stays well formed, handles    *)
(* keep naming their descriptors, and the page tables and the count of     *)
(* frames follow the handles, for every layout of the address space,       *)
(* number of CPUs, size, padding and sequence of operations.               *)
(***************************************************************************)
EXTENDS VmmListProofs

------------------------------------------------------------------------------
(* The inductive invariant.                                                *)

ListInv == Sound(vm)

\* A handle names a descriptor in use; its pages are usable ones of the
\* descriptor, and all of them unless a CPU is about to map the others.
HandleOK(desc, hd, jb, h) ==
    /\ h \in DOMAIN desc
    /\ hd[h] = [type |-> desc[h].type, pages |-> hd[h].pages]
    /\ desc[h].type \notin FreeTypes
    /\ hd[h].pages \subseteq Usable(desc[h])
    /\ (\A c \in CPU : jb[c].h # h) => hd[h].pages = Usable(desc[h])

\* What a CPU is about to map, and what its handle has, are the usable pages.
HeldPages(hd, h) == IF h \in DOMAIN hd THEN hd[h].pages ELSE {}
JobOK(desc, hd, j) ==
    /\ j = [h |-> j.h, pages |-> j.pages, kind |-> j.kind, type |-> j.type, range |-> j.range]
    /\ j.h \in DOMAIN desc /\ j.type = desc[j.h].type
    /\ j.type \in OwnFrames \cup {"MEMORY_MAPPING"}
    /\ j.kind = IF j.type \in OwnFrames THEN "frame" ELSE "phys"
    /\ j.pages \cap HeldPages(hd, j.h) = {}
    /\ j.pages \cup HeldPages(hd, j.h) = Usable(desc[j.h])

\* Each descriptor has at most one CPU that works on it.
Handles(desc, hd, jb) ==
    /\ hd = [h \in DOMAIN hd |-> hd[h]] /\ jb = [c \in CPU |-> jb[c]]
    /\ \A h \in DOMAIN hd : HandleOK(desc, hd, jb, h)
    /\ \A c \in CPU : jb[c] # NoJob => JobOK(desc, hd, jb[c])
    /\ \A c, e \in CPU : c # e /\ jb[c] # NoJob => jb[c].h # jb[e].h

HandleInv == Handles(vm.desc, held, job)

\* The pages of the handles of some types.
PagesOf(hd, types) == UNION {hd[h].pages : h \in {g \in DOMAIN hd : hd[g].type \in types}}

\* MappedExactly, of any handles, page table and count of frames.
Mapped(hd, map, n) ==
    /\ {p \in Page : map[p] = "frame"} = PagesOf(hd, OwnFrames)
    /\ PagesOf(hd, {"MEMORY_MAPPING"}) \subseteq {p \in Page : map[p] = "phys"}
    /\ {p \in Page : map[p] = "phys"} \subseteq PagesOf(hd, {"MEMORY_MAPPING", "IDENTITY_MAP"})
    /\ n = Cardinality(PagesOf(hd, OwnFrames))

PageMap == [Page -> {"none", "frame", "phys"}]
MapInv ==
    /\ pt \in PageMap /\ locked \in BOOLEAN
    /\ Mapped(held, pt, frames)

IInv == ListInv /\ HandleInv /\ MapInv

------------------------------------------------------------------------------
(* Pages.                                                                  *)

\* The usable pages of a descriptor are pages of its range.
LEMMA UsableInRange ==
  ASSUME NEW desc, List(desc), NEW k \in DOMAIN desc
  PROVE  /\ Usable(desc[k]) \subseteq Pages(desc[k].start, desc[k].size)
         /\ Usable(desc[k]) \subseteq Page
         /\ IsFiniteSet(Usable(desc[k]))
<1> DEFINE d == desc[k]
<1>1. /\ d.start \in Nat /\ d.size \in Nat /\ d.up \in Nat /\ d.low \in Nat
  BY ListFields, Zenon
<1>2. InRange(d)
  BY ListFacts, Zenon
<1> HIDE DEF d
<1>3. Usable(d) = d.start + d.low .. d.start + d.low + (d.size - d.up - d.low) - 1
  BY Zenon DEF Usable, Pages, get_no_padding_start_addr, get_no_padding_size
<1>4. Usable(d) \subseteq Pages(d.start, d.size)
  BY <1>1, <1>3 DEF Pages
<1>5. Pages(d.start, d.size) \subseteq Page
  BY <1>1, <1>2, VmmAssumption DEF Pages, Page, InRange, End
<1>6. IsFiniteSet(Usable(d))
  <2> DEFINE a == d.start + d.low
             b == d.start + d.low + (d.size - d.up - d.low) - 1
  <2>1. a \in Int /\ b \in Int
    BY <1>1
  <2>2. Usable(d) = a .. b
    BY <1>3, Zenon
  <2> HIDE DEF a, b
  <2> QED BY <2>1, <2>2, FS_Interval, Zenon
<1> QED BY <1>4, <1>5, <1>6, Zenon DEF d

\* Descriptors share no page.
LEMMA UsableApart ==
  ASSUME NEW desc, List(desc), NEW j \in DOMAIN desc, NEW k \in DOMAIN desc, j # k
  PROVE  Usable(desc[j]) \cap Usable(desc[k]) = {}
<1> SUFFICES ASSUME NEW a, a \in Usable(desc[j]), a \in Usable(desc[k]) PROVE FALSE
  BY Zenon
<1>1. a \in Pages(desc[j].start, desc[j].size) /\ a \in Pages(desc[k].start, desc[k].size)
  BY UsableInRange, Zenon
<1> QED BY <1>1, OneDescriptor, Zenon

\* Which pages are in use.
LEMMA InPagesOf ==
  ASSUME NEW hd, NEW types, NEW p
  PROVE  p \in PagesOf(hd, types) <=> \E h \in DOMAIN hd : hd[h].type \in types /\ p \in hd[h].pages
BY Zenon DEF PagesOf

\* The pages of all handles are finitely many.
LEMMA PagesFinite ==
  ASSUME NEW desc, NEW hd, NEW jb, List(desc), Handles(desc, hd, jb), NEW types
  PROVE  PagesOf(hd, types) \subseteq Page /\ IsFiniteSet(PagesOf(hd, types))
<1>1. PagesOf(hd, types) \subseteq Page
  <2> SUFFICES ASSUME NEW p, p \in PagesOf(hd, types) PROVE p \in Page
    BY Zenon
  <2>1. PICK h \in DOMAIN hd : p \in hd[h].pages
    BY InPagesOf, Zenon
  <2>2. h \in DOMAIN desc /\ hd[h].pages \subseteq Usable(desc[h])
    BY Zenon DEF Handles, HandleOK
  <2> QED BY <2>1, <2>2, UsableInRange, Zenon
<1>2. IsFiniteSet(Page)
  <2> DEFINE I == 1 .. IDENTITY_END - 1
             K == KERNEL_START .. KERNEL_END - 1
  <2>1. IsFiniteSet(I) /\ IsFiniteSet(K)
    <3>1. 1 \in Int /\ IDENTITY_END - 1 \in Int /\ KERNEL_START \in Int /\ KERNEL_END - 1 \in Int
      BY VmmAssumption
    <3>2. \A a, b \in Int : IsFiniteSet(a .. b)
      BY FS_Interval, Zenon
    <3> QED BY <3>1, <3>2, Zenon
  <2>2. Page = I \cup K
    BY Zenon DEF Page
  <2> HIDE DEF I, K
  <2> QED BY <2>1, <2>2, FS_Union, Zenon
<1> QED BY <1>1, <1>2, FS_Subset, Zenon

\* A handle that gets more pages.
Given(hd, h, type, P) == Bind(hd, h, [type |-> type, pages |-> HeldPages(hd, h) \cup P])

\* They are more pages of its type.
LEMMA PagesBind ==
  ASSUME NEW hd, NEW h, NEW type, NEW P, h \in DOMAIN hd => hd[h].type = type, NEW types
  PROVE  PagesOf(Given(hd, h, type, P), types)
           = IF type \in types THEN PagesOf(hd, types) \cup P ELSE PagesOf(hd, types)
<1> DEFINE x == [type |-> type, pages |-> HeldPages(hd, h) \cup P]
           e == Bind(hd, h, x)
<1>1. x.type = type /\ x.pages = HeldPages(hd, h) \cup P
  BY Zenon
<1> HIDE DEF x
<1>2. /\ DOMAIN e = DOMAIN hd \cup {h} /\ e[h] = x
      /\ \A k \in DOMAIN hd : k # h => e[k] = hd[k]
  BY Zenon DEF Bind
<1> HIDE DEF e
<1>3. ASSUME NEW p
      PROVE  p \in PagesOf(e, types) <=>
               p \in PagesOf(hd, types) \/ (type \in types /\ p \in P)
  <2>1. p \in PagesOf(e, types) <=> \E k \in DOMAIN e : e[k].type \in types /\ p \in e[k].pages
    BY InPagesOf, Zenon
  <2>2. p \in PagesOf(hd, types) <=>
          \E k \in DOMAIN hd : hd[k].type \in types /\ p \in hd[k].pages
    BY InPagesOf, Zenon
  <2>3. p \in x.pages <=> (h \in DOMAIN hd /\ p \in hd[h].pages) \/ p \in P
    BY <1>1, Zenon DEF HeldPages
  <2> QED BY <1>1, <1>2, <2>1, <2>2, <2>3
<1>4. PagesOf(e, types) = IF type \in types THEN PagesOf(hd, types) \cup P ELSE PagesOf(hd, types)
  BY <1>3, Zenon
<1> QED BY <1>4, Zenon DEF e, x, Given

\* The pages of a handle that goes.
LEMMA PagesRestrict ==
  ASSUME NEW hd, NEW h \in DOMAIN hd, NEW types,
         \A k \in DOMAIN hd : k # h => hd[k].pages \cap hd[h].pages = {}
  PROVE  PagesOf(Restrict(hd, DOMAIN hd \ {h}), types) = PagesOf(hd, types) \ hd[h].pages
<1> DEFINE e == Restrict(hd, DOMAIN hd \ {h})
<1>1. DOMAIN e = DOMAIN hd \ {h} /\ \A k \in DOMAIN e : e[k] = hd[k]
  BY Zenon DEF Restrict
<1> HIDE DEF e
<1>2. ASSUME NEW p
      PROVE  p \in PagesOf(e, types) <=> p \in PagesOf(hd, types) /\ p \notin hd[h].pages
  <2>1. p \in PagesOf(e, types) <=> \E k \in DOMAIN e : e[k].type \in types /\ p \in e[k].pages
    BY InPagesOf, Zenon
  <2>2. p \in PagesOf(hd, types) <=>
          \E k \in DOMAIN hd : hd[k].type \in types /\ p \in hd[k].pages
    BY InPagesOf, Zenon
  <2> QED BY <1>1, <2>1, <2>2, Zenon
<1>3. PagesOf(e, types) = PagesOf(hd, types) \ hd[h].pages
  BY <1>2, Zenon
<1> QED BY <1>3, Zenon DEF e

\* Handles share no page.
LEMMA HandlesApart ==
  ASSUME NEW desc, NEW hd, NEW jb, List(desc), Handles(desc, hd, jb),
         NEW h \in DOMAIN hd, NEW k \in DOMAIN hd, h # k
  PROVE  hd[h].pages \cap hd[k].pages = {}
<1>1. /\ h \in DOMAIN desc /\ hd[h].pages \subseteq Usable(desc[h])
      /\ k \in DOMAIN desc /\ hd[k].pages \subseteq Usable(desc[k])
  BY Zenon DEF Handles, HandleOK
<1>2. Usable(desc[h]) \cap Usable(desc[k]) = {}
  BY <1>1, UsableApart, Zenon
<1> QED BY <1>1, <1>2, Zenon

\* What a CPU is about to map is not a handle's yet.
LEMMA JobApart ==
  ASSUME NEW desc, NEW hd, NEW jb, List(desc), Handles(desc, hd, jb),
         NEW c \in CPU, jb[c] # NoJob, NEW types
  PROVE  jb[c].pages \cap PagesOf(hd, types) = {} /\ jb[c].pages \subseteq Page
<1>1. JobOK(desc, hd, jb[c])
  BY Zenon DEF Handles
<1>2. /\ jb[c].h \in DOMAIN desc /\ jb[c].pages \subseteq Usable(desc[jb[c].h])
      /\ jb[c].pages \cap HeldPages(hd, jb[c].h) = {}
  BY <1>1, Zenon DEF JobOK
<1>3. \A h \in DOMAIN hd : jb[c].pages \cap hd[h].pages = {}
  <2> TAKE h \in DOMAIN hd
  <2>1. CASE h = jb[c].h
    BY <1>2, <2>1, Zenon DEF HeldPages
  <2>2. CASE h # jb[c].h
    <3>1. h \in DOMAIN desc /\ hd[h].pages \subseteq Usable(desc[h])
      BY Zenon DEF Handles, HandleOK
    <3>2. Usable(desc[h]) \cap Usable(desc[jb[c].h]) = {}
      BY <1>2, <2>2, <3>1, UsableApart
    <3> QED BY <1>2, <3>1, <3>2, Zenon
  <2> QED BY <2>1, <2>2, Zenon
<1>4. jb[c].pages \cap PagesOf(hd, types) = {}
  <2> SUFFICES ASSUME NEW p, p \in jb[c].pages, p \in PagesOf(hd, types) PROVE FALSE
    BY Zenon
  <2>1. PICK h \in DOMAIN hd : p \in hd[h].pages
    BY InPagesOf, Zenon
  <2> QED BY <1>3, <2>1, Zenon
<1> QED BY <1>2, <1>4, UsableInRange, Zenon

------------------------------------------------------------------------------
(* Handles.                                                                *)

\* The descriptors in use, except for h, have their ranges in e.
Kept(e, desc, h) ==
    \A k \in DOMAIN desc : k # h /\ desc[k].type \notin FreeTypes =>
        k \in DOMAIN e /\ SameRange(e[k], desc[k])

\* Such handles stay as they were.
LEMMA HandleKept ==
  ASSUME NEW desc, NEW hd, NEW jb, Handles(desc, hd, jb), NEW e, NEW h, Kept(e, desc, h),
         NEW k \in DOMAIN hd, k # h
  PROVE  HandleOK(e, hd, jb, k)
<1>1. HandleOK(desc, hd, jb, k)
  BY Zenon DEF Handles
<1>2. k \in DOMAIN desc /\ desc[k].type \notin FreeTypes
  BY <1>1, Zenon DEF HandleOK
<1>3. k \in DOMAIN e /\ SameRange(e[k], desc[k])
  BY <1>2, Zenon DEF Kept
<1>4. Usable(e[k]) = Usable(desc[k]) /\ e[k].type = desc[k].type
  BY <1>3, Zenon DEF SameRange, Usable, get_no_padding_start_addr, get_no_padding_size
<1> QED BY <1>1, <1>3, <1>4, Zenon DEF HandleOK

\* And so do jobs.
LEMMA JobKept ==
  ASSUME NEW desc, NEW hd, NEW jb, Handles(desc, hd, jb), NEW e, NEW h, Kept(e, desc, h),
         NEW c \in CPU, jb[c] # NoJob, jb[c].h # h
  PROVE  JobOK(e, hd, jb[c])
<1>1. JobOK(desc, hd, jb[c])
  BY Zenon DEF Handles
<1>2. jb[c].h \in DOMAIN desc /\ desc[jb[c].h].type \notin FreeTypes
  BY <1>1, Zenon DEF JobOK, OwnFrames, FreeTypes
<1>3. jb[c].h \in DOMAIN e /\ SameRange(e[jb[c].h], desc[jb[c].h])
  BY <1>2, Zenon DEF Kept
<1>4. /\ Usable(e[jb[c].h]) = Usable(desc[jb[c].h]) /\ e[jb[c].h].type = desc[jb[c].h].type
  BY <1>3, Zenon DEF SameRange, Usable, get_no_padding_start_addr, get_no_padding_size
<1> QED BY <1>1, <1>3, <1>4, Zenon DEF JobOK

\* The handle of a job is no NULL, so it is not that of a CPU without one.
LEMMA JobHandle ==
  ASSUME NEW desc, NEW hd, NEW jb, List(desc), Handles(desc, hd, jb), NEW c \in CPU
  PROVE  /\ jb[c] = NoJob => jb[c].h = NULL
         /\ jb[c] # NoJob => /\ jb[c].h \in DOMAIN desc /\ jb[c].h # NULL
                             /\ desc[jb[c].h].type \notin FreeTypes
<1>1. NoJob.h = NULL
  BY Zenon DEF NoJob
<1>2. jb[c] # NoJob => JobOK(desc, hd, jb[c])
  BY Zenon DEF Handles
<1>3. jb[c] # NoJob => jb[c].h \in DOMAIN desc /\ desc[jb[c].h].type \notin FreeTypes
  BY <1>2, Zenon DEF JobOK, OwnFrames, FreeTypes
<1> QED BY <1>1, <1>3, ListFacts, Zenon

\* A CPU that has taken a range, or has more of one, to map.
LEMMA JobStarts ==
  ASSUME NEW desc, NEW hd, NEW jb, List(desc), Handles(desc, hd, jb), NEW e, List(e),
         NEW at \in DOMAIN e, Kept(e, desc, at), NEW c \in CPU, jb[c] = NoJob,
         \A k \in CPU : jb[k].h # at, NEW j, JobOK(e, hd, j), j.h = at,
         at \in DOMAIN hd => /\ hd[at] = [type |-> e[at].type, pages |-> hd[at].pages]
                             /\ e[at].type \notin FreeTypes
  PROVE  Handles(e, hd, [jb EXCEPT ![c] = j])
<1> DEFINE jn == [jb EXCEPT ![c] = j]
<1>1. jb = [k \in CPU |-> jb[k]] /\ hd = [h \in DOMAIN hd |-> hd[h]]
  BY Zenon DEF Handles
<1>2. jn = [k \in CPU |-> jn[k]] /\ jn[c] = j /\ \A k \in CPU : k # c => jn[k] = jb[k]
  BY <1>1, Zenon
<1> HIDE DEF jn
<1>3. at # NULL /\ jb[c].h = NULL
  BY ListFacts, JobHandle
<1>4. \A h \in DOMAIN hd : HandleOK(e, hd, jn, h)
  <2> TAKE h \in DOMAIN hd
  <2>1. CASE h = at
    <3>1. hd[h].pages \subseteq Usable(e[h])
      BY <2>1, Zenon DEF JobOK, HeldPages
    <3>2. jn[c].h = h
      BY <1>2, <2>1, Zenon
    <3> QED BY <2>1, <3>1, <3>2, Zenon DEF HandleOK
  <2>2. CASE h # at
    <3>1. HandleOK(e, hd, jb, h)
      BY <2>2, HandleKept, Zenon
    <3>2. (\A k \in CPU : jn[k].h # h) => \A k \in CPU : jb[k].h # h
      <4>1. h # NULL
        BY <3>1, ListFacts DEF HandleOK
      <4> QED BY <1>2, <1>3, <4>1, Zenon
    <3> QED BY <3>1, <3>2, Zenon DEF HandleOK
  <2> QED BY <2>1, <2>2, Zenon
<1>5. \A k \in CPU : jn[k] # NoJob => JobOK(e, hd, jn[k])
  <2> TAKE k \in CPU
  <2> HAVE jn[k] # NoJob
  <2>1. CASE k = c
    BY <1>2, <2>1, Zenon
  <2>2. CASE k # c
    <3>1. jn[k] = jb[k]
      BY <1>2, <2>2, Zenon
    <3> QED BY <3>1, JobKept
  <2> QED BY <2>1, <2>2, Zenon
<1>6. \A k, m \in CPU : k # m /\ jn[k] # NoJob => jn[k].h # jn[m].h
  <2>1. \A k, m \in CPU : k # m /\ jb[k] # NoJob => jb[k].h # jb[m].h
    BY Zenon DEF Handles
  <2> QED BY <1>2, <2>1
<1>7. Handles(e, hd, jn)
  BY <1>1, <1>2, <1>4, <1>5, <1>6, Zenon DEF Handles
<1> QED BY <1>7, Zenon DEF jn

\* identity_map's caller has its handle at once.
LEMMA HandleStarts ==
  ASSUME NEW desc, NEW hd, NEW jb, List(desc), Handles(desc, hd, jb), NEW e, List(e),
         NEW at \in DOMAIN e, Kept(e, desc, at), \A k \in CPU : jb[k].h # at, at \notin DOMAIN hd,
         e[at].type \notin FreeTypes
  PROVE  Handles(e, Bind(hd, at, [type |-> e[at].type, pages |-> Usable(e[at])]), jb)
<1> DEFINE x == [type |-> e[at].type, pages |-> Usable(e[at])]
           hn == Bind(hd, at, x)
<1>1. x.type = e[at].type /\ x.pages = Usable(e[at]) /\ x = [type |-> e[at].type, pages |-> x.pages]
  BY Zenon
<1> HIDE DEF x
<1>2. /\ hn = [k \in DOMAIN hn |-> hn[k]] /\ DOMAIN hn = DOMAIN hd \cup {at}
      /\ hn[at] = x /\ \A k \in DOMAIN hd : hn[k] = hd[k]
  BY Zenon DEF Bind
<1> HIDE DEF hn
<1>3. \A h \in DOMAIN hn : HandleOK(e, hn, jb, h)
  <2> TAKE h \in DOMAIN hn
  <2>1. CASE h = at
    BY <1>1, <1>2, <2>1, Zenon DEF HandleOK
  <2>2. CASE h # at
    <3>1. h \in DOMAIN hd /\ hn[h] = hd[h]
      BY <1>2, <2>2, Zenon
    <3>2. HandleOK(e, hd, jb, h)
      BY <2>2, <3>1, HandleKept, Zenon
    <3> QED BY <3>1, <3>2, Zenon DEF HandleOK
  <2> QED BY <2>1, <2>2, Zenon
<1>4. \A k \in CPU : jb[k] # NoJob => JobOK(e, hn, jb[k])
  <2> TAKE k \in CPU
  <2> HAVE jb[k] # NoJob
  <2>1. JobOK(e, hd, jb[k])
    BY JobKept
  <2>2. HeldPages(hn, jb[k].h) = HeldPages(hd, jb[k].h)
    BY <1>2, Zenon DEF HeldPages
  <2> QED BY <2>1, <2>2, Zenon DEF JobOK
<1>5. /\ jb = [k \in CPU |-> jb[k]]
      /\ \A k, m \in CPU : k # m /\ jb[k] # NoJob => jb[k].h # jb[m].h
  BY Zenon DEF Handles
<1>6. Handles(e, hn, jb)
  BY <1>2, <1>3, <1>4, <1>5, Zenon DEF Handles
<1> QED BY <1>6, Zenon DEF hn, x

\* A CPU that has mapped its pages.
LEMMA JobDone ==
  ASSUME NEW desc, NEW hd, NEW jb, List(desc), Handles(desc, hd, jb), NEW c \in CPU,
         jb[c] # NoJob
  PROVE  Handles(desc, Bind(hd, jb[c].h, [type |-> jb[c].type,
                                          pages |-> HeldPages(hd, jb[c].h) \cup jb[c].pages]),
                 [jb EXCEPT ![c] = NoJob])
<1> DEFINE at == jb[c].h
           x == [type |-> jb[c].type, pages |-> HeldPages(hd, at) \cup jb[c].pages]
           hn == Bind(hd, at, x)
           jn == [jb EXCEPT ![c] = NoJob]
<1>1. /\ x.type = jb[c].type /\ x.pages = HeldPages(hd, at) \cup jb[c].pages
      /\ x = [type |-> x.type, pages |-> x.pages]
  BY Zenon
<1>2. jb = [k \in CPU |-> jb[k]] /\ hd = [h \in DOMAIN hd |-> hd[h]]
  BY Zenon DEF Handles
<1>3. jn = [k \in CPU |-> jn[k]] /\ jn[c] = NoJob /\ \A k \in CPU : k # c => jn[k] = jb[k]
  BY <1>2, Zenon
<1> HIDE DEF x, jn
<1>4. /\ hn = [k \in DOMAIN hn |-> hn[k]] /\ DOMAIN hn = DOMAIN hd \cup {at}
      /\ hn[at] = x /\ \A k \in DOMAIN hd : k # at => hn[k] = hd[k]
  BY Zenon DEF Bind
<1> HIDE DEF hn, at
<1>5. JobOK(desc, hd, jb[c])
  BY Zenon DEF Handles
<1>6. /\ at \in DOMAIN desc /\ jb[c].type = desc[at].type /\ desc[at].type \notin FreeTypes
      /\ x.pages = Usable(desc[at])
  BY <1>1, <1>5, Zenon DEF JobOK, at, OwnFrames, FreeTypes
<1>7. \A k, m \in CPU : k # m /\ jb[k] # NoJob => jb[k].h # jb[m].h
  BY Zenon DEF Handles
<1>8. \A h \in DOMAIN hn : HandleOK(desc, hn, jn, h)
  <2> TAKE h \in DOMAIN hn
  <2>1. CASE h = at
    BY <1>1, <1>4, <1>6, <2>1, Zenon DEF HandleOK
  <2>2. CASE h # at
    <3>1. h \in DOMAIN hd /\ hn[h] = hd[h]
      BY <1>4, <2>2, Zenon
    <3>2. HandleOK(desc, hd, jb, h)
      BY <3>1, Zenon DEF Handles
    <3>3. (\A k \in CPU : jn[k].h # h) => \A k \in CPU : jb[k].h # h
      BY <1>3, <2>2, Zenon DEF at
    <3> QED BY <3>1, <3>2, <3>3, Zenon DEF HandleOK
  <2> QED BY <2>1, <2>2, Zenon
<1>9. \A k \in CPU : jn[k] # NoJob => JobOK(desc, hn, jn[k])
  <2> TAKE k \in CPU
  <2> HAVE jn[k] # NoJob
  <2>1. k # c /\ jn[k] = jb[k]
    BY <1>3, Zenon
  <2>2. JobOK(desc, hd, jb[k])
    BY <2>1, Zenon DEF Handles
  <2>3. jb[k].h # at
    BY <1>7, <2>1, Zenon DEF at
  <2>4. HeldPages(hn, jb[k].h) = HeldPages(hd, jb[k].h)
    BY <1>4, <2>3, Zenon DEF HeldPages
  <2> QED BY <2>1, <2>2, <2>4, Zenon DEF JobOK
<1>10. \A k, m \in CPU : k # m /\ jn[k] # NoJob => jn[k].h # jn[m].h
  <2> SUFFICES ASSUME NEW k \in CPU, NEW m \in CPU, k # m, jn[k] # NoJob
               PROVE  jn[k].h # jn[m].h
    BY Zenon
  <2>1. k # c /\ jn[k] = jb[k] /\ jb[k] # NoJob
    BY <1>3, Zenon
  <2>2. CASE m = c
    <3>1. jn[m].h = NULL
      BY <1>3, <2>2 DEF NoJob
    <3> QED BY <2>1, <3>1, JobHandle, Zenon
  <2>3. CASE m # c
    BY <1>3, <1>7, <2>1, <2>3, Zenon
  <2> QED BY <2>2, <2>3, Zenon
<1>11. Handles(desc, hn, jn)
  BY <1>3, <1>4, <1>8, <1>9, <1>10, Zenon DEF Handles
<1> QED BY <1>11, Zenon DEF hn, jn, x, at

\* A handle whose range is freed.
LEMMA HandleEnds ==
  ASSUME NEW desc, NEW hd, NEW jb, List(desc), Handles(desc, hd, jb), NEW h,
         \A k \in CPU : jb[k].h # h, NEW e, Kept(e, desc, h)
  PROVE  Handles(e, Restrict(hd, DOMAIN hd \ {h}), jb)
<1> DEFINE hn == Restrict(hd, DOMAIN hd \ {h})
<1>1. /\ hn = [k \in DOMAIN hn |-> hn[k]] /\ DOMAIN hn = DOMAIN hd \ {h}
      /\ \A k \in DOMAIN hn : hn[k] = hd[k]
  BY Zenon DEF Restrict
<1> HIDE DEF hn
<1>2. \A k \in DOMAIN hn : HandleOK(e, hn, jb, k)
  <2> TAKE k \in DOMAIN hn
  <2>1. k \in DOMAIN hd /\ k # h /\ hn[k] = hd[k]
    BY <1>1, Zenon
  <2>2. HandleOK(e, hd, jb, k)
    BY <2>1, HandleKept, Zenon
  <2> QED BY <2>1, <2>2, Zenon DEF HandleOK
<1>3. \A k \in CPU : jb[k] # NoJob => JobOK(e, hn, jb[k])
  <2> TAKE k \in CPU
  <2> HAVE jb[k] # NoJob
  <2>1. JobOK(e, hd, jb[k])
    BY JobKept
  <2>2. HeldPages(hn, jb[k].h) = HeldPages(hd, jb[k].h)
    BY <1>1, Zenon DEF HeldPages
  <2> QED BY <2>1, <2>2, Zenon DEF JobOK
<1>4. /\ jb = [k \in CPU |-> jb[k]]
      /\ \A k, m \in CPU : k # m /\ jb[k] # NoJob => jb[k].h # jb[m].h
  BY Zenon DEF Handles
<1>5. Handles(e, hn, jb)
  BY <1>1, <1>2, <1>3, <1>4, Zenon DEF Handles
<1> QED BY <1>5, Zenon DEF hn

------------------------------------------------------------------------------
(* Page tables.                                                            *)

\* The page tables after a CPU's loop of paging_map calls.
LEMMA MapJob ==
  ASSUME NEW desc, NEW hd, NEW jb, List(desc), Handles(desc, hd, jb), NEW c \in CPU,
         jb[c] # NoJob, NEW map \in PageMap, NEW n, Mapped(hd, map, n)
  PROVE  LET j == jb[c]
             mn == [p \in Page |-> IF p \in j.pages THEN j.kind ELSE map[p]]
             hn == Bind(hd, j.h, [type |-> j.type, pages |-> HeldPages(hd, j.h) \cup j.pages])
         IN  mn \in PageMap /\
             Mapped(hn, mn, n + IF j.kind = "frame" THEN Cardinality(j.pages) ELSE 0)
<1> DEFINE j == jb[c]
           mn == [p \in Page |-> IF p \in j.pages THEN j.kind ELSE map[p]]
           hn == Bind(hd, j.h, [type |-> j.type, pages |-> HeldPages(hd, j.h) \cup j.pages])
           k == IF j.kind = "frame" THEN Cardinality(j.pages) ELSE 0
<1>1. JobOK(desc, hd, j)
  BY Zenon DEF Handles
<1>2. j.h \in DOMAIN hd => hd[j.h].type = j.type
  <2>1. j.h \in DOMAIN hd => HandleOK(desc, hd, jb, j.h)
    BY Zenon DEF Handles
  <2> QED BY <1>1, <2>1 DEF JobOK, HandleOK
<1>3. /\ j.type \in OwnFrames \cup {"MEMORY_MAPPING"}
      /\ j.kind = IF j.type \in OwnFrames THEN "frame" ELSE "phys"
  BY <1>1, Zenon DEF JobOK
<1>4. ASSUME NEW types
      PROVE  PagesOf(hn, types) = IF j.type \in types THEN PagesOf(hd, types) \cup j.pages
                                  ELSE PagesOf(hd, types)
  <2> DEFINE h == j.h
             type == j.type
             P == j.pages
  <2>1. h \in DOMAIN hd => hd[h].type = type
    BY <1>2, Zenon
  <2>2. hn = Given(hd, h, type, P)
    BY Zenon DEF Given
  <2> HIDE DEF h, type, P, hn, mn, j, k
  <2>3. PagesOf(hn, types) = IF type \in types THEN PagesOf(hd, types) \cup P ELSE PagesOf(hd, types)
    BY <2>1, <2>2, PagesBind
  <2> QED BY <2>3, Zenon DEF h, type, P, j
<1>5. ASSUME NEW types
      PROVE  j.pages \cap PagesOf(hd, types) = {} /\ j.pages \subseteq Page
  BY JobApart, Zenon
<1>6. /\ mn \in PageMap
      /\ \A p \in Page : mn[p] = IF p \in j.pages THEN j.kind ELSE map[p]
  BY <1>3, Zenon DEF PageMap
<1>7. IsFiniteSet(j.pages) /\ IsFiniteSet(PagesOf(hd, OwnFrames))
  <2>1. j.pages \subseteq Usable(desc[j.h]) /\ j.h \in DOMAIN desc
    BY <1>1, Zenon DEF JobOK
  <2> QED BY <2>1, UsableInRange, PagesFinite, FS_Subset, Zenon
<1>8. n + k = Cardinality(PagesOf(hn, OwnFrames))
  <2>1. n = Cardinality(PagesOf(hd, OwnFrames))
    BY Zenon DEF Mapped
  <2>2. CASE j.type \in OwnFrames
    <3>1. PagesOf(hn, OwnFrames) = PagesOf(hd, OwnFrames) \cup j.pages
      BY <1>4, <2>2, Zenon
    <3>2. PagesOf(hd, OwnFrames) \cap j.pages = {}
      BY <1>5, Zenon
    <3>3. Cardinality(PagesOf(hd, OwnFrames) \cup j.pages)
            = Cardinality(PagesOf(hd, OwnFrames)) + Cardinality(j.pages)
              - Cardinality(PagesOf(hd, OwnFrames) \cap j.pages)
      BY <1>7, FS_Union, Zenon
    <3>4. /\ Cardinality(PagesOf(hd, OwnFrames)) \in Nat /\ Cardinality(j.pages) \in Nat
          /\ Cardinality(PagesOf(hd, OwnFrames) \cap j.pages) = 0
      BY <1>7, <3>2, FS_CardinalityType, FS_EmptySet, Zenon
    <3>5. k = Cardinality(j.pages)
      BY <1>3, <2>2, Zenon
    <3> HIDE DEF k, j, hn
    <3> QED BY <2>1, <3>1, <3>3, <3>4, <3>5
  <2>3. CASE j.type \notin OwnFrames
    <3>1. PagesOf(hn, OwnFrames) = PagesOf(hd, OwnFrames) /\ k = 0
      BY <1>3, <1>4, <2>3, Zenon
    <3>2. Cardinality(PagesOf(hd, OwnFrames)) \in Nat
      BY <1>7, FS_CardinalityType, Zenon
    <3> QED BY <2>1, <3>1, <3>2
  <2> QED BY <2>2, <2>3, Zenon
<1> HIDE DEF hn, mn, k
<1>9. Mapped(hn, mn, n + k)
  <2>1. /\ {p \in Page : map[p] = "frame"} = PagesOf(hd, OwnFrames)
        /\ PagesOf(hd, {"MEMORY_MAPPING"}) \subseteq {p \in Page : map[p] = "phys"}
        /\ {p \in Page : map[p] = "phys"} \subseteq PagesOf(hd, {"MEMORY_MAPPING", "IDENTITY_MAP"})
    BY Zenon DEF Mapped
  <2>2. {p \in Page : mn[p] = "frame"} = PagesOf(hn, OwnFrames)
    BY <1>3, <1>4, <1>5, <1>6, <2>1
  <2>3. PagesOf(hn, {"MEMORY_MAPPING"}) \subseteq {p \in Page : mn[p] = "phys"}
    <3>1. "MEMORY_MAPPING" \notin OwnFrames
      BY Zenon DEF OwnFrames
    <3>2. j.pages \cap PagesOf(hd, {"MEMORY_MAPPING"}) = {} /\ j.pages \subseteq Page
      BY <1>5, Zenon
    <3> QED BY <1>3, <1>4, <1>6, <2>1, <3>1, <3>2, Zenon
  <2>4. {p \in Page : mn[p] = "phys"} \subseteq PagesOf(hn, {"MEMORY_MAPPING", "IDENTITY_MAP"})
    <3>1. "IDENTITY_MAP" \notin OwnFrames
      BY Zenon DEF OwnFrames
    <3> QED BY <1>3, <1>4, <1>6, <2>1, <3>1
  <2> QED BY <1>8, <2>2, <2>3, <2>4, Zenon DEF Mapped
<1> QED BY <1>6, <1>9, Zenon DEF hn, mn, k

\* load_identity_map_pages maps pages of a reserved range.
LEMMA MapIdentity ==
  ASSUME NEW desc, NEW hd, NEW jb, List(desc), Handles(desc, hd, jb), NEW h \in DOMAIN hd,
         hd[h].type = "IDENTITY_MAP", NEW P, P \subseteq hd[h].pages,
         NEW map \in PageMap, NEW n, Mapped(hd, map, n)
  PROVE  LET mn == [p \in Page |-> IF p \in P THEN "phys" ELSE map[p]]
         IN  mn \in PageMap /\ Mapped(hd, mn, n)
<1> DEFINE mn == [p \in Page |-> IF p \in P THEN "phys" ELSE map[p]]
<1>1. mn \in PageMap /\ \A p \in Page : mn[p] = IF p \in P THEN "phys" ELSE map[p]
  BY Zenon DEF PageMap
<1> HIDE DEF mn
<1>2. P \subseteq PagesOf(hd, {"MEMORY_MAPPING", "IDENTITY_MAP"})
  BY InPagesOf, Zenon
<1>3. P \cap PagesOf(hd, OwnFrames) = {}
  <2> SUFFICES ASSUME NEW p, p \in P, p \in PagesOf(hd, OwnFrames) PROVE FALSE
    BY Zenon
  <2>1. PICK k \in DOMAIN hd : hd[k].type \in OwnFrames /\ p \in hd[k].pages
    BY InPagesOf, Zenon
  <2>2. k # h
    BY <2>1, Zenon DEF OwnFrames
  <2>3. hd[h].pages \cap hd[k].pages = {}
    BY <2>2, HandlesApart, Zenon
  <2> QED BY <2>1, <2>3, Zenon
<1>4. Mapped(hd, mn, n)
  <2>1. /\ {p \in Page : map[p] = "frame"} = PagesOf(hd, OwnFrames)
        /\ PagesOf(hd, {"MEMORY_MAPPING"}) \subseteq {p \in Page : map[p] = "phys"}
        /\ {p \in Page : map[p] = "phys"} \subseteq PagesOf(hd, {"MEMORY_MAPPING", "IDENTITY_MAP"})
        /\ n = Cardinality(PagesOf(hd, OwnFrames))
    BY Zenon DEF Mapped
  <2>2. {p \in Page : mn[p] = "frame"} = PagesOf(hd, OwnFrames)
    BY <1>1, <1>3, <2>1, Zenon
  <2>3. PagesOf(hd, {"MEMORY_MAPPING"}) \subseteq {p \in Page : mn[p] = "phys"}
    BY <1>1, <2>1, Zenon
  <2>4. {p \in Page : mn[p] = "phys"} \subseteq PagesOf(hd, {"MEMORY_MAPPING", "IDENTITY_MAP"})
    BY <1>1, <1>2, <2>1, Zenon
  <2> QED BY <2>1, <2>2, <2>3, <2>4, Zenon DEF Mapped
<1> QED BY <1>1, <1>4, Zenon DEF mn

\* A new reserved range has no page mapped.
LEMMA MapReserved ==
  ASSUME NEW hd, NEW h, h \notin DOMAIN hd, NEW P, NEW map, NEW n, Mapped(hd, map, n)
  PROVE  Mapped(Bind(hd, h, [type |-> "IDENTITY_MAP", pages |-> P]), map, n)
<1> DEFINE hn == Bind(hd, h, [type |-> "IDENTITY_MAP", pages |-> P])
<1>1. hn = Given(hd, h, "IDENTITY_MAP", P)
  <2>1. HeldPages(hd, h) \cup P = P
    BY Zenon DEF HeldPages
  <2> QED BY <2>1, Zenon DEF Given
<1> HIDE DEF hn
<1>2. ASSUME NEW types
      PROVE  PagesOf(hn, types) = IF "IDENTITY_MAP" \in types THEN PagesOf(hd, types) \cup P
                                  ELSE PagesOf(hd, types)
  BY <1>1, PagesBind
<1>3. /\ PagesOf(hn, OwnFrames) = PagesOf(hd, OwnFrames)
      /\ PagesOf(hn, {"MEMORY_MAPPING"}) = PagesOf(hd, {"MEMORY_MAPPING"})
      /\ PagesOf(hn, {"MEMORY_MAPPING", "IDENTITY_MAP"})
           = PagesOf(hd, {"MEMORY_MAPPING", "IDENTITY_MAP"}) \cup P
  BY <1>2, Zenon DEF OwnFrames
<1>4. Mapped(hn, map, n)
  BY <1>3, Zenon DEF Mapped
<1> QED BY <1>4, Zenon DEF hn

\* A range that is freed is unmapped, and its own frames are given back.
LEMMA MapFreed ==
  ASSUME NEW desc, NEW hd, NEW jb, List(desc), Handles(desc, hd, jb), NEW h \in DOMAIN hd,
         \A c \in CPU : jb[c].h # h, NEW map \in PageMap, NEW n, Mapped(hd, map, n)
  PROVE  LET mn == [p \in Page |-> IF p \in Usable(desc[h]) THEN "none" ELSE map[p]]
             F == {p \in Usable(desc[h]) : desc[h].type \in OwnFrames /\ map[p] # "none"}
         IN  mn \in PageMap /\ Mapped(Restrict(hd, DOMAIN hd \ {h}), mn, n - Cardinality(F))
<1> DEFINE P == Usable(desc[h])
           mn == [p \in Page |-> IF p \in P THEN "none" ELSE map[p]]
           F == {p \in P : desc[h].type \in OwnFrames /\ map[p] # "none"}
           hn == Restrict(hd, DOMAIN hd \ {h})
<1>1. mn \in PageMap /\ \A p \in Page : mn[p] = IF p \in P THEN "none" ELSE map[p]
  BY Zenon DEF PageMap
<1>2. /\ h \in DOMAIN desc /\ hd[h].type = desc[h].type /\ hd[h].pages = P
      /\ P \subseteq Page /\ IsFiniteSet(P)
  <2>1. HandleOK(desc, hd, jb, h)
    BY Zenon DEF Handles
  <2> QED BY <2>1, UsableInRange DEF HandleOK
<1> HIDE DEF P, mn
<1>3. ASSUME NEW types
      PROVE  PagesOf(hn, types) = PagesOf(hd, types) \ P
  <2>1. \A k \in DOMAIN hd : k # h => hd[k].pages \cap hd[h].pages = {}
    BY HandlesApart, Zenon
  <2> QED BY <1>2, <2>1, PagesRestrict, Zenon
<1> HIDE DEF hn
<1>4. /\ {p \in Page : map[p] = "frame"} = PagesOf(hd, OwnFrames)
      /\ PagesOf(hd, {"MEMORY_MAPPING"}) \subseteq {p \in Page : map[p] = "phys"}
      /\ {p \in Page : map[p] = "phys"} \subseteq PagesOf(hd, {"MEMORY_MAPPING", "IDENTITY_MAP"})
      /\ n = Cardinality(PagesOf(hd, OwnFrames))
  BY Zenon DEF Mapped
<1>5. F = PagesOf(hd, OwnFrames) \cap P
  <2>1. CASE desc[h].type \in OwnFrames
    <3>1. P \subseteq PagesOf(hd, OwnFrames)
      BY <1>2, <2>1, InPagesOf, Zenon
    <3>2. \A p \in P : map[p] = "frame"
      BY <1>4, <3>1, Zenon
    <3> QED BY <2>1, <3>1, <3>2, Zenon
  <2>2. CASE desc[h].type \notin OwnFrames
    <3> SUFFICES ASSUME NEW p, p \in PagesOf(hd, OwnFrames), p \in P PROVE FALSE
      BY <2>2, Zenon
    <3>1. PICK k \in DOMAIN hd : hd[k].type \in OwnFrames /\ p \in hd[k].pages
      BY InPagesOf, Zenon
    <3>2. k # h
      BY <1>2, <2>2, <3>1, Zenon
    <3>3. hd[h].pages \cap hd[k].pages = {}
      BY <3>2, HandlesApart, Zenon
    <3> QED BY <1>2, <3>1, <3>3, Zenon
  <2> QED BY <2>1, <2>2, Zenon
<1> HIDE DEF F
<1>6. n - Cardinality(F) = Cardinality(PagesOf(hn, OwnFrames))
  <2> DEFINE A == PagesOf(hd, OwnFrames)
  <2>1. IsFiniteSet(A)
    BY PagesFinite, Zenon
  <2>2. PagesOf(hn, OwnFrames) = A \ P /\ F = A \cap P /\ n = Cardinality(A)
    BY <1>3, <1>4, <1>5, Zenon
  <2> HIDE DEF A
  <2>3. Cardinality(A \ P) = Cardinality(A) - Cardinality(A \cap P)
    BY <2>1, FS_Difference, Zenon
  <2> QED BY <2>2, <2>3, Zenon
<1>7. {p \in Page : mn[p] = "frame"} = PagesOf(hn, OwnFrames)
  BY <1>1, <1>3, <1>4
<1>8. PagesOf(hn, {"MEMORY_MAPPING"}) \subseteq {p \in Page : mn[p] = "phys"}
  BY <1>1, <1>3, <1>4, Zenon
<1>9. {p \in Page : mn[p] = "phys"} \subseteq PagesOf(hn, {"MEMORY_MAPPING", "IDENTITY_MAP"})
  BY <1>1, <1>3, <1>4, Zenon
<1>10. Mapped(hn, mn, n - Cardinality(F))
  BY <1>6, <1>7, <1>8, <1>9, Zenon DEF Mapped
<1> QED BY <1>1, <1>10, Zenon DEF hn, mn, P, F

------------------------------------------------------------------------------
(* Steps on descriptors.                                                   *)

\* The assignments of type and paddings.
LEMMA TakeMarks ==
  ASSUME NEW f, List(f), NEW i \in DOMAIN f, NEW type, NEW up, NEW low
  PROVE  Marked([f EXCEPT ![i].type = type, ![i].up = up, ![i].low = low], f, i, type, up, low)
<1> DEFINE e == [f EXCEPT ![i].type = type, ![i].up = up, ![i].low = low]
<1>1. f = [k \in DOMAIN f |-> f[k]] /\ f[i] \in Descriptor
  BY Zenon DEF List
<1>2. e = [k \in DOMAIN f |-> IF k = i THEN [f[i] EXCEPT !.type = type, !.up = up, !.low = low]
                              ELSE f[k]]
  BY <1>1, Zenon
<1>3. [f[i] EXCEPT !.type = type, !.up = up, !.low = low] = Mark(f[i], type, up, low)
  BY Zenon DEF Mark
<1>4. Mark(f[i], type, up, low)
        = Desc(f[i].start, f[i].size, up, low, type, f[i].next, f[i].prev, f[i].is_from_heap)
  BY <1>1, Whole, MarkIs
<1> HIDE DEF e
<1>5. Marked(e, f, i, type, up, low)
  BY <1>2, <1>3, <1>4, Zenon DEF Marked
<1> QED BY <1>5, Zenon DEF e

\* The assignments of deallocate_kernel_virtual_memory.
LEMMA FreeMarks ==
  ASSUME NEW f, List(f), NEW i \in DOMAIN f, NEW type
  PROVE  Marked([f EXCEPT ![i].type = type, ![i].low = 0, ![i].up = 0], f, i, type, 0, 0)
<1> DEFINE e == [f EXCEPT ![i].type = type, ![i].low = 0, ![i].up = 0]
<1>1. f = [k \in DOMAIN f |-> f[k]] /\ f[i] \in Descriptor
  BY Zenon DEF List
<1>2. e = [k \in DOMAIN f |-> IF k = i THEN [f[i] EXCEPT !.type = type, !.low = 0, !.up = 0]
                              ELSE f[k]]
  BY <1>1, Zenon
<1>3. [f[i] EXCEPT !.type = type, !.low = 0, !.up = 0] = Release(f[i], type, 0, 0)
  BY Zenon DEF Release
<1>4. Release(f[i], type, 0, 0)
        = Desc(f[i].start, f[i].size, 0, 0, type, f[i].next, f[i].prev, f[i].is_from_heap)
  BY <1>1, Whole, ReleaseIs
<1> HIDE DEF e
<1>5. Marked(e, f, i, type, 0, 0)
  BY <1>2, <1>3, <1>4, Zenon DEF Marked
<1> QED BY <1>5, Zenon DEF e

\* The assignments of identity_map and of the expansions, each of one field.
LEMMA FieldMarks ==
  ASSUME NEW f, List(f), NEW i \in DOMAIN f
  PROVE  /\ \A type : Marked([f EXCEPT ![i].type = type], f, i, type, f[i].up, f[i].low)
         /\ \A n : Marked([f EXCEPT ![i].up = @ - n], f, i, f[i].type, f[i].up - n, f[i].low)
         /\ \A n : Marked([f EXCEPT ![i].low = @ - n], f, i, f[i].type, f[i].up, f[i].low - n)
<1>1. f = [k \in DOMAIN f |-> f[k]] /\ f[i] \in Descriptor
  BY Zenon DEF List
<1>2. f[i] = Desc(f[i].start, f[i].size, f[i].up, f[i].low, f[i].type, f[i].next, f[i].prev,
                  f[i].is_from_heap)
  BY <1>1, Whole, Zenon
<1>3. ASSUME NEW x
      PROVE  /\ [f[i] EXCEPT !.type = x] = Desc(f[i].start, f[i].size, f[i].up, f[i].low, x,
                                                f[i].next, f[i].prev, f[i].is_from_heap)
             /\ [f[i] EXCEPT !.up = x] = Desc(f[i].start, f[i].size, x, f[i].low, f[i].type,
                                              f[i].next, f[i].prev, f[i].is_from_heap)
             /\ [f[i] EXCEPT !.low = x] = Desc(f[i].start, f[i].size, f[i].up, x, f[i].type,
                                               f[i].next, f[i].prev, f[i].is_from_heap)
  BY <1>2 DEF Desc
<1>4. ASSUME NEW x
      PROVE  /\ [f EXCEPT ![i].type = x] = [k \in DOMAIN f |->
                   IF k = i THEN [f[i] EXCEPT !.type = x] ELSE f[k]]
             /\ [f EXCEPT ![i].up = x] = [k \in DOMAIN f |->
                   IF k = i THEN [f[i] EXCEPT !.up = x] ELSE f[k]]
             /\ [f EXCEPT ![i].low = x] = [k \in DOMAIN f |->
                   IF k = i THEN [f[i] EXCEPT !.low = x] ELSE f[k]]
  BY <1>1, Zenon
<1>5. ASSUME NEW type
      PROVE  Marked([f EXCEPT ![i].type = type], f, i, type, f[i].up, f[i].low)
  BY <1>3, <1>4, Zenon DEF Marked
<1>6. ASSUME NEW n
      PROVE  Marked([f EXCEPT ![i].up = @ - n], f, i, f[i].type, f[i].up - n, f[i].low)
  <2>1. [f EXCEPT ![i].up = @ - n] = [f EXCEPT ![i].up = f[i].up - n]
    BY <1>1, Zenon
  <2> QED BY <1>3, <1>4, <2>1, Zenon DEF Marked
<1>7. ASSUME NEW n
      PROVE  Marked([f EXCEPT ![i].low = @ - n], f, i, f[i].type, f[i].up, f[i].low - n)
  <2>1. [f EXCEPT ![i].low = @ - n] = [f EXCEPT ![i].low = f[i].low - n]
    BY <1>1, Zenon
  <2> QED BY <1>3, <1>4, <2>1, Zenon DEF Marked
<1> QED BY <1>5, <1>6, <1>7, Zenon

\* The descriptors of other handles and jobs are not those of a range that is taken.
LEMMA TakenIsNew ==
  ASSUME NEW desc, NEW hd, NEW jb, List(desc), Handles(desc, hd, jb), NEW e, NEW at, NEW start,
         NEW size, NEW type, NEW up, NEW low, Taken(e, desc, at, start, size, type, up, low),
         at # NULL
  PROVE  at \notin DOMAIN hd /\ Kept(e, desc, at) /\ \A k \in CPU : jb[k].h # at
<1>1. at \in DOMAIN desc => desc[at].type \in FreeTypes
  BY Zenon DEF Taken
<1>2. Kept(e, desc, at)
  BY Zenon DEF Taken, Kept
<1>3. at \notin DOMAIN hd
  BY <1>1, Zenon DEF Handles, HandleOK
<1>4. ASSUME NEW k \in CPU
      PROVE  jb[k].h # at
  BY <1>1, JobHandle
<1> QED BY <1>2, <1>3, <1>4, Zenon

\* The usable pages of a range that is taken.
LEMMA TakenUsable ==
  ASSUME NEW e, NEW desc, NEW at, NEW start, NEW size, NEW type, NEW up, NEW low,
         Taken(e, desc, at, start, size, type, up, low)
  PROVE  Usable(e[at]) = Pages(start + low, size - up - low)
BY Zenon DEF Taken, Usable, get_no_padding_start_addr, get_no_padding_size

\* The locked part of an operation that takes a range keeps the invariant.
LEMMA TakeStep ==
  ASSUME IInv, NEW c \in CPU, Ready(c), NEW i \in DOMAIN vm.desc, vm.desc[i].type \in FreeTypes,
         NEW start, NEW size, NEW r, Cut(r, vm, i, start, size),
         NEW type \in OwnFrames \cup {"MEMORY_MAPPING"}, NEW up \in Nat, NEW low \in Nat,
         up + low <= size, NEW kind, kind = (IF type \in OwnFrames THEN "frame" ELSE "phys"),
         NEW advance, Take(c, r, type, up, low, kind, advance)
  PROVE  IInv' /\ vm'.panic = vm.panic
<1> DEFINE e == [r.v.desc EXCEPT ![r.at].type = type, ![r.at].up = up, ![r.at].low = low]
           v == WithDesc(r.v, e)
           d == v.desc[r.at]
           j == [h |-> r.at, pages |-> Usable(d), kind |-> kind, type |-> type,
                 range |-> ShotDown(get_no_padding_start_addr(d), get_no_padding_size(d), advance)]
<1>1. Sound(vm) /\ List(vm.desc) /\ Handles(vm.desc, held, job) /\ vm.panic = "none"
      /\ job[c] = NoJob
  BY Zenon DEF IInv, ListInv, Sound, HandleInv, Ready
<1>2. List(r.v.desc) /\ r.at \in DOMAIN r.v.desc
  BY Zenon DEF Cut, CutOf
<1>3. Marked(e, r.v.desc, r.at, type, up, low)
  BY <1>2, TakeMarks, Zenon
<1>4. type \in Type \ FreeTypes
  BY Zenon DEF Type, FreeTypes, OwnFrames
<1>5. /\ vm' = IF v.panic = "none" THEN v ELSE Kpanic(vm, v.panic)
      /\ job' = IF v.panic # "none" THEN job ELSE [job EXCEPT ![c] = j]
      /\ UNCHANGED <<pt, frames, held, locked>>
  BY Zenon DEF Take, Usable
<1> HIDE DEF e
<1>6. /\ Sound(v) /\ Taken(e, vm.desc, r.at, start, size, type, up, low)
      /\ v.desc = e /\ v.panic = vm.panic
  <2>1. WithDesc(r.v, e) = v
    BY Zenon
  <2> HIDE DEF v
  <2>2. Takes(WithDesc(r.v, e), vm, e, r.at, start, size, type, up, low)
    BY <1>1, <1>3, <1>4, TakeEffect, Zenon
  <2> QED BY <2>1, <2>2, Zenon DEF Takes
<1>7. d = e[r.at]
  BY <1>6, Zenon
<1> HIDE DEF v, d
<1>8. vm' = v /\ job' = [job EXCEPT ![c] = j]
  BY <1>1, <1>5, <1>6, Zenon
<1>9. List(e) /\ r.at \in DOMAIN e /\ r.at # NULL
  <2>1. List(e) /\ r.at \in DOMAIN e
    BY <1>6, Zenon DEF Sound, Taken
  <2> QED BY <2>1, ListFacts, Zenon
<1>10. r.at \notin DOMAIN held /\ Kept(e, vm.desc, r.at) /\ \A k \in CPU : job[k].h # r.at
  BY <1>1, <1>6, <1>9, TakenIsNew
<1>11. JobOK(e, held, j)
  <2>1. j.h = r.at /\ j.pages = Usable(d) /\ j.kind = kind /\ j.type = type
        /\ j = [h |-> j.h, pages |-> j.pages, kind |-> j.kind, type |-> j.type, range |-> j.range]
    BY Zenon
  <2>2. HeldPages(held, r.at) = {}
    BY <1>10, Zenon DEF HeldPages
  <2>3. e[r.at].type = type
    BY <1>6, Zenon DEF Taken
  <2> HIDE DEF j
  <2> QED BY <1>7, <1>9, <2>1, <2>2, <2>3, Zenon DEF JobOK
<1>12. j.h = r.at
  BY Zenon
<1> HIDE DEF j
<1>13. Handles(e, held, [job EXCEPT ![c] = j])
  BY <1>1, <1>9, <1>10, <1>11, <1>12, JobStarts, Zenon
<1>14. ListInv' /\ HandleInv' /\ vm'.panic = vm.panic
  BY <1>5, <1>6, <1>8, <1>13, Zenon DEF ListInv, HandleInv
<1>15. MapInv'
  BY <1>5, Zenon DEF IInv, MapInv
<1> QED BY <1>14, <1>15, Zenon DEF IInv

\* A kpanic leaves the list as it is.
LEMMA PanicSound ==
  ASSUME NEW v, Sound(v), NEW error \in {"VMM_ERROR", "FAILED_ASSERT"}
  PROVE  Sound(Kpanic(v, error)) /\ Kpanic(v, error).desc = v.desc
         /\ (v.panic = "none" => Kpanic(v, error).panic = error)
<1> DEFINE w == Kpanic(v, error)
<1>1. /\ w.desc = v.desc /\ w.head = v.head /\ w.bump = v.bump /\ w.heap = v.heap
      /\ w.panic = IF v.panic = "none" THEN error ELSE v.panic
  BY Zenon DEF Kpanic, VM
<1> HIDE DEF w
<1>2. Sound(w)
  BY <1>1, Zenon DEF Sound, Manager
<1> QED BY <1>1, <1>2, Zenon DEF w

\* An operation that panics with the lock taken changes nothing else.
LEMMA PanicStep ==
  ASSUME IInv, NEW c \in CPU, Ready(c), NEW error \in {"VMM_ERROR", "FAILED_ASSERT"}, NEW i,
         NEW type, NEW up, NEW low, NEW kind, NEW advance, NEW r,
         r = [v |-> Kpanic(vm, error), at |-> i], Take(c, r, type, up, low, kind, advance)
  PROVE  IInv'
<1> DEFINE e == [r.v.desc EXCEPT ![r.at].type = type, ![r.at].up = up, ![r.at].low = low]
           v == WithDesc(r.v, e)
<1>1. Sound(vm) /\ vm.panic = "none"
  BY Zenon DEF IInv, ListInv, Ready
<1>2. r.v = Kpanic(vm, error)
  BY Zenon
<1>3. /\ v.panic # "none" => vm' = Kpanic(vm, v.panic) /\ job' = job
      /\ UNCHANGED <<pt, frames, held, locked>>
  BY Zenon DEF Take
<1> HIDE DEF e
<1>4. v.panic = error
  <2>1. v.panic = r.v.panic
    BY Zenon DEF WithDesc, VM
  <2> QED BY <1>1, <1>2, <2>1, PanicSound, Zenon
<1> HIDE DEF v
<1>5. vm' = Kpanic(vm, error) /\ job' = job /\ UNCHANGED <<pt, frames, held, locked>>
  BY <1>3, <1>4, Zenon
<1>6. Sound(vm') /\ vm'.desc = vm.desc
  BY <1>1, <1>5, PanicSound, Zenon
<1>7. ListInv' /\ HandleInv' /\ MapInv'
  BY <1>5, <1>6, Zenon DEF IInv, ListInv, HandleInv, MapInv
<1> QED BY <1>7, Zenon DEF IInv

\* A CPU that may allocate has room for the two descriptors of a cut.
LEMMA AllocationRoom ==
  ASSUME CanAllocate
  PROVE  RoomFor(vm, 2)
BY Zenon DEF CanAllocate, RoomFor

\* memory_map and allocate_kernel_virtual_memory: they keep the invariant, and
\* panic only when no range is large enough.
LEMMA AllocateStep ==
  ASSUME IInv, NEW c \in CPU, NEW size \in Nat \ {0}, NEW up \in Nat, NEW low \in Nat,
         NEW type \in OwnFrames \cup {"MEMORY_MAPPING"},
         NEW kind, kind = (IF type \in OwnFrames THEN "frame" ELSE "phys"),
         NEW advance, AllocateRange(c, size, type, up, low, kind, advance)
  PROVE  /\ IInv'
         /\ (\E k \in DOMAIN vm.desc : vm.desc[k].type = "FREE" /\ vm.desc[k].size >= size + up + low)
              => vm'.panic = vm.panic
<1> DEFINE n == size + up + low
           stop == {k \in DOMAIN vm.desc : vm.desc[k].size >= n /\ vm.desc[k].type = "FREE"}
           r(i) == IF vm.desc[i].type # "FREE" THEN [v |-> Kpanic(vm, "VMM_ERROR"), at |-> i]
                   ELSE cut_descriptor_start(vm, i, n)
<1>1. Sound(vm) /\ List(vm.desc) /\ vm.head \in DOMAIN vm.desc /\ vm.desc[vm.head].prev = NULL
  BY Zenon DEF IInv, ListInv, Sound, Manager
<1>2. PICK i : i = FirstFit(vm, n)
  BY Zenon
<1>3. Ready(c) /\ CanAllocate /\ Take(c, r(i), type, up, low, kind, advance)
  BY <1>2, Zenon DEF AllocateRange
<1>4. RoomFor(vm, 2)
  BY <1>3, AllocationRoom, Zenon
<1>5. n \in Nat \ {0} /\ up + low <= n
  OBVIOUS
<1>6. i = WalkTo(vm, stop)
  BY <1>2, Zenon DEF FirstFit
<1> HIDE DEF n
<1>7. i \in DOMAIN vm.desc
  <2> HIDE DEF stop
  <2> QED BY <1>1, <1>6, Walk, Zenon
<1>8. (\E k \in DOMAIN vm.desc : vm.desc[k].type = "FREE" /\ vm.desc[k].size >= n) => i \in stop
  <2> SUFFICES ASSUME NEW k \in DOMAIN vm.desc, vm.desc[k].type = "FREE", vm.desc[k].size >= n
               PROVE  i \in stop
    BY Zenon
  <2>1. k \in stop
    BY Zenon
  <2> HIDE DEF stop
  <2> QED BY <1>1, <1>6, <2>1, WalkFinds, Zenon
<1>9. CASE vm.desc[i].type # "FREE"
  <2>1. i \notin stop
    BY <1>9, Zenon
  <2>2. r(i) = [v |-> Kpanic(vm, "VMM_ERROR"), at |-> i]
    BY <1>9, Zenon
  <2> HIDE DEF stop, r
  <2>3. IInv'
    BY <1>3, <2>2, PanicStep
  <2> QED BY <1>8, <2>1, <2>3, Zenon DEF n
<1>10. CASE vm.desc[i].type = "FREE" /\ vm.desc[i].size < n
  <2>1. i \notin stop
    <3>1. vm.desc[i].size \in Nat
      BY <1>1, <1>7, ListFacts, Zenon
    <3> QED BY <1>5, <1>10, <3>1
  <2>2. r(i) = [v |-> Kpanic(vm, "FAILED_ASSERT"), at |-> i]
    BY <1>10, Zenon DEF cut_descriptor_start
  <2> HIDE DEF stop, r
  <2>3. IInv'
    BY <1>3, <2>2, PanicStep, Zenon
  <2> QED BY <1>8, <2>1, <2>3, Zenon DEF n
<1>11. CASE vm.desc[i].type = "FREE" /\ ~(vm.desc[i].size < n)
  <2>1. r(i) = cut_descriptor_start(vm, i, n)
    BY <1>11, Zenon
  <2> HIDE DEF r, stop
  <2>2. n <= vm.desc[i].size /\ vm.desc[i].type \in FreeTypes
    <3>1. vm.desc[i].size \in Nat
      BY <1>1, <1>7, ListFacts, Zenon
    <3> QED BY <1>5, <1>11, <3>1 DEF FreeTypes
  <2>3. Cut(r(i), vm, i, vm.desc[i].start, n)
    BY <1>1, <1>4, <1>5, <1>7, <2>1, <2>2, CutStartEffect, Zenon
  <2>4. IInv' /\ vm'.panic = vm.panic
    BY <1>3, <1>5, <1>7, <2>2, <2>3, TakeStep, Zenon
  <2> QED BY <2>4, Zenon
<1> QED BY <1>9, <1>10, <1>11, Zenon

\* The walk of identity_map and copy_memory_mapping_from_paging_structure.
LEMMA FindIn ==
  ASSUME NEW v, Sound(v), NEW addr
  PROVE  FindContaining(v, addr) \in DOMAIN v.desc
<1> DEFINE stop == {k \in DOMAIN v.desc : v.desc[k].start + v.desc[k].size > addr}
<1>1. List(v.desc) /\ v.head \in DOMAIN v.desc /\ v.desc[v.head].prev = NULL
  BY Zenon DEF Sound, Manager
<1>2. FindContaining(v, addr) = WalkTo(v, stop)
  BY Zenon DEF FindContaining
<1> HIDE DEF stop
<1> QED BY <1>1, <1>2, Walk, Zenon

\* copy_memory_mapping_from_paging_structure never panics.
LEMMA CopyStep ==
  ASSUME IInv, NEW c \in CPU, NEW vaddr \in Nat, NEW size \in Nat \ {0},
         copy_memory_mapping(c, vaddr, size)
  PROVE  IInv' /\ vm'.panic = vm.panic
<1> DEFINE r(i) == cut_descriptor(vm, i, vaddr, size)
<1>1. Sound(vm)
  BY Zenon DEF IInv, ListInv
<1>2. PICK i : i = FindContaining(vm, vaddr)
  BY Zenon
<1>3. /\ Ready(c) /\ CanAllocate
      /\ Contains(vm.desc[i], vaddr, size) /\ vm.desc[i].type = "FREE"
      /\ Take(c, r(i), "MEMORY_MAPPING", 0, 0, "phys", FALSE)
  BY <1>2, Zenon DEF copy_memory_mapping
<1>4. RoomFor(vm, 2) /\ i \in DOMAIN vm.desc /\ vm.desc[i].type \in FreeTypes
  BY <1>1, <1>2, <1>3, AllocationRoom, FindIn, Zenon DEF FreeTypes
<1>5. Cut(r(i), vm, i, vaddr, size)
  BY <1>1, <1>3, <1>4, CutEffect, Zenon
<1> HIDE DEF r
<1> DEFINE type == "MEMORY_MAPPING"
           kind == "phys"
<1>6. /\ type \in OwnFrames \cup {"MEMORY_MAPPING"}
      /\ kind = IF type \in OwnFrames THEN "frame" ELSE "phys"
  BY Zenon DEF OwnFrames
<1>7. 0 + 0 <= size /\ 0 \in Nat
  OBVIOUS
<1>8. Take(c, r(i), type, 0, 0, kind, FALSE)
  BY <1>3, Zenon
<1> HIDE DEF type, kind
<1> QED BY <1>3, <1>4, <1>5, <1>6, <1>7, <1>8, TakeStep, Zenon

\* identity_map never panics.
LEMMA IdentityStep ==
  ASSUME IInv, NEW c \in CPU, NEW paddr \in Nat, NEW size \in Nat \ {0},
         identity_map(c, paddr, size)
  PROVE  IInv' /\ vm'.panic = vm.panic
<1>1. Sound(vm) /\ List(vm.desc) /\ Handles(vm.desc, held, job) /\ MapInv
  BY Zenon DEF IInv, ListInv, HandleInv, Sound
<1>2. PICK i : i = FindContaining(vm, paddr)
  BY Zenon
<1>3. PICK r : r = cut_descriptor(vm, i, paddr, size)
  BY Zenon
<1> DEFINE type == "IDENTITY_MAP"
           f == r.v.desc
           e == [f EXCEPT ![r.at].type = type]
           x == [type |-> type, pages |-> Pages(paddr, size)]
<1>4. /\ Ready(c) /\ CanAllocate
      /\ Contains(vm.desc[i], paddr, size) /\ vm.desc[i].type = "IDENTITY_MAP_FREE"
      /\ vm' = IF r.v.panic # "none" THEN Kpanic(vm, r.v.panic) ELSE WithDesc(r.v, e)
      /\ held' = IF r.v.panic # "none" THEN held ELSE Bind(held, r.at, x)
      /\ UNCHANGED <<pt, frames, job, locked>>
  BY <1>2, <1>3, Zenon DEF identity_map
<1>5. RoomFor(vm, 2) /\ i \in DOMAIN vm.desc /\ vm.desc[i].type \in FreeTypes
  BY <1>1, <1>2, <1>4, AllocationRoom, FindIn, Zenon DEF FreeTypes
<1>6. Cut(r, vm, i, paddr, size)
  BY <1>1, <1>3, <1>4, <1>5, CutEffect, Zenon
<1>7. vm.panic = "none" /\ r.v.panic = "none"
  BY <1>4, <1>6, Zenon DEF Ready, Cut
<1>8. List(f) /\ r.at \in DOMAIN f /\ f[r.at].up = 0 /\ f[r.at].low = 0
  BY <1>6, Zenon DEF Cut, CutOf, PartOf
<1>9. Marked(e, f, r.at, type, 0, 0)
  <2> HIDE DEF f, type
  <2>1. Marked(e, f, r.at, type, f[r.at].up, f[r.at].low)
    BY <1>8, FieldMarks, Zenon
  <2> QED BY <1>8, <2>1, Zenon
<1>10. type \in Type \ FreeTypes /\ 0 + 0 <= size /\ 0 \in Nat
  BY DEF Type, FreeTypes
<1> HIDE DEF type, e
<1>11. Takes(WithDesc(r.v, e), vm, e, r.at, paddr, size, type, 0, 0)
  BY <1>1, <1>5, <1>6, <1>9, <1>10, TakeEffect, Zenon
<1>12. /\ Sound(vm') /\ Taken(e, vm.desc, r.at, paddr, size, type, 0, 0) /\ vm'.desc = e
       /\ vm'.panic = vm.panic /\ held' = Bind(held, r.at, x)
  BY <1>4, <1>7, <1>11 DEF Takes
<1>13. List(e) /\ r.at \in DOMAIN e /\ r.at # NULL /\ e[r.at].type = type
  <2>1. List(e) /\ r.at \in DOMAIN e /\ e[r.at].type = type
    BY <1>12, Zenon DEF Sound, Taken
  <2> QED BY <2>1, ListFacts, Zenon
<1>14. r.at \notin DOMAIN held /\ Kept(e, vm.desc, r.at) /\ \A k \in CPU : job[k].h # r.at
  BY <1>1, <1>12, <1>13, TakenIsNew
<1>15. x = [type |-> e[r.at].type, pages |-> Usable(e[r.at])]
  <2>1. Usable(e[r.at]) = Pages(paddr + 0, size - 0 - 0)
    BY <1>12, TakenUsable
  <2>2. paddr + 0 = paddr /\ size - 0 - 0 = size
    OBVIOUS
  <2> QED BY <1>13, <2>1, <2>2, Zenon
<1>16. HandleInv'
  <2>1. Handles(e, Bind(held, r.at, [type |-> e[r.at].type, pages |-> Usable(e[r.at])]), job)
    BY <1>1, <1>10, <1>13, <1>14, HandleStarts, Zenon
  <2> HIDE DEF x
  <2> QED BY <1>4, <1>12, <1>15, <2>1, Zenon DEF HandleInv
<1>17. MapInv'
  <2>1. Mapped(held, pt, frames) /\ pt \in PageMap /\ locked \in BOOLEAN
    BY <1>1, Zenon DEF MapInv
  <2>2. Mapped(Bind(held, r.at, x), pt, frames)
    <3> DEFINE P == Pages(paddr, size)
    <3>1. x = [type |-> "IDENTITY_MAP", pages |-> P]
      BY Zenon DEF type
    <3> HIDE DEF x, P
    <3> QED BY <1>14, <2>1, <3>1, MapReserved
  <2> QED BY <1>4, <1>12, <2>1, <2>2, Zenon DEF MapInv
<1> QED BY <1>12, <1>16, <1>17, Zenon DEF IInv, ListInv

\* load_identity_map_pages.
LEMMA LoadStep ==
  ASSUME IInv, NEW c \in CPU, NEW h, NEW paddr, NEW size, load_identity_map_pages(c, h, paddr, size)
  PROVE  IInv' /\ vm'.panic = vm.panic
<1> DEFINE P == Pages(paddr, size)
           mn == [p \in Page |-> IF p \in P THEN "phys" ELSE pt[p]]
<1>1. List(vm.desc) /\ Handles(vm.desc, held, job) /\ Mapped(held, pt, frames) /\ pt \in PageMap
      /\ locked \in BOOLEAN
  BY Zenon DEF IInv, ListInv, HandleInv, MapInv, Sound
<1>2. /\ h \in DOMAIN held /\ held[h].type = "IDENTITY_MAP" /\ P \subseteq held[h].pages
      /\ pt' = mn /\ UNCHANGED <<vm, frames, held, job, locked>>
  BY Zenon DEF load_identity_map_pages
<1>3. mn \in PageMap /\ Mapped(held, mn, frames)
  <2> HIDE DEF P
  <2> QED BY <1>1, <1>2, MapIdentity
<1> HIDE DEF mn
<1>4. ListInv' /\ HandleInv'
  BY <1>2, Zenon DEF IInv, ListInv, HandleInv
<1>5. MapInv'
  BY <1>1, <1>2, <1>3, Zenon DEF MapInv
<1> QED BY <1>2, <1>4, <1>5, Zenon DEF IInv

\* The mapping of a CPU's pages, after it has released the lock.
LEMMA MapStep ==
  ASSUME IInv, NEW c \in CPU, MapPages(c)
  PROVE  IInv' /\ vm'.panic = vm.panic
<1> DEFINE j == job[c]
           mn == [p \in Page |-> IF p \in j.pages THEN j.kind ELSE pt[p]]
           hn == Bind(held, j.h, [type |-> j.type, pages |-> HeldPages(held, j.h) \cup j.pages])
           n == IF j.kind = "frame" THEN Cardinality(j.pages) ELSE 0
<1>1. List(vm.desc) /\ Handles(vm.desc, held, job) /\ Mapped(held, pt, frames) /\ pt \in PageMap
      /\ locked \in BOOLEAN
  BY Zenon DEF IInv, ListInv, HandleInv, MapInv, Sound
<1>2. /\ j # NoJob /\ pt' = mn /\ frames' = frames + n /\ held' = hn
      /\ job' = [job EXCEPT ![c] = NoJob] /\ UNCHANGED <<vm, locked>>
  BY Zenon DEF MapPages, HeldPages
<1>3. mn \in PageMap /\ Mapped(hn, mn, frames + n)
  BY <1>1, <1>2, MapJob
<1>4. Handles(vm.desc, hn, [job EXCEPT ![c] = NoJob])
  BY <1>1, <1>2, JobDone, Zenon
<1> HIDE DEF mn, hn, n
<1>5. ListInv' /\ HandleInv'
  BY <1>2, <1>4 DEF IInv, ListInv, HandleInv
<1>6. MapInv'
  BY <1>1, <1>2, <1>3, Zenon DEF MapInv
<1> QED BY <1>2, <1>5, <1>6, Zenon DEF IInv

\* The heap comes up.
LEMMA HeapStep ==
  ASSUME IInv, HeapInitialized
  PROVE  IInv' /\ vm'.panic = vm.panic
<1>1. /\ vm' = VM(vm.desc, vm.head, vm.bump, TRUE, vm.panic)
      /\ UNCHANGED <<pt, frames, held, job, locked>>
  BY Zenon DEF HeapInitialized
<1>2. /\ vm'.desc = vm.desc /\ vm'.head = vm.head /\ vm'.bump = vm.bump /\ vm'.heap = TRUE
      /\ vm'.panic = vm.panic
  BY <1>1, Zenon DEF VM
<1>3. Sound(vm')
  BY <1>2, Zenon DEF IInv, ListInv, Sound, Manager
<1>4. ListInv' /\ HandleInv' /\ MapInv'
  BY <1>1, <1>2, <1>3, Zenon DEF IInv, ListInv, HandleInv, MapInv
<1> QED BY <1>2, <1>4, Zenon DEF IInv

\* A range in use whose paddings change.
LEMMA RepadSound ==
  ASSUME NEW v, Sound(v), NEW h \in DOMAIN v.desc, v.desc[h].type \notin FreeTypes,
         NEW up \in Nat, NEW low \in Nat, up + low <= v.desc[h].size,
         NEW e, Marked(e, v.desc, h, v.desc[h].type, up, low)
  PROVE  /\ Sound(WithDesc(v, e)) /\ WithDesc(v, e).desc = e /\ WithDesc(v, e).panic = v.panic
         /\ Kept(e, v.desc, h) /\ List(e) /\ h \in DOMAIN e
         /\ e[h].start = v.desc[h].start /\ e[h].size = v.desc[h].size
         /\ e[h].type = v.desc[h].type /\ e[h].up = up /\ e[h].low = low
<1> DEFINE f == v.desc
           w == WithDesc(v, e)
<1>1. Manager(v) /\ List(f) /\ f[v.head].prev = NULL /\ Merged(f, NULL)
      /\ \A k \in DOMAIN f : Padded(f[k])
  BY Zenon DEF Sound
<1>2. /\ w.desc = e /\ w.head = v.head /\ w.bump = v.bump /\ w.heap = v.heap /\ w.panic = v.panic
  BY Zenon DEF WithDesc, VM
<1>3. f[h].type \in Type
  BY <1>1, ListFacts, Fields, Zenon DEF Type
<1> HIDE DEF w
<1>4. /\ List(e) /\ DOMAIN e = DOMAIN f
      /\ e[h].start = f[h].start /\ e[h].size = f[h].size /\ e[h].type = f[h].type
      /\ e[h].up = up /\ e[h].low = low
      /\ \A k \in DOMAIN f : e[k].next = f[k].next /\ e[k].prev = f[k].prev
      /\ \A k \in DOMAIN f \ {h} : e[k] = f[k]
  <2> DEFINE type == f[h].type
  <2>1. type \in Type /\ Marked(e, f, h, type, up, low)
    BY <1>3, Zenon
  <2> HIDE DEF type, f
  <2>2. /\ List(e) /\ DOMAIN e = DOMAIN f
        /\ e[h].start = f[h].start /\ e[h].size = f[h].size /\ e[h].type = type
        /\ e[h].up = up /\ e[h].low = low
        /\ \A k \in DOMAIN f : e[k].next = f[k].next /\ e[k].prev = f[k].prev
        /\ \A k \in DOMAIN f \ {h} : e[k] = f[k]
    <3>1. h \in DOMAIN f
      BY Zenon DEF f
    <3> QED BY <1>1, <2>1, <3>1, MarkedList
  <2> QED BY <2>2, Zenon DEF type
<1>5. \A k \in DOMAIN e : Padded(e[k])
  <2> SUFFICES ASSUME NEW k \in DOMAIN e PROVE Padded(e[k])
    BY Zenon
  <2>1. CASE k = h
    BY <1>4, <2>1, Zenon DEF Padded, FreeTypes
  <2>2. CASE k # h
    BY <1>1, <1>4, <2>2, Zenon
  <2> QED BY <2>1, <2>2, Zenon
<1>6. Merged(e, NULL)
  <2>1. \A k \in DOMAIN f : e[k].type = f[k].type
    BY <1>4, Zenon
  <2>2. \A k \in DOMAIN f : f[k].next # NULL => f[k].next \in DOMAIN f
    BY <1>1, ListFacts, Zenon
  <2> QED BY <1>1, <1>4, <2>1, <2>2 DEF Merged
<1>7. Manager(w) /\ e[w.head].prev = NULL
  BY <1>1, <1>2, <1>4, Zenon DEF Manager
<1>8. Sound(w)
  BY <1>2, <1>4, <1>5, <1>6, <1>7, Zenon DEF Sound
<1>9. Kept(e, f, h)
  BY <1>4, Zenon DEF Kept, SameRange
<1> QED BY <1>2, <1>4, <1>8, <1>9, Zenon DEF w

\* An expansion adds the pages P of its padding to the usable pages of h.
Widens(v, h, P) ==
    \E e : \E up, low \in Nat :
        /\ v = WithDesc(vm, e) /\ Marked(e, vm.desc, h, vm.desc[h].type, up, low)
        /\ up + low <= vm.desc[h].size
        /\ Pages(vm.desc[h].start + low, vm.desc[h].size - up - low) = P \cup Usable(vm.desc[h])
        /\ P \cap Usable(vm.desc[h]) = {}

\* An expansion keeps the invariant, whether it is refused or not.
LEMMA ExpandStep ==
  ASSUME IInv, NEW c \in CPU, NEW h, NEW size, NEW padding, NEW start, NEW v,
         Expand(c, h, size, padding, start, v),
         Owned(h) /\ Expandable(vm.desc[h], size, padding) => Widens(v, h, Pages(start, size))
  PROVE  IInv' /\ vm'.panic = vm.panic
<1> DEFINE P == Pages(start, size)
           j == [h |-> h, pages |-> P, kind |-> "frame", type |-> vm.desc[h].type,
                 range |-> ShotDown(start, size, TRUE)]
<1>1. Sound(vm) /\ List(vm.desc) /\ Handles(vm.desc, held, job) /\ MapInv
  BY Zenon DEF IInv, ListInv, HandleInv, Sound
<1>2. Ready(c) /\ Owned(h) /\ UNCHANGED <<pt, frames, held>>
  BY Zenon DEF Expand
<1>3. h \in DOMAIN held /\ \A k \in CPU : job[k].h # h
  BY <1>2, Zenon DEF Owned
<1>4. /\ h \in DOMAIN vm.desc /\ held[h] = [type |-> vm.desc[h].type, pages |-> held[h].pages]
      /\ vm.desc[h].type \notin FreeTypes /\ held[h].pages = Usable(vm.desc[h])
  BY <1>1, <1>3, Zenon DEF Handles, HandleOK
<1>5. CASE Expandable(vm.desc[h], size, padding)
  <2>1. vm' = v /\ job' = [job EXCEPT ![c] = j] /\ UNCHANGED locked
    BY <1>5, Zenon DEF Expand
  <2>2. PICK e : \E up, low \in Nat :
          /\ v = WithDesc(vm, e) /\ Marked(e, vm.desc, h, vm.desc[h].type, up, low)
          /\ up + low <= vm.desc[h].size
          /\ Pages(vm.desc[h].start + low, vm.desc[h].size - up - low) = P \cup Usable(vm.desc[h])
          /\ P \cap Usable(vm.desc[h]) = {}
    BY <1>2, <1>5, Zenon DEF Widens
  <2>3. PICK up \in Nat, low \in Nat :
          /\ v = WithDesc(vm, e) /\ Marked(e, vm.desc, h, vm.desc[h].type, up, low)
          /\ up + low <= vm.desc[h].size
          /\ Pages(vm.desc[h].start + low, vm.desc[h].size - up - low) = P \cup Usable(vm.desc[h])
          /\ P \cap Usable(vm.desc[h]) = {}
    BY <2>2, Zenon
  <2> HIDE DEF P
  <2>4. /\ Sound(v) /\ v.desc = e /\ v.panic = vm.panic
        /\ Kept(e, vm.desc, h) /\ List(e) /\ h \in DOMAIN e
        /\ e[h].start = vm.desc[h].start /\ e[h].size = vm.desc[h].size
        /\ e[h].type = vm.desc[h].type /\ e[h].up = up /\ e[h].low = low
    BY <1>1, <1>4, <2>3, RepadSound
  <2>5. Usable(e[h]) = P \cup Usable(vm.desc[h])
    <3>1. Usable(e[h]) = Pages(vm.desc[h].start + low, vm.desc[h].size - up - low)
      BY <2>4, Zenon DEF Usable, get_no_padding_start_addr, get_no_padding_size
    <3> QED BY <2>3, <3>1, Zenon
  <2>6. vm.desc[h].type \in OwnFrames
    BY <1>5, Zenon DEF Expandable
  <2>7. JobOK(e, held, j)
    <3>1. /\ j.h = h /\ j.pages = P /\ j.kind = "frame" /\ j.type = vm.desc[h].type
          /\ j = [h |-> j.h, pages |-> j.pages, kind |-> j.kind, type |-> j.type, range |-> j.range]
      BY Zenon
    <3>2. HeldPages(held, h) = Usable(vm.desc[h])
      BY <1>3, <1>4, Zenon DEF HeldPages
    <3> HIDE DEF j
    <3> QED BY <2>3, <2>4, <2>5, <2>6, <3>1, <3>2, Zenon DEF JobOK
  <2>8. j.h = h
    BY Zenon
  <2> HIDE DEF j
  <2>9. Handles(e, held, [job EXCEPT ![c] = j])
    <3>1. job[c] = NoJob
      BY <1>2, Zenon DEF Ready
    <3>2. held[h] = [type |-> e[h].type, pages |-> held[h].pages] /\ e[h].type \notin FreeTypes
      BY <1>4, <2>4, Zenon
    <3> QED BY <1>1, <1>3, <2>4, <2>7, <2>8, <3>1, <3>2, JobStarts, Zenon
  <2>10. ListInv' /\ HandleInv' /\ MapInv' /\ vm'.panic = vm.panic
    BY <1>1, <1>2, <2>1, <2>4, <2>9, Zenon DEF ListInv, HandleInv, MapInv
  <2> QED BY <2>10, Zenon DEF IInv
<1>6. CASE ~Expandable(vm.desc[h], size, padding)
  <2>1. locked' = TRUE /\ UNCHANGED <<vm, job>>
    BY <1>6, Zenon DEF Expand
  <2>2. ListInv' /\ HandleInv' /\ MapInv' /\ vm'.panic = vm.panic
    BY <1>1, <1>2, <2>1, Zenon DEF ListInv, HandleInv, MapInv
  <2> QED BY <2>2, Zenon DEF IInv
<1> QED BY <1>5, <1>6, Zenon

\* Two ranges, one behind the other.
LEMMA TwoRanges ==
  ASSUME NEW x \in Int, NEW y \in Int, NEW z \in Int, x <= y, y <= z
  PROVE  /\ (x .. y - 1) \cup (y .. z - 1) = x .. z - 1
         /\ (x .. y - 1) \cap (y .. z - 1) = {}
OBVIOUS

\* try_expand_vmem_top takes pages of the upper padding.
LEMMA TopStep ==
  ASSUME IInv, NEW c \in CPU, NEW h, NEW size \in Nat \ {0}, try_expand_vmem_top(c, h, size)
  PROVE  IInv' /\ vm'.panic = vm.panic
<1> DEFINE e == [vm.desc EXCEPT ![h].up = @ - size]
           v == WithDesc(vm, e)
           start == get_no_padding_start_addr(vm.desc[h]) + get_no_padding_size(vm.desc[h])
           padding == vm.desc[h].up
<1>1. List(vm.desc) /\ Handles(vm.desc, held, job) /\ \A k \in DOMAIN vm.desc : Padded(vm.desc[k])
  BY Zenon DEF IInv, ListInv, HandleInv, Sound
<1>2. Expand(c, h, size, padding, start, v)
  BY Zenon DEF try_expand_vmem_top
<1>3. ASSUME Owned(h), Expandable(vm.desc[h], size, padding)
      PROVE  Widens(v, h, Pages(start, size))
  <2>1. h \in DOMAIN vm.desc
    BY <1>1, <1>3, Zenon DEF Owned, Handles, HandleOK
  <2>2. PICK d : d = vm.desc[h]
    BY Zenon
  <2>3. /\ d.start \in Nat /\ d.size \in Nat /\ d.up \in Nat /\ d.low \in Nat
        /\ d.up + d.low <= d.size /\ size <= d.up
    BY <1>1, <1>3, <2>1, <2>2, ListFields, Zenon DEF Padded, Expandable
  <2>4. Marked(e, vm.desc, h, d.type, d.up - size, d.low)
    BY <1>1, <2>1, <2>2, FieldMarks, Zenon
  <2>5. d.up - size \in Nat /\ (d.up - size) + d.low <= d.size
    BY <2>3
  <2>6. start = d.start + d.low + (d.size - d.up - d.low)
    BY <2>2, Zenon DEF get_no_padding_start_addr, get_no_padding_size
  <2>7. Usable(d) = d.start + d.low .. d.start + d.low + (d.size - d.up - d.low) - 1
    BY Zenon DEF Usable, Pages, get_no_padding_start_addr, get_no_padding_size
  <2> HIDE DEF start, e
  <2>8. PICK x \in Int, y \in Int, z \in Int :
          x = d.start + d.low /\ y = start /\ z = start + size
    BY <2>3, <2>6
  <2>9. /\ Usable(d) = x .. y - 1 /\ Pages(start, size) = y .. z - 1 /\ x <= y /\ y <= z
        /\ Pages(d.start + d.low, d.size - (d.up - size) - d.low) = x .. z - 1
    <3>1. Usable(d) = x .. y - 1
      <4>1. d.start + d.low + (d.size - d.up - d.low) - 1 = y - 1
        BY <2>3, <2>6, <2>8
      <4> QED BY <2>7, <2>8, <4>1, Zenon
    <3>2. Pages(start, size) = y .. z - 1
      BY <2>8 DEF Pages
    <3>3. x <= y /\ y <= z
      BY <2>3, <2>6, <2>8
    <3>4. d.start + d.low + (d.size - (d.up - size) - d.low) - 1 = z - 1
      BY <2>3, <2>6, <2>8
    <3>5. Pages(d.start + d.low, d.size - (d.up - size) - d.low) = x .. z - 1
      BY <2>8, <3>4, Zenon DEF Pages
    <3> QED BY <3>1, <3>2, <3>3, <3>5, Zenon
  <2>10. /\ Pages(start, size) \cap Usable(d) = {}
         /\ Pages(d.start + d.low, d.size - (d.up - size) - d.low) = Pages(start, size) \cup Usable(d)
    BY <2>9, TwoRanges
  <2> QED BY <2>2, <2>3, <2>4, <2>5, <2>10, Zenon DEF Widens
<1> HIDE DEF v, start, padding
<1> QED BY <1>2, <1>3, ExpandStep, Zenon

\* try_expand_vmem_bottom takes pages of the lower padding.
LEMMA BottomStep ==
  ASSUME IInv, NEW c \in CPU, NEW h, NEW size \in Nat \ {0}, try_expand_vmem_bottom(c, h, size)
  PROVE  IInv' /\ vm'.panic = vm.panic
<1> DEFINE e == [vm.desc EXCEPT ![h].low = @ - size]
           v == WithDesc(vm, e)
           start == get_no_padding_start_addr(vm.desc[h]) - size
           padding == vm.desc[h].low
<1>1. List(vm.desc) /\ Handles(vm.desc, held, job) /\ \A k \in DOMAIN vm.desc : Padded(vm.desc[k])
  BY Zenon DEF IInv, ListInv, HandleInv, Sound
<1>2. Expand(c, h, size, padding, start, v)
  BY Zenon DEF try_expand_vmem_bottom
<1>3. ASSUME Owned(h), Expandable(vm.desc[h], size, padding)
      PROVE  Widens(v, h, Pages(start, size))
  <2>1. h \in DOMAIN vm.desc
    BY <1>1, <1>3, Zenon DEF Owned, Handles, HandleOK
  <2>2. PICK d : d = vm.desc[h]
    BY Zenon
  <2>3. /\ d.start \in Nat /\ d.size \in Nat /\ d.up \in Nat /\ d.low \in Nat
        /\ d.up + d.low <= d.size /\ size <= d.low
    BY <1>1, <1>3, <2>1, <2>2, ListFields, Zenon DEF Padded, Expandable
  <2>4. Marked(e, vm.desc, h, d.type, d.up, d.low - size)
    BY <1>1, <2>1, <2>2, FieldMarks
  <2>5. d.low - size \in Nat /\ d.up + (d.low - size) <= d.size
    BY <2>3
  <2>6. start = d.start + d.low - size
    <3>1. get_no_padding_start_addr(vm.desc[h]) = d.start + d.low
      BY <2>2, Zenon DEF get_no_padding_start_addr
    <3> QED BY <2>3, <3>1
  <2>7. Usable(d) = d.start + d.low .. d.start + d.low + (d.size - d.up - d.low) - 1
    BY Zenon DEF Usable, Pages, get_no_padding_start_addr, get_no_padding_size
  <2> HIDE DEF start, e
  <2>8. PICK x \in Int, y \in Int, z \in Int :
          x = start /\ y = d.start + d.low /\ z = d.start + d.low + (d.size - d.up - d.low)
    BY <2>3, <2>6
  <2>9. /\ Pages(start, size) = x .. y - 1 /\ Usable(d) = y .. z - 1 /\ x <= y /\ y <= z
        /\ Pages(d.start + (d.low - size), d.size - d.up - (d.low - size)) = x .. z - 1
    <3>1. Usable(d) = y .. z - 1
      <4>1. d.start + d.low + (d.size - d.up - d.low) - 1 = z - 1
        BY <2>3, <2>8
      <4> QED BY <2>7, <2>8, <4>1, Zenon
    <3>2. Pages(start, size) = x .. y - 1
      <4>1. start + size - 1 = y - 1
        BY <2>3, <2>6, <2>8
      <4> QED BY <2>8, <4>1, Zenon DEF Pages
    <3>3. x <= y /\ y <= z
      BY <2>3, <2>6, <2>8
    <3>4. /\ d.start + (d.low - size) = x
          /\ d.start + (d.low - size) + (d.size - d.up - (d.low - size)) - 1 = z - 1
      BY <2>3, <2>6, <2>8
    <3>5. Pages(d.start + (d.low - size), d.size - d.up - (d.low - size)) = x .. z - 1
      BY <3>4, Zenon DEF Pages
    <3> QED BY <3>1, <3>2, <3>3, <3>5, Zenon
  <2>10. /\ Pages(start, size) \cap Usable(d) = {}
         /\ Pages(d.start + (d.low - size), d.size - d.up - (d.low - size))
              = Pages(start, size) \cup Usable(d)
    BY <2>9, TwoRanges
  <2> QED BY <2>2, <2>3, <2>4, <2>5, <2>10, Zenon DEF Widens
<1> HIDE DEF v, start, padding
<1> QED BY <1>2, <1>3, ExpandStep, Zenon

\* A range that is freed has its range's free type, and may have free neighbours.
LEMMA FreedSound ==
  ASSUME NEW v, Sound(v), NEW h \in DOMAIN v.desc, NEW free, free = free_type(v.desc[h]),
         NEW e, Marked(e, v.desc, h, free, 0, 0)
  PROVE  LET w == WithDesc(v, e)
         IN  /\ w.desc = e /\ w.panic = v.panic /\ Manager(w) /\ List(e) /\ e[w.head].prev = NULL
             /\ \A k \in DOMAIN e : Padded(e[k])
             /\ free \in FreeTypes /\ h \in DOMAIN e /\ e[h].type = free /\ Merged(e, h)
             /\ e[h].next = v.desc[h].next /\ DOMAIN e = DOMAIN v.desc
             /\ \A k \in DOMAIN v.desc \ {h} : e[k] = v.desc[k]
<1> DEFINE f == v.desc
           w == WithDesc(v, e)
<1>1. Manager(v) /\ List(f) /\ f[v.head].prev = NULL /\ Merged(f, NULL)
      /\ \A k \in DOMAIN f : Padded(f[k])
  BY Zenon DEF Sound
<1>2. /\ w.desc = e /\ w.head = v.head /\ w.bump = v.bump /\ w.heap = v.heap /\ w.panic = v.panic
  BY Zenon DEF WithDesc, VM
<1>3. free \in FreeTypes /\ free \in Type
  BY Zenon DEF free_type, FreeTypes, Type
<1> HIDE DEF w, f
<1>4. /\ List(e) /\ DOMAIN e = DOMAIN f /\ h \in DOMAIN f
      /\ e[h].start = f[h].start /\ e[h].size = f[h].size /\ e[h].type = free
      /\ e[h].up = 0 /\ e[h].low = 0
      /\ \A k \in DOMAIN f : e[k].next = f[k].next /\ e[k].prev = f[k].prev
      /\ \A k \in DOMAIN f \ {h} : e[k] = f[k]
  <2>1. h \in DOMAIN f /\ Marked(e, f, h, free, 0, 0) /\ 0 \in Nat
    BY Zenon DEF f
  <2> QED BY <1>1, <1>3, <2>1, MarkedList
<1>5. \A k \in DOMAIN e : Padded(e[k])
  <2> SUFFICES ASSUME NEW k \in DOMAIN e PROVE Padded(e[k])
    BY Zenon
  <2>1. CASE k = h
    <3>1. /\ f[h].start \in Nat /\ f[h].size \in Nat /\ f[h].size > 0 /\ InRange(f[h])
      BY <1>1, <1>4, ListFacts, Zenon
    <3>2. free = IF f[h].start < IDENTITY_END THEN "IDENTITY_MAP_FREE" ELSE "FREE"
      BY Zenon DEF free_type, f
    <3>3. f[h].start < IDENTITY_END \/ KERNEL_START <= f[h].start
      BY <3>1, VmmAssumption DEF InRange, End
    <3> QED BY <1>4, <2>1, <3>1, <3>2, <3>3 DEF Padded, FreeTypes
  <2>2. CASE k # h
    BY <1>1, <1>4, <2>2, Zenon
  <2> QED BY <2>1, <2>2, Zenon
<1>6. Merged(e, h)
  <2> SUFFICES ASSUME NEW k \in DOMAIN e, e[k].next # NULL, k # h, e[k].next # h,
                      e[k].type \in FreeTypes
               PROVE  e[e[k].next].type # e[k].type
    BY Zenon DEF Merged
  <2>1. f[k].next = e[k].next /\ f[k].next \in DOMAIN f /\ e[k] = f[k]
    BY <1>1, <1>4, ListFacts, Zenon
  <2>2. e[f[k].next] = f[f[k].next]
    BY <1>4, <2>1, Zenon
  <2>3. f[f[k].next].type # f[k].type
    <3>1. f[k].next # NULL /\ k # NULL /\ k \in DOMAIN f
      BY <1>1, <1>4, <2>1, ListFacts, Zenon
    <3> QED BY <1>1, <2>1, <3>1, Zenon DEF Merged
  <2> QED BY <2>1, <2>2, <2>3, Zenon
<1>7. Manager(w) /\ e[w.head].prev = NULL
  BY <1>1, <1>2, <1>4, Zenon DEF Manager, f
<1> QED BY <1>2, <1>3, <1>4, <1>5, <1>6, <1>7, Zenon DEF w, f

\* deallocate_kernel_virtual_memory keeps the invariant, and panics only when it
\* frees the last range.
LEMMA FreeStep ==
  ASSUME IInv, NEW c \in CPU, NEW h, deallocate_kernel_virtual_memory(c, h)
  PROVE  /\ IInv'
         /\ h \in DOMAIN vm.desc /\ vm.desc[h].type \notin FreeTypes
         /\ vm.desc[h].next # NULL => vm'.panic = vm.panic
<1>1. Sound(vm) /\ List(vm.desc) /\ Handles(vm.desc, held, job) /\ Mapped(held, pt, frames)
      /\ pt \in PageMap /\ locked \in BOOLEAN
  BY Zenon DEF IInv, ListInv, HandleInv, MapInv, Sound
<1>2. PICK free : free = free_type(vm.desc[h])
  BY Zenon
<1> DEFINE d == vm.desc[h]
           e == [vm.desc EXCEPT ![h].type = free, ![h].low = 0, ![h].up = 0]
           v == WithDesc(vm, e)
           w == Merge(v, MergeInto(v, h, free), free)
           mn == [p \in Page |-> IF p \in Usable(d) THEN "none" ELSE pt[p]]
           F == {p \in Usable(d) : d.type \in OwnFrames /\ pt[p] # "none"}
           hn == Restrict(held, DOMAIN held \ {h})
<1>3. /\ Owned(h) /\ pt' = mn /\ frames' = frames - Cardinality(F) /\ vm' = w /\ held' = hn
      /\ UNCHANGED <<job, locked>>
  BY <1>2, Zenon DEF deallocate_kernel_virtual_memory, FramesToFree
<1>4. h \in DOMAIN held /\ (\A k \in CPU : job[k].h # h) /\ h \in DOMAIN vm.desc
      /\ vm.desc[h].type \notin FreeTypes
  BY <1>1, <1>3, Zenon DEF Owned, Handles, HandleOK
<1>5. Marked(e, vm.desc, h, free, 0, 0)
  BY <1>1, <1>4, FreeMarks, Zenon
<1> HIDE DEF e
<1>6. /\ v.desc = e /\ v.panic = vm.panic /\ Manager(v) /\ List(e) /\ e[v.head].prev = NULL
      /\ \A k \in DOMAIN e : Padded(e[k])
      /\ free \in FreeTypes /\ h \in DOMAIN e /\ e[h].type = free /\ Merged(e, h)
      /\ e[h].next = vm.desc[h].next /\ DOMAIN e = DOMAIN vm.desc
      /\ \A k \in DOMAIN vm.desc \ {h} : e[k] = vm.desc[k]
  BY <1>1, <1>2, <1>4, <1>5, FreedSound
<1> HIDE DEF v
<1>7. /\ Sound(w) /\ InUseKept(w.desc, v.desc) /\ (v.desc[h].next # NULL => w.panic = v.panic)
  BY <1>6, MergeEffect
<1> HIDE DEF w
<1>8. Kept(w.desc, vm.desc, h)
  <2> SUFFICES ASSUME NEW k \in DOMAIN vm.desc, k # h, vm.desc[k].type \notin FreeTypes
               PROVE  k \in DOMAIN w.desc /\ SameRange(w.desc[k], vm.desc[k])
    BY Zenon DEF Kept
  <2>1. k \in DOMAIN v.desc /\ v.desc[k] = vm.desc[k]
    BY <1>6, Zenon
  <2> QED BY <1>7, <2>1, Zenon DEF InUseKept
<1>9. Handles(w.desc, hn, job)
  BY <1>1, <1>4, <1>8, HandleEnds
<1>10. mn \in PageMap /\ Mapped(hn, mn, frames - Cardinality(F))
  BY <1>1, <1>4, MapFreed
<1> HIDE DEF mn, hn, F
<1>11. ListInv' /\ HandleInv'
  BY <1>3, <1>7, <1>9, Zenon DEF ListInv, HandleInv
<1>12. MapInv'
  BY <1>1, <1>3, <1>10, Zenon DEF MapInv
<1>13. vm.desc[h].next # NULL => vm'.panic = vm.panic
  BY <1>3, <1>6, <1>7, Zenon
<1> QED BY <1>4, <1>11, <1>12, <1>13, Zenon DEF IInv

------------------------------------------------------------------------------
(* The invariant.                                                          *)

\* initialize_kernel_VMM makes a list of the two ranges.
LEMMA InitInv ==
  ASSUME Init
  PROVE  IInv
<1> DEFINE d1 == Desc(1, IDENTITY_END - 1, 0, 0, "IDENTITY_MAP_FREE", 2, NULL, FALSE)
           d2 == Desc(KERNEL_START, KERNEL_END - KERNEL_START, 0, 0, "FREE", NULL, 1, FALSE)
           f == [k \in {1, 2} |-> IF k = 1 THEN d1 ELSE d2]
<1>1. /\ vm = VM(f, 1, 2, FALSE, "none") /\ pt = [p \in Page |-> "none"] /\ frames = 0
      /\ held = <<>> /\ job = [c \in CPU |-> NoJob] /\ locked = FALSE
  BY Zenon DEF Init, Desc
<1>2. /\ vm.desc = f /\ vm.head = 1 /\ vm.bump = 2 /\ vm.heap = FALSE /\ vm.panic = "none"
  <2> HIDE DEF f
  <2> QED BY <1>1, Zenon DEF VM
<1>3. /\ DOMAIN f = {1, 2} /\ f[1] = d1 /\ f[2] = d2 /\ f = [k \in DOMAIN f |-> f[k]]
  <2> HIDE DEF d1, d2
  <2> QED OBVIOUS
<1> HIDE DEF f
<1>4. /\ d1.start = 1 /\ d1.size = IDENTITY_END - 1 /\ d1.up = 0 /\ d1.low = 0
      /\ d1.type = "IDENTITY_MAP_FREE" /\ d1.next = 2 /\ d1.prev = NULL
      /\ d2.start = KERNEL_START /\ d2.size = KERNEL_END - KERNEL_START /\ d2.up = 0 /\ d2.low = 0
      /\ d2.type = "FREE" /\ d2.next = NULL /\ d2.prev = 1
  BY Zenon DEF Desc
<1>5. d1 \in Descriptor /\ d2 \in Descriptor
  BY VmmAssumption DEF Desc, Descriptor, FreeTypes, NULL
<1> HIDE DEF d1, d2
<1>6. List(f)
  <2>1. DOMAIN f \subseteq Nat \ {NULL}
    BY <1>3 DEF NULL
  <2>2. InRange(d1) /\ InRange(d2) /\ Apart(d1, d2) /\ Apart(d2, d1)
    BY <1>4, VmmAssumption DEF InRange, Apart, End
  <2>3. End(d2) = KERNEL_END /\ d2.start = After(End(d1))
    BY <1>4, VmmAssumption DEF End, After
  <2>4. 2 # NULL /\ 1 # NULL
    BY DEF NULL
  <2> QED BY <1>3, <1>4, <1>5, <2>1, <2>2, <2>3, <2>4 DEF List
<1>7. \A k \in DOMAIN f : Padded(f[k])
  BY <1>3, <1>4, VmmAssumption DEF Padded, FreeTypes
<1>8. Merged(f, NULL)
  BY <1>3, <1>4, Zenon DEF Merged
<1>9. Manager(vm)
  <2>1. \A k \in DOMAIN f : k <= 2
    BY <1>3
  <2>2. 1 \in DOMAIN f
    BY <1>3, Zenon
  <2>3. vm.bump \in Nat
    BY <1>2
  <2>4. vm.heap \in BOOLEAN
    BY <1>2, Zenon
  <2> QED BY <1>2, <2>1, <2>2, <2>3, <2>4, Zenon DEF Manager
<1>10. ListInv
  BY <1>2, <1>3, <1>4, <1>6, <1>7, <1>8, <1>9, Zenon DEF ListInv, Sound
<1>11. DOMAIN held = {} /\ held = [h \in DOMAIN held |-> held[h]]
  BY <1>1
<1>12. job = [c \in CPU |-> job[c]] /\ \A c \in CPU : job[c] = NoJob
  BY <1>1, Zenon
<1>13. HandleInv
  BY <1>11, <1>12, Zenon DEF HandleInv, Handles
<1>14. MapInv
  <2>1. \A types : PagesOf(held, types) = {}
    BY <1>11, InPagesOf, Zenon
  <2>2. pt \in PageMap /\ \A p \in Page : pt[p] = "none"
    BY <1>1, Zenon DEF PageMap
  <2>3. Cardinality({}) = 0
    BY FS_EmptySet, Zenon
  <2> QED BY <1>1, <2>1, <2>2, <2>3, Zenon DEF MapInv, Mapped
<1> QED BY <1>10, <1>13, <1>14, Zenon DEF IInv

\* One range at most is at the end of the list.
LEMMA OneLast ==
  ASSUME NEW desc, List(desc), NEW h \in DOMAIN desc, NEW k \in DOMAIN desc,
         desc[h].next = NULL, desc[k].next = NULL
  PROVE  h = k
<1>1. End(desc[h]) = KERNEL_END /\ End(desc[k]) = KERNEL_END
  BY ListFacts, Zenon
<1>2. h # k => Apart(desc[h], desc[k])
  BY ListFacts, Zenon
<1>3. /\ desc[h].start \in Nat /\ desc[h].size \in Nat /\ desc[h].size > 0
      /\ desc[k].start \in Nat /\ desc[k].size \in Nat /\ desc[k].size > 0
  BY ListFacts, Zenon
<1> QED BY <1>1, <1>2, <1>3 DEF Apart, End

\* Every step of every CPU keeps the invariant, and while there is room none panics.
LEMMA NextInv ==
  ASSUME IInv, [Next]_vars
  PROVE  IInv' /\ (Room => vm'.panic = vm.panic)
<1>1. CASE HeapInitialized
  BY <1>1, HeapStep, Zenon
<1>2. ASSUME NEW c \in CPU, Step(c)
      PROVE  IInv' /\ (Room => vm'.panic = vm.panic)
  <2>1. CASE \E r \in IdentityRange : identity_map(c, r[1], r[2])
    <3>1. PICK r \in IdentityRange : identity_map(c, r[1], r[2])
      BY <2>1, Zenon
    <3>2. r[1] \in Nat /\ r[2] \in Nat \ {0}
      BY RangeAssumption, Zenon
    <3> QED BY <3>1, <3>2, IdentityStep
  <2>2. CASE \E h \in DOMAIN held, r \in IdentityRange : load_identity_map_pages(c, h, r[1], r[2])
    BY <2>2, LoadStep, Zenon
  <2>3. CASE \E r \in Segment : copy_memory_mapping(c, r[1], r[2])
    <3>1. PICK r \in Segment : copy_memory_mapping(c, r[1], r[2])
      BY <2>3, Zenon
    <3>2. r[1] \in Nat /\ r[2] \in Nat \ {0}
      BY RangeAssumption, Zenon
    <3> QED BY <3>1, <3>2, CopyStep, Zenon
  <2>4. CASE \E size \in Sizes : memory_map(c, size)
    <3>1. PICK size \in Sizes : memory_map(c, size)
      BY <2>4, Zenon
    <3> DEFINE type == "MEMORY_MAPPING"
               kind == "phys"
               up == MEMORY_MAP_PADDING
    <3>2. AllocateRange(c, size, type, up, up, kind, FALSE)
      BY <3>1, Zenon DEF memory_map
    <3>3. /\ type \in OwnFrames \cup {"MEMORY_MAPPING"}
          /\ kind = IF type \in OwnFrames THEN "frame" ELSE "phys"
      BY Zenon DEF OwnFrames
    <3>4. size \in Nat \ {0} /\ up \in Nat
      BY VmmAssumption, Zenon
    <3> HIDE DEF type, kind
    <3>5. /\ IInv'
          /\ (\E k \in DOMAIN vm.desc : vm.desc[k].type = "FREE" /\ vm.desc[k].size >= size + up + up)
               => vm'.panic = vm.panic
      BY <3>2, <3>3, <3>4, AllocateStep
    <3>6. size + 2 * MEMORY_MAP_PADDING = size + up + up
      BY <3>4
    <3>7. size + up + up \in Request
      BY <3>6 DEF Request
    <3> QED BY <3>5, <3>7, Zenon DEF Room
  <2>5. CASE \E size \in Sizes, p \in Paddings :
               allocate_kernel_virtual_memory(c, size, "STACK", p[1], p[2])
    <3>1. PICK size \in Sizes, p \in Paddings :
            allocate_kernel_virtual_memory(c, size, "STACK", p[1], p[2])
      BY <2>5, Zenon
    <3> DEFINE type == "STACK"
               kind == "frame"
               up == p[1]
               low == p[2]
    <3>2. AllocateRange(c, size, type, up, low, kind, TRUE)
      BY <3>1, Zenon DEF allocate_kernel_virtual_memory
    <3>3. /\ type \in OwnFrames \cup {"MEMORY_MAPPING"}
          /\ kind = IF type \in OwnFrames THEN "frame" ELSE "phys"
      BY Zenon DEF OwnFrames
    <3>4. size \in Nat \ {0} /\ up \in Nat /\ low \in Nat
      BY VmmAssumption, Zenon
    <3>5. size + up + low \in Request
      BY DEF Request
    <3> HIDE DEF type, kind, up, low
    <3>6. /\ IInv'
          /\ (\E k \in DOMAIN vm.desc : vm.desc[k].type = "FREE" /\ vm.desc[k].size >= size + up + low)
               => vm'.panic = vm.panic
      BY <3>2, <3>3, <3>4, AllocateStep, Zenon
    <3> QED BY <3>5, <3>6, Zenon DEF Room
  <2>6. CASE MapPages(c)
    BY <2>6, MapStep, Zenon
  <2>7. CASE \E h \in DOMAIN held, size \in Sizes :
               try_expand_vmem_top(c, h, size) \/ try_expand_vmem_bottom(c, h, size)
    <3>1. PICK h \in DOMAIN held, size \in Sizes :
            try_expand_vmem_top(c, h, size) \/ try_expand_vmem_bottom(c, h, size)
      BY <2>7, Zenon
    <3>2. size \in Nat \ {0}
      BY VmmAssumption, Zenon
    <3> QED BY <3>1, <3>2, TopStep, BottomStep
  <2>8. CASE \E h \in DOMAIN held : deallocate_kernel_virtual_memory(c, h)
    <3>1. PICK h \in DOMAIN held : deallocate_kernel_virtual_memory(c, h)
      BY <2>8, Zenon
    <3>2. /\ IInv' /\ h \in DOMAIN vm.desc /\ vm.desc[h].type \notin FreeTypes
          /\ vm.desc[h].next # NULL => vm'.panic = vm.panic
      BY <3>1, FreeStep, Zenon
    <3>3. Room => vm.desc[h].next # NULL
      <4>1. List(vm.desc)
        BY Zenon DEF IInv, ListInv, Sound
      <4> QED BY <3>2, <4>1, OneLast, Zenon DEF Room, FreeTypes
    <3> QED BY <3>2, <3>3, Zenon
  <2> QED BY <1>2, <2>1, <2>2, <2>3, <2>4, <2>5, <2>6, <2>7, <2>8, Zenon DEF Step
<1>3. CASE UNCHANGED vars
  BY <1>3, Zenon DEF vars, IInv, ListInv, HandleInv, MapInv
<1> QED BY <1>1, <1>2, <1>3 DEF Next

\* What the runs check of the list follows from the invariant.
LEMMA ListFollows ==
  ASSUME IInv
  PROVE  ListSound
<1>1. Sound(vm) /\ List(vm.desc) /\ MapInv /\ HandleInv
  BY Zenon DEF IInv, ListInv, Sound
<1>2. vm.head \in DOMAIN vm.desc /\ vm.desc[vm.head].prev = NULL
  BY <1>1, Zenon DEF Sound, Manager
<1>3. TypeOK
  <2>1. frames \in Nat
    BY <1>1, PagesFinite, FS_CardinalityType, Zenon DEF MapInv, Mapped, HandleInv
  <2>2. DOMAIN pt = Page /\ locked \in BOOLEAN
    BY <1>1, Zenon DEF MapInv, PageMap
  <2>3. \A k \in DOMAIN vm.desc : vm.desc[k] \in Descriptor
    BY <1>1, ListFacts, Zenon
  <2> QED BY <1>2, <2>1, <2>2, <2>3, Zenon DEF TypeOK
<1>4. ListTilesMemory
  <2>1. vm.desc[vm.head].start = 1
    BY <1>1, <1>2, ListFacts, Zenon
  <2>2. ASSUME NEW k \in DOMAIN vm.desc
        PROVE  IF vm.desc[k].next = NULL THEN vm.desc[k].start + vm.desc[k].size = KERNEL_END
               ELSE /\ vm.desc[k].next \in DOMAIN vm.desc /\ vm.desc[vm.desc[k].next].prev = k
                    /\ vm.desc[vm.desc[k].next].start =
                         IF vm.desc[k].start + vm.desc[k].size = IDENTITY_END THEN KERNEL_START
                         ELSE vm.desc[k].start + vm.desc[k].size
    BY <1>1, ListFacts, Zenon DEF End, After
  <2> QED BY <1>2, <2>1, <2>2, Zenon DEF ListTilesMemory
<1>5. NoTwoFreeNeighbours
  BY <1>1, ListFacts DEF Sound, Merged, NoTwoFreeNeighbours
<1>6. LookupExact
  <2>1. \A a \in 0 .. KERNEL_END : a \in Int
    BY VmmAssumption
  <2> QED BY <1>1, <1>2, <2>1, Lookup, Zenon DEF LookupExact
<1> QED BY <1>3, <1>4, <1>5, <1>6, Zenon DEF ListSound

------------------------------------------------------------------------------
(* The theorems.                                                           *)

\* The invariant that the theorems rest on: the list is well formed, each handle
\* and each CPU's pending work name a range in use, and the page tables follow
\* the handles.
THEOREM Invariance == Spec => []IInv
<1>1. Init => IInv
  BY InitInv, Zenon
<1>2. IInv /\ [Next]_vars => IInv'
  BY NextInv, Zenon
<1> QED BY <1>1, <1>2, PTL DEF Spec

\* Whatever ranges are cut, expanded, freed and merged, by however many CPUs and
\* for every layout of the address space, the list tiles the two ranges without
\* free neighbours, and get_vmem_from_address finds the range of every address.
THEOREM ListWellFormed == Spec => []ListSound
<1>1. IInv => ListSound
  BY ListFollows, Zenon
<1> QED BY <1>1, Invariance, PTL

\* A handle names the descriptor of the pages its owner was given, whatever other
\* CPUs do to other descriptors, before and after its own pages are mapped.
THEOREM HandlesKeepTheirRange == Spec => []HandlesStayValid
<1>1. IInv => HandlesStayValid
  <2> SUFFICES ASSUME IInv, NEW h \in DOMAIN held
               PROVE  /\ h \in DOMAIN vm.desc /\ vm.desc[h].type = held[h].type
                      /\ Owned(h) => Usable(vm.desc[h]) = held[h].pages
    BY Zenon DEF HandlesStayValid
  <2>1. HandleOK(vm.desc, held, job, h)
    BY Zenon DEF IInv, HandleInv, Handles
  <2> QED BY <2>1 DEF HandleOK, Owned
<1> QED BY <1>1, Invariance, PTL

\* The page tables map the pages of the handles and no others, and each frame
\* taken from the frame allocator is under one of them, although the pages are
\* mapped after vmm->lock is released.
THEOREM MappingsFollowHandles == Spec => []MappedExactly
<1>1. IInv => MappedExactly
  <2> SUFFICES ASSUME IInv PROVE MappedExactly
    BY Zenon
  <2>1. Mapped(held, pt, frames)
    BY Zenon DEF IInv, MapInv
  <2> QED BY <2>1, Zenon DEF Mapped, PagesOf, MappedExactly
<1> QED BY <1>1, Invariance, PTL

\* While every request fits into a free range and the last range is free, no
\* operation fails a KASSERT, runs out of descriptors or reads a missing next.
THEOREM NoPanicWithRoom == Spec => PanicsOnlyWhenFull
<1>1. IInv /\ [Next]_vars => [Room => vm'.panic = vm.panic]_vars
  BY NextInv, Zenon
<1> QED BY <1>1, Invariance, PTL DEF Spec, PanicsOnlyWhenFull

=============================================================================

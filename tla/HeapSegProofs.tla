--------------------------- MODULE HeapSegProofs ---------------------------
(***************************************************************************)
(* The allocation list describes the heap, and a copied heap is the heap,  *)
(* for any number of processes, pointers, allocations and copies.          *)
(***************************************************************************)
EXTENDS HeapSeg, FiniteSetTheorems, SequenceTheorems, WellFoundedInduction, TLAPS

-----------------------------------------------------------------------------
(* Types.                                                                  *)

Addr == 0..(MaxCount + 1)

Entries == [container_address : Container, linked_address : Container \union {NULL},
            allocated_address : Block, size : Nat]

Contents == [datum : Nat, size : Nat]

Saved == [entry : Entries, data : Contents]

Heaps == UNION {[B -> Contents] : B \in SUBSET Block}

Memory == [list : Seq(Entries), stale : SUBSET {"head", "tail"}, count : 0..MaxCount,
           heap : Heaps, ptr : [Container -> Addr]]

Loop == [kind : {"none", "transfer", "restore"}, entries : Seq(Saved), next : Nat \ {0},
         image : Memory]

Checkpoint == [count : 0..MaxCount, ptr : [Container -> Addr], image : Memory,
               entries : Seq(Saved)]

\* Every allocated block has an entry.
Recorded(m) == DOMAIN m.heap \subseteq BlocksOf(m)

-----------------------------------------------------------------------------
(* Heaps.                                                                  *)

LEMMA HeapType ==
  ASSUME NEW m \in Memory
  PROVE  /\ DOMAIN m.heap \subseteq Block
         /\ m.heap \in [DOMAIN m.heap -> Contents]
<1>1. m.heap \in Heaps
  BY DEF Memory
<1>2. PICK B \in SUBSET Block : m.heap \in [B -> Contents]
  BY <1>1 DEF Heaps
<1> QED BY <1>2

LEMMA SameContent ==
  ASSUME NEW x \in Contents, NEW y \in Contents, x.datum = y.datum, x.size = y.size
  PROVE  x = y
BY DEF Contents

LEMMA BlockType == /\ Block \subseteq Nat /\ Block \subseteq Addr /\ IsFiniteSet(Block)
                   /\ Cardinality(Block) = MaxCount
                   /\ NULL \notin Block /\ Foreign \notin Block
                   /\ NULL \in Addr /\ Foreign \in Addr
<1>1. MaxCount \in Nat
  BY HeapAssumption
<1>2. IsFiniteSet(1..MaxCount) /\ Cardinality(1..MaxCount) = MaxCount
  BY <1>1, FS_Interval
<1> QED BY <1>1, <1>2 DEF Block, Addr, NULL, Foreign

LEMMA LeastElement ==
  ASSUME NEW T, T \subseteq Nat, T # {}
  PROVE  Min(T) \in T
<1>1. PICK n \in T : \A k \in T : ~ (<<k, n>> \in OpToRel(<, Nat))
  BY NatLessThanWellFounded, WFMin
<1>2. \A k \in T : n <= k
  <2> SUFFICES ASSUME NEW k \in T PROVE n <= k
    OBVIOUS
  <2>1. k \in Nat /\ n \in Nat
    OBVIOUS
  <2>2. ~(k < n)
    BY <1>1, <2>1 DEF OpToRel
  <2> QED BY <2>1, <2>2
<1> QED BY <1>2 DEF Min

\* malloc finds a free block as long as there are fewer entries than blocks.
LEMMA FreshBlock ==
  ASSUME NEW m \in Memory, Recorded(m), Len(m.list) < MaxCount
  PROVE  Fresh(m) \in Block /\ Fresh(m) \notin DOMAIN m.heap
<1> DEFINE L == 1..Len(m.list)
           T == Block \ DOMAIN m.heap
           f == [i \in L |-> m.list[i].allocated_address]
<1>0. m.list \in Seq(Entries) /\ Len(m.list) \in Nat /\ DOMAIN m.list = L
  BY DEF Memory
<1>1. IsFiniteSet(L) /\ Cardinality(L) = Len(m.list)
  BY <1>0, FS_Interval
<1>2. /\ IsFiniteSet({f[i] : i \in L})
      /\ Cardinality({f[i] : i \in L}) <= Cardinality(L)
      /\ Cardinality({f[i] : i \in L}) \in Nat
  <2> HIDE DEF L
  <2>1. IsFiniteSet(L) /\ f \in [L -> {f[i] : i \in L}]
    BY <1>1
  <2>2. f \in Surjection(L, {f[i] : i \in L})
    BY <2>1 DEF Surjection
  <2> HIDE DEF f
  <2> QED BY <2>1, <2>2, FS_Surjection, FS_CardinalityType
<1>3. {f[i] : i \in L} = BlocksOf(m)
  BY <1>0 DEF BlocksOf
<1>4. T # {}
  <2> SUFFICES ASSUME T = {} PROVE FALSE
    OBVIOUS
  <2>1. Block \subseteq {f[i] : i \in L}
    BY <1>3 DEF Recorded
  <2> HIDE DEF f, L
  <2>2. Cardinality(Block) <= Cardinality({f[i] : i \in L})
    BY <1>2, <2>1, FS_Subset
  <2> QED BY <1>0, <1>1, <1>2, <2>2, BlockType, HeapAssumption
<1>5. T \subseteq Nat
  BY BlockType
<1> HIDE DEF T
<1>6. Min(T) \in T
  BY <1>4, <1>5, LeastElement
<1> QED BY <1>6 DEF Fresh, T

-----------------------------------------------------------------------------
(* The operations on a memory.                                             *)

\* n is m with a new block b that holds d, recorded by entry e.
Grows(m, n, b, d, e) ==
  /\ b \in Block /\ b \notin DOMAIN m.heap
  /\ n.list = Append(m.list, e) /\ n.stale = m.stale
  /\ e.allocated_address = b
  /\ DOMAIN n.heap = DOMAIN m.heap \union {b}
  /\ n.heap[b] = d
  /\ \A x \in DOMAIN m.heap : n.heap[x] = m.heap[x]
  /\ n.ptr = [m.ptr EXCEPT ![e.container_address] = b]

\* The entries of a list with one more element.
LEMMA Appended ==
  ASSUME NEW s \in Seq(Entries), NEW e \in Entries, NEW t, t = Append(s, e)
  PROVE  /\ t \in Seq(Entries) /\ Len(s) \in Nat /\ Len(t) = Len(s) + 1
         /\ DOMAIN s = 1..Len(s) /\ DOMAIN t = 1..(Len(s) + 1)
         /\ \A i \in 1..Len(s) : t[i] = s[i]
         /\ t[Len(s) + 1] = e
OBVIOUS

LEMMA GrownRecorded ==
  ASSUME NEW m \in Memory, NEW n, NEW b, NEW d, NEW e \in Entries,
         Recorded(m), Grows(m, n, b, d, e)
  PROVE  Recorded(n)
<1>1. m.list \in Seq(Entries)
  BY DEF Memory
<1>2. /\ \A i \in DOMAIN m.list : i \in DOMAIN n.list /\ n.list[i] = m.list[i]
      /\ Len(m.list) + 1 \in DOMAIN n.list /\ n.list[Len(m.list) + 1] = e
  BY <1>1, Appended DEF Grows
<1>3. BlocksOf(m) \subseteq BlocksOf(n) /\ b \in BlocksOf(n)
  BY <1>2 DEF BlocksOf, Grows
<1> QED BY <1>3 DEF Recorded, Grows

LEMMA AllocatedMemory ==
  ASSUME NEW m \in Memory, NEW b \in Block, NEW d \in Contents
  PROVE  /\ Allocated(m, b, d) \in Memory
         /\ Allocated(m, b, d).list = m.list
         /\ Allocated(m, b, d).stale = m.stale
         /\ Allocated(m, b, d).count = m.count
         /\ Allocated(m, b, d).ptr = m.ptr
         /\ Allocated(m, b, d).heap =
              [x \in DOMAIN m.heap \union {b} |-> IF x = b THEN d ELSE m.heap[x]]
<1> DEFINE h == [x \in DOMAIN m.heap \union {b} |-> IF x = b THEN d ELSE m.heap[x]]
<1>1. h \in Heaps
  <2>1. DOMAIN m.heap \union {b} \in SUBSET Block
    BY HeapType
  <2>2. h \in [DOMAIN m.heap \union {b} -> Contents]
    BY HeapType
  <2> HIDE DEF h
  <2> QED BY <2>1, <2>2 DEF Heaps
<1>2. Allocated(m, b, d) = [m EXCEPT !.heap = h]
  BY DEF Allocated
<1> HIDE DEF h
<1>3. [m EXCEPT !.heap = h] \in Memory
  BY <1>1 DEF Memory
<1>4. /\ [m EXCEPT !.heap = h].list = m.list /\ [m EXCEPT !.heap = h].stale = m.stale
      /\ [m EXCEPT !.heap = h].count = m.count /\ [m EXCEPT !.heap = h].ptr = m.ptr
      /\ [m EXCEPT !.heap = h].heap = h
  BY DEF Memory
<1> QED BY <1>2, <1>3, <1>4 DEF h

\* What malloc, the entry for it and the assignment to the container leave.
Assigned(m, b, d, e) ==
  [rep_append(Allocated(m, b, d), e) EXCEPT !.ptr[e.container_address] = b]

LEMMA GrownMemory ==
  ASSUME NEW m \in Memory, NEW b \in Block, b \notin DOMAIN m.heap, NEW d \in Contents,
         NEW e \in Entries, e.allocated_address = b, Recorded(m),
         NEW n, n = Assigned(m, b, d, e)
  PROVE  /\ n \in Memory /\ n.count = m.count
         /\ Grows(m, n, b, d, e) /\ Recorded(n)
<1> DEFINE a == Allocated(m, b, d)
           c == e.container_address
           l == Append(m.list, e)
           q == [m.ptr EXCEPT ![c] = b]
<1>1. /\ a \in Memory /\ a.list = m.list /\ a.stale = m.stale /\ a.count = m.count
      /\ a.ptr = m.ptr
      /\ a.heap = [x \in DOMAIN m.heap \union {b} |-> IF x = b THEN d ELSE m.heap[x]]
  BY AllocatedMemory
<1>2. c \in Container /\ m.ptr \in [Container -> Addr] /\ m.list \in Seq(Entries)
  BY DEF Memory, Entries
<1>3. l \in Seq(Entries) /\ q \in [Container -> Addr]
  BY <1>2, BlockType
<1>4. n = [[a EXCEPT !.list = Append(@, e)] EXCEPT !.ptr[c] = b]
  BY DEF Assigned, rep_append
<1> HIDE DEF a
<1>5. n = [[a EXCEPT !.list = l] EXCEPT !.ptr = q]
  BY <1>1, <1>4 DEF Memory
<1> HIDE DEF l, q, c
<1>6. /\ n \in Memory /\ n.list = l /\ n.ptr = q
      /\ n.stale = a.stale /\ n.count = a.count /\ n.heap = a.heap
  BY <1>1, <1>3, <1>5 DEF Memory
<1>7. Grows(m, n, b, d, e)
  BY <1>1, <1>6 DEF Grows, l, q, c
<1> QED BY <1>1, <1>6, <1>7, GrownRecorded

\* n is m with a new block that holds d, recorded for the container of e.
GrowsBy(m, n, e, d) ==
  \E b \in Block, f \in Entries : /\ Grows(m, n, b, d, f)
                                  /\ f.container_address = e.container_address
                                  /\ f.linked_address = e.linked_address
                                  /\ f.size = e.size

LEMMA FilledMemory ==
  ASSUME NEW m \in Memory, Recorded(m), Len(m.list) < MaxCount,
         NEW e \in Entries, NEW d \in Contents, NEW n, n = Filled(m, e, d)
  PROVE  /\ n \in Memory /\ n.count = m.count /\ Recorded(n)
         /\ GrowsBy(m, n, e, d)
<1> DEFINE b == Fresh(m)
           f == [e EXCEPT !.allocated_address = b]
<1>1. b \in Block /\ b \notin DOMAIN m.heap
  BY FreshBlock
<1> HIDE DEF b
<1>2. /\ f \in Entries /\ f.container_address = e.container_address
      /\ f.linked_address = e.linked_address /\ f.allocated_address = b
      /\ f.size = e.size
  BY <1>1 DEF Entries
<1> HIDE DEF f
<1>3. n = Assigned(m, b, d, f)
  BY <1>2 DEF Filled, Assigned, b, f
<1>4. n \in Memory /\ n.count = m.count /\ Grows(m, n, b, d, f) /\ Recorded(n)
  BY <1>1, <1>2, <1>3, GrownMemory
<1> QED BY <1>1, <1>2, <1>4 DEF GrowsBy

\* What rep_malloc leaves.
Malloced(m, c, s) ==
  [Filled(m, Entry(c, NULL, Fresh(m), s), Content(m.count + 1, s)) EXCEPT !.count = @ + 1]

\* n is m with a new block of size s for container c.
NewBlock(m, n, c, s) ==
  \E b \in Block, f \in Entries :
      /\ Grows(m, n, b, Content(m.count + 1, s), f)
      /\ f.container_address = c /\ f.linked_address = NULL /\ f.size = s

LEMMA MallocMemory ==
  ASSUME NEW m \in Memory, Recorded(m), Len(m.list) <= m.count, m.count < MaxCount,
         NEW c \in Container, NEW s \in Nat, NEW n, n = Malloced(m, c, s)
  PROVE  /\ n \in Memory /\ n.count = m.count + 1 /\ Recorded(n)
         /\ NewBlock(m, n, c, s)
<1> DEFINE e == Entry(c, NULL, Fresh(m), s)
           d == Content(m.count + 1, s)
           k == Filled(m, e, d)
<1>1. /\ m.count \in Nat /\ m.count + 1 \in 0..MaxCount /\ Len(m.list) \in Nat
      /\ MaxCount \in Nat
  BY HeapAssumption DEF Memory
<1>2. Len(m.list) < MaxCount
  BY <1>1
<1>3. /\ e \in Entries /\ e.container_address = c /\ e.linked_address = NULL
      /\ e.size = s /\ d \in Contents
  BY <1>1, <1>2, FreshBlock DEF Entry, Entries, Content, Contents
<1> HIDE DEF e, d
<1>4. /\ k \in Memory /\ k.count = m.count /\ Recorded(k)
      /\ GrowsBy(m, k, e, d)
  BY <1>2, <1>3, FilledMemory
<1>5. n = [k EXCEPT !.count = @ + 1]
  BY DEF e, d, Malloced
<1> HIDE DEF k
<1>6. /\ n \in Memory /\ n.count = m.count + 1
      /\ n.list = k.list /\ n.stale = k.stale /\ n.heap = k.heap /\ n.ptr = k.ptr
  BY <1>1, <1>4, <1>5 DEF Memory
<1>7. Recorded(n)
  BY <1>4, <1>6 DEF Recorded, BlocksOf
<1>8. \A b, f : Grows(m, k, b, d, f) => Grows(m, n, b, d, f)
  BY <1>6 DEF Grows
<1> QED BY <1>3, <1>4, <1>6, <1>7, <1>8 DEF d, GrowsBy, NewBlock

\* What rep_assign_malloc_context leaves.
Copied(m, src, dest) ==
  [rep_append(m, Entry(dest, src, m.ptr[src], 0))
     EXCEPT !.ptr[dest] = m.ptr[src], !.count = @ + 1]

LEMMA AssignMemory ==
  ASSUME NEW m \in Memory, Recorded(m), m.count < MaxCount,
         NEW src \in Container, NEW dest \in Container, Points(m, src), NEW n,
         n = Copied(m, src, dest)
  PROVE  /\ n \in Memory /\ n.count = m.count + 1 /\ Recorded(n)
         /\ Len(n.list) = Len(m.list) + 1
<1> DEFINE b == m.ptr[src]
           e == Entry(dest, src, b, 0)
           l == Append(m.list, e)
           q == [m.ptr EXCEPT ![dest] = b]
<1>1. /\ m.count \in Nat /\ m.count + 1 \in 0..MaxCount
      /\ m.ptr \in [Container -> Addr] /\ m.list \in Seq(Entries)
  BY HeapAssumption DEF Memory
<1>2. b \in Block
  BY HeapType DEF Points
<1> HIDE DEF b
<1>3. e \in Entries /\ q \in [Container -> Addr]
  BY <1>1, <1>2, BlockType DEF Entry, Entries
<1> HIDE DEF e
<1>4. n = [[m EXCEPT !.list = l] EXCEPT !.ptr = q, !.count = m.count + 1]
  BY DEF Copied, rep_append, Memory, b, e
<1>5. /\ l \in Seq(Entries) /\ Len(l) = Len(m.list) + 1
      /\ \A i \in DOMAIN m.list : i \in DOMAIN l /\ l[i] = m.list[i]
  BY <1>1, <1>3, Appended
<1> HIDE DEF l, q
<1>6. n \in Memory /\ n.count = m.count + 1 /\ n.list = l /\ n.heap = m.heap
  BY <1>1, <1>3, <1>4, <1>5 DEF Memory
<1>7. BlocksOf(m) \subseteq BlocksOf(n)
  BY <1>5, <1>6 DEF BlocksOf
<1> QED BY <1>5, <1>6, <1>7 DEF Recorded

\* Removing an element keeps the others in their order.
LEMMA Removing ==
  ASSUME NEW s \in Seq(Entries), NEW i \in 1..Len(s)
  PROVE  /\ RemoveAt(s, i) \in Seq(Entries) /\ Len(RemoveAt(s, i)) = Len(s) - 1
         /\ \A j \in 1..Len(s) :
               j # i => \E k \in 1..Len(RemoveAt(s, i)) : RemoveAt(s, i)[k] = s[j]
<1> DEFINE u == SubSeq(s, 1, i - 1)
           v == SubSeq(s, i + 1, Len(s))
           t == RemoveAt(s, i)
<1>1. Len(s) \in Nat /\ i \in Nat /\ i >= 1 /\ i <= Len(s)
  OBVIOUS
<1>2. u \in Seq(Entries) /\ Len(u) = i - 1 /\ \A j \in 1..(i - 1) : u[j] = s[j]
  BY <1>1
<1>3. /\ v \in Seq(Entries) /\ Len(v) = Len(s) - i
      /\ \A j \in 1..(Len(s) - i) : v[j] = s[i + j]
  BY <1>1
<1>4. t = u \o v
  BY DEF RemoveAt
<1> HIDE DEF u, v, t
<1>5. /\ t \in Seq(Entries) /\ Len(t) = Len(u) + Len(v)
      /\ \A j \in 1..(Len(u) + Len(v)) :
            t[j] = (IF j <= Len(u) THEN u[j] ELSE v[j - Len(u)])
  <2>1. u \in Seq(Entries) /\ v \in Seq(Entries)
    BY <1>2, <1>3
  <2>2. /\ u \o v \in Seq(Entries) /\ Len(u \o v) = Len(u) + Len(v)
        /\ \A j \in 1..(Len(u) + Len(v)) :
              (u \o v)[j] = (IF j <= Len(u) THEN u[j] ELSE v[j - Len(u)])
    BY ONLY <2>1, ConcatProperties, Zenon
  <2> QED BY <1>4, <2>2, Zenon
<1>6. ASSUME NEW j \in 1..Len(s), j # i
      PROVE  \E k \in 1..Len(t) : t[k] = s[j]
  <2>1. CASE j < i
    <3>0. /\ j \in 1..(i - 1) /\ j \in 1..(Len(u) + Len(v)) /\ j <= Len(u)
          /\ Len(t) = Len(u) + Len(v)
      BY ONLY <1>1, <1>2, <1>3, <1>5, <1>6, <2>1
    <3>1. j \in 1..Len(t) /\ t[j] = s[j]
      BY ONLY <1>2, <1>5, <3>0
    <3> QED BY <3>1
  <2>2. CASE j > i
    <3>0. /\ j - 1 \in 1..(Len(u) + Len(v)) /\ ~(j - 1 <= Len(u))
          /\ (j - 1) - Len(u) = j - i /\ Len(t) = Len(u) + Len(v)
      BY <1>1, <1>2, <1>3, <1>5, <2>2
    <3>1. j - 1 \in 1..Len(t) /\ t[j - 1] = v[j - i]
      BY <1>5, <3>0
    <3>2. v[j - i] = s[j]
      BY <1>1, <1>3, <2>2
    <3> QED BY <3>1, <3>2
  <2> QED BY <1>1, <1>6, <2>1, <2>2
<1>7. t \in Seq(Entries) /\ Len(t) = Len(s) - 1
  BY <1>1, <1>2, <1>3, <1>5
<1> QED BY <1>6, <1>7 DEF t

\* rep_free uses an entry of the list, or none.
FirstOf(s, c) == SelectInSeq(s, LAMBDA e : e.container_address = c)

LEMMA FirstEntry ==
  ASSUME NEW m \in Memory, NEW c
  PROVE  FirstOf(m.list, c) = 0 \/ FirstOf(m.list, c) \in DOMAIN m.list
<1> DEFINE I == {i \in 1..Len(m.list) : m.list[i].container_address = c}
<1>1. FirstOf(m.list, c) = IF I # {} THEN Min(I) ELSE 0
  BY DEF FirstOf, SelectInSeq
<1>2. I \subseteq Nat /\ I \subseteq DOMAIN m.list
  BY DEF Memory
<1> HIDE DEF I
<1> QED BY <1>1, <1>2, LeastElement

LEMMA FreedMemory ==
  ASSUME NEW m \in Memory, NEW B
  PROVE  /\ Freed(m, B) \in Memory
         /\ Freed(m, B).list = m.list /\ Freed(m, B).count = m.count
         /\ Freed(m, B).stale = m.stale /\ Freed(m, B).ptr = m.ptr
         /\ DOMAIN Freed(m, B).heap = DOMAIN m.heap \ B
<1> DEFINE h == Restrict(m.heap, DOMAIN m.heap \ B)
<1>1. h \in Heaps /\ DOMAIN h = DOMAIN m.heap \ B
  <2>1. DOMAIN m.heap \ B \in SUBSET Block
    BY HeapType
  <2>2. h \in [DOMAIN m.heap \ B -> Contents]
    BY HeapType DEF Restrict
  <2> HIDE DEF h
  <2> QED BY <2>1, <2>2 DEF Heaps
<1>2. Freed(m, B) = [m EXCEPT !.heap = h]
  BY DEF Freed
<1> HIDE DEF h
<1> QED BY <1>1, <1>2 DEF Memory

\* What rep_free leaves when it uses entry i.
Removed(m, i) == rep_remove(Freed(m, {m.list[i].allocated_address}), i)

LEMMA FreeMemory ==
  ASSUME NEW m \in Memory, Recorded(m), NEW i \in DOMAIN m.list, NEW n,
         n = Removed(m, i)
  PROVE  /\ n \in Memory /\ Recorded(n) /\ n.count = m.count
         /\ Len(n.list) <= Len(m.list)
<1> DEFINE b == m.list[i].allocated_address
           a == Freed(m, {b})
           l == RemoveAt(m.list, i)
<1>1. /\ a \in Memory /\ a.list = m.list /\ a.count = m.count
      /\ DOMAIN a.heap = DOMAIN m.heap \ {b}
  BY FreedMemory
<1>2. m.list \in Seq(Entries) /\ DOMAIN m.list = 1..Len(m.list) /\ Len(m.list) \in Nat
  BY DEF Memory
<1>3. /\ l \in Seq(Entries) /\ Len(l) = Len(m.list) - 1
      /\ \A j \in 1..Len(m.list) : j # i => \E k \in 1..Len(l) : l[k] = m.list[j]
  <2>1. i \in 1..Len(m.list)
    BY <1>2
  <2> QED BY <1>2, <2>1, Removing
<1> HIDE DEF l, a
<1>4. PICK S : n = [a EXCEPT !.list = l, !.stale = S] /\ S \in SUBSET {"head", "tail"}
  <2> DEFINE S == IF Len(a.list) = 1 THEN {}
                  ELSE a.stale \union (IF i = 1 THEN {"head"} ELSE {})
                         \union (IF i = Len(a.list) THEN {"tail"} ELSE {})
  <2>1. n = [a EXCEPT !.list = l, !.stale = S]
    BY <1>1 DEF Removed, rep_remove, l, a, Memory
  <2>2. S \in SUBSET {"head", "tail"}
    BY <1>1 DEF Memory
  <2> QED BY <2>1, <2>2
<1>5. n \in Memory /\ n.list = l /\ n.heap = a.heap /\ n.count = a.count
  BY <1>1, <1>3, <1>4 DEF Memory
<1>6. ASSUME NEW x \in DOMAIN n.heap PROVE x \in BlocksOf(n)
  <2>1. x \in BlocksOf(m) /\ x # b
    BY <1>1, <1>5, <1>6 DEF Recorded
  <2>2. PICK j \in DOMAIN m.list : m.list[j].allocated_address = x
    BY <2>1 DEF BlocksOf
  <2>3. PICK k \in 1..Len(l) : l[k] = m.list[j]
    BY <1>2, <1>3, <2>1, <2>2
  <2> QED BY <1>3, <1>5, <2>2, <2>3 DEF BlocksOf
<1>7. Recorded(n)
  BY <1>6 DEF Recorded
<1>8. Len(n.list) <= Len(m.list)
  BY <1>2, <1>3, <1>5
<1> QED BY <1>1, <1>5, <1>7, <1>8

\* What the receiver clears and is told by the data segment of the sender.
Cleared(m, q, k) == [rep_clear_discontiguous(m) EXCEPT !.ptr = q, !.count = k]

LEMMA ClearedMemory ==
  ASSUME NEW m \in Memory, Recorded(m), NEW q \in [Container -> Addr],
         NEW k \in 0..MaxCount, NEW n,
         n = Cleared(m, q, k)
  PROVE  /\ n \in Memory /\ n.list = <<>> /\ n.stale = {} /\ DOMAIN n.heap = {}
         /\ n.ptr = q /\ n.count = k
<1> DEFINE a == Freed(m, BlocksOf(m))
<1>1. a \in Memory /\ DOMAIN a.heap = {}
  BY FreedMemory DEF Recorded
<1>2. n = [[a EXCEPT !.list = <<>>, !.stale = {}, !.count = 0] EXCEPT !.ptr = q, !.count = k]
  BY DEF rep_clear_discontiguous, Cleared
<1> HIDE DEF a
<1>3. n = [a EXCEPT !.list = <<>>, !.stale = {}, !.ptr = q, !.count = k]
  BY <1>1, <1>2 DEF Memory
<1>4. <<>> \in Seq(Entries) /\ {} \in SUBSET {"head", "tail"}
  OBVIOUS
<1>5. n \in Memory
  BY <1>1, <1>3, <1>4 DEF Memory
<1> QED BY <1>1, <1>3, <1>5 DEF Memory

-----------------------------------------------------------------------------
(* What holds for every program.                                           *)

\* A loop still has as many rounds to go as the list lacks entries, at most,
\* so that it never fills the memory beyond the count.
Sound(m, l) ==
  /\ m \in Memory /\ l \in Loop
  /\ Recorded(m) /\ Len(m.list) <= m.count
  /\ l.kind # "none" => /\ l.next <= Len(l.entries) + 1
                        /\ Len(m.list) + Len(l.entries) + 1 <= m.count + l.next

SoundFile(f) == f \in Checkpoint /\ Len(f.entries) <= f.count

HeapInv ==
  /\ mem = [p \in Process |-> mem[p]] /\ loop = [p \in Process |-> loop[p]]
  /\ \A p \in Process : Sound(mem[p], loop[p])
  /\ \A f \in ckpt : SoundFile(f)

\* The memory of a process that has just been started.
Started(q, k) == [NewMemory EXCEPT !.ptr = q, !.count = k]

LEMMA StartedMemory ==
  ASSUME NEW q \in [Container -> Addr], NEW k \in 0..MaxCount
  PROVE  /\ Started(q, k) \in Memory /\ Recorded(Started(q, k))
         /\ Started(q, k).list = <<>> /\ Started(q, k).stale = {}
         /\ DOMAIN Started(q, k).heap = {}
         /\ Started(q, k).count = k /\ Started(q, k).ptr = q
<1> DEFINE n == Started(q, k)
           h == <<>>
           s == <<>>
           o == {}
<1>1. n = [list |-> s, stale |-> o, count |-> k, heap |-> h, ptr |-> q]
  <2> DEFINE r == [c \in Container |-> NULL]
             z == 0
  <2>1. NewMemory = [list |-> s, stale |-> o, count |-> z, heap |-> h, ptr |-> r]
    BY DEF NewMemory
  <2> HIDE DEF h, s, o, r, z, n
  <2>2. n = [NewMemory EXCEPT !.ptr = q, !.count = k]
    BY DEF Started, n
  <2> QED BY <2>1, <2>2
<1>2. h \in Heaps /\ DOMAIN h = {}
  <2>1. h \in [{} -> Contents] /\ DOMAIN h = {}
    OBVIOUS
  <2>2. {} \in SUBSET Block
    OBVIOUS
  <2> HIDE DEF h
  <2> QED BY <2>1, <2>2 DEF Heaps
<1>3. s \in Seq(Entries) /\ o \in SUBSET {"head", "tail"}
  OBVIOUS
<1> HIDE DEF n, h, s, o
<1>4. n \in Memory
  BY <1>1, <1>2, <1>3 DEF Memory
<1>5. n.list = s /\ n.stale = o /\ n.count = k /\ n.heap = h /\ n.ptr = q
  BY <1>1
<1>6. Recorded(n)
  BY <1>2, <1>5 DEF Recorded
<1>7. DOMAIN n.heap = {}
  BY <1>2, <1>5
<1> QED BY <1>4, <1>5, <1>6, <1>7 DEF n, s, o

LEMMA FirstMemory ==
  /\ NewMemory \in Memory /\ NewMemory.list = <<>> /\ NewMemory.stale = {}
  /\ DOMAIN NewMemory.heap = {} /\ NewMemory.count = 0
  /\ NewMemory.ptr = [c \in Container |-> NULL]
  /\ Sound(NewMemory, NoLoop)
<1> DEFINE q == [c \in Container |-> NULL]
<1>1. q \in [Container -> Addr] /\ 0 \in 0..MaxCount
  BY BlockType, HeapAssumption
<1>2. NewMemory = Started(q, 0)
  <2> DEFINE h == <<>>
             s == <<>>
             o == {}
             z == 0
  <2>1. NewMemory = [list |-> s, stale |-> o, count |-> z, heap |-> h, ptr |-> q]
    BY DEF NewMemory
  <2>2. Started(q, 0) = [NewMemory EXCEPT !.ptr = q, !.count = z]
    BY DEF Started
  <2> HIDE DEF h, s, o, q, z
  <2> QED BY <2>1, <2>2
<1> HIDE DEF q
<1>3. /\ NewMemory \in Memory /\ Recorded(NewMemory)
      /\ NewMemory.list = <<>> /\ NewMemory.stale = {}
      /\ DOMAIN NewMemory.heap = {} /\ NewMemory.count = 0 /\ NewMemory.ptr = q
  BY <1>1, <1>2, StartedMemory
<1>4. NoLoop \in Loop /\ NoLoop.kind = "none"
  BY <1>3 DEF NoLoop, Loop
<1>5. Sound(NewMemory, NoLoop)
  BY <1>3, <1>4 DEF Sound
<1> QED BY <1>3, <1>5 DEF q

LEMMA EntryType ==
  ASSUME NEW m \in Memory, NEW i \in DOMAIN m.list
  PROVE  /\ m.list[i] \in Entries /\ m.list[i].container_address \in Container
         /\ m.list[i].allocated_address \in Block /\ m.list[i].size \in Nat
         /\ DOMAIN m.list = 1..Len(m.list) /\ Len(m.list) \in Nat
<1>1. m.list \in Seq(Entries)
  BY DEF Memory
<1>2. m.list[i] \in Entries
  BY <1>1
<1> QED BY <1>1, <1>2 DEF Entries

LEMMA WalkedType ==
  ASSUME NEW m \in Memory, WalkFault(m) = "none"
  PROVE  Walked(m) \in Seq(Saved) /\ Len(Walked(m)) = Len(m.list)
<1>1. m.list \in Seq(Entries) /\ DOMAIN m.list = 1..Len(m.list) /\ Len(m.list) \in Nat
  BY DEF Memory
<1>2. ASSUME NEW i \in DOMAIN m.list PROVE Walked(m)[i] \in Saved
  <2> DEFINE e == m.list[i]
             d == IF e.linked_address # NULL THEN Empty
                  ELSE Content(m.heap[m.ptr[e.container_address]].datum, e.size)
  <2>1. e \in Entries /\ e.size \in Nat
    BY EntryType
  <2>2. d \in Contents
    <3>1. CASE e.linked_address = NULL
      <4>1. m.ptr[e.container_address] \in DOMAIN m.heap
        BY <3>1 DEF WalkFault, Points
      <4>2. m.heap[m.ptr[e.container_address]] \in Contents
        BY <4>1, HeapType
      <4> QED BY <2>1, <3>1, <4>2 DEF Content, Contents
    <3>2. CASE e.linked_address # NULL
      BY <3>2 DEF Empty, Content, Contents
    <3> QED BY <3>1, <3>2
  <2>3. Walked(m)[i] = [entry |-> e, data |-> d]
    BY DEF Walked
  <2> HIDE DEF e, d
  <2> QED BY <2>1, <2>2, <2>3 DEF Saved
<1>3. Walked(m) = [i \in 1..Len(m.list) |-> Walked(m)[i]]
  BY <1>1 DEF Walked
<1>4. Walked(m) \in [1..Len(m.list) -> Saved]
  BY <1>1, <1>2, <1>3
<1> QED BY <1>1, <1>4

LEMMA TransferredType ==
  ASSUME NEW q \in [Container -> Addr]
  PROVE  Transferred(q) \in [Container -> Addr]
BY BlockType DEF Transferred

\* A step that changes the memory and the loop of one process.
LEMMA OneProcess ==
  ASSUME HeapInv, NEW p \in Process, NEW m, NEW l, Sound(m, l),
         mem' = [mem EXCEPT ![p] = m], loop' = [loop EXCEPT ![p] = l], ckpt' = ckpt
  PROVE  HeapInv'
<1>1. /\ mem' = [q \in Process |-> mem'[q]] /\ loop' = [q \in Process |-> loop'[q]]
      /\ mem'[p] = m /\ loop'[p] = l
      /\ \A q \in Process : q # p => mem'[q] = mem[q] /\ loop'[q] = loop[q]
  BY DEF HeapInv
<1>2. \A q \in Process : Sound(mem'[q], loop'[q])
  BY <1>1 DEF HeapInv
<1> QED BY <1>1, <1>2 DEF HeapInv

LEMMA OneProcessMemory ==
  ASSUME HeapInv, NEW p \in Process, NEW m, Sound(m, loop[p]),
         mem' = [mem EXCEPT ![p] = m], loop' = loop, ckpt' = ckpt
  PROVE  HeapInv'
<1>1. loop' = [loop EXCEPT ![p] = loop[p]]
  BY DEF HeapInv
<1> QED BY <1>1, OneProcess

LEMMA SameState ==
  ASSUME HeapInv, mem' = mem, loop' = loop, ckpt' = ckpt
  PROVE  HeapInv'
BY DEF HeapInv

LEMMA MallocSound ==
  ASSUME HeapInv, NEW p \in Process, NEW c \in Container, NEW s \in 1..MaxSize,
         rep_malloc(p, c, s)
  PROVE  HeapInv'
<1> DEFINE m == mem[p]
           n == Malloced(m, c, s)
<1>1. /\ loop' = loop /\ ckpt' = ckpt /\ Idle(p) /\ m.count < MaxCount
      /\ mem' = mem \/ mem' = [mem EXCEPT ![p] = n]
  BY DEF rep_malloc, Step, Malloced
<1>2. Sound(m, loop[p])
  BY DEF HeapInv
<1>3. n \in Memory /\ n.count = m.count + 1 /\ Recorded(n) /\ Len(n.list) = Len(m.list) + 1
  <2>1. /\ m \in Memory /\ Recorded(m) /\ Len(m.list) <= m.count /\ m.list \in Seq(Entries)
        /\ s \in Nat
    BY <1>2 DEF Sound, Memory
  <2> HIDE DEF m
  <2>2. /\ n \in Memory /\ n.count = m.count + 1 /\ Recorded(n) /\ NewBlock(m, n, c, s)
    BY <1>1, <2>1, MallocMemory
  <2> HIDE DEF n
  <2>3. PICK b \in Block, f \in Entries : Grows(m, n, b, Content(m.count + 1, s), f)
    BY <2>2 DEF NewBlock
  <2>4. Len(n.list) = Len(m.list) + 1
    BY <2>1, <2>3, Appended DEF Grows
  <2> QED BY <2>2, <2>4
<1> HIDE DEF n
<1>4. Sound(n, loop[p])
  BY <1>1, <1>2, <1>3 DEF Sound, Idle, Memory
<1> QED BY <1>1, <1>4, OneProcessMemory, SameState

LEMMA AssignSound ==
  ASSUME HeapInv, NEW p \in Process, NEW src \in Container, NEW dest \in Container,
         rep_assign_malloc_context(p, src, dest)
  PROVE  HeapInv'
<1> DEFINE m == mem[p]
           n == Copied(m, src, dest)
<1>1. /\ loop' = loop /\ ckpt' = ckpt /\ Idle(p) /\ m.count < MaxCount /\ Points(m, src)
      /\ mem' = mem \/ mem' = [mem EXCEPT ![p] = n]
  BY DEF rep_assign_malloc_context, Step, Copied
<1>2. Sound(m, loop[p])
  BY DEF HeapInv
<1>3. n \in Memory /\ n.count = m.count + 1 /\ Recorded(n) /\ Len(n.list) = Len(m.list) + 1
  <2>1. m \in Memory /\ Recorded(m)
    BY <1>2 DEF Sound
  <2> HIDE DEF m
  <2> QED BY ONLY <1>1, <2>1, src \in Container, dest \in Container, AssignMemory
<1> HIDE DEF n
<1>4. Sound(n, loop[p])
  BY <1>1, <1>2, <1>3 DEF Sound, Idle, Memory
<1> QED BY <1>1, <1>4, OneProcessMemory, SameState

LEMMA FreeSound ==
  ASSUME HeapInv, NEW p \in Process, NEW c \in Container, rep_free(p, c)
  PROVE  HeapInv'
<1> DEFINE m == mem[p]
           i == FirstOf(m.list, c)
           r == Removed(m, i)
           n == IF i = 0 THEN m ELSE r
<1>1. /\ loop' = loop /\ ckpt' = ckpt /\ Idle(p)
      /\ mem' = mem \/ mem' = [mem EXCEPT ![p] = n]
  BY DEF rep_free, Step, Removed, FirstOf
<1>2. Sound(m, loop[p]) /\ m \in Memory /\ Recorded(m)
  BY DEF HeapInv, Sound
<1>3. i = 0 \/ i \in DOMAIN m.list
  BY <1>2, FirstEntry
<1> HIDE DEF m, i
<1>4. i # 0 => r \in Memory /\ Recorded(r) /\ r.count = m.count /\ Len(r.list) <= Len(m.list)
  BY <1>2, <1>3, FreeMemory
<1> HIDE DEF r
<1>5. Sound(n, loop[p])
  <2>1. CASE i = 0
    BY <1>2, <2>1
  <2>2. CASE i # 0
    <3>1. Len(r.list) \in Nat /\ Len(m.list) \in Nat /\ m.count \in Nat
      BY <1>2, <1>4, <2>2 DEF Memory
    <3> QED BY <1>1, <1>2, <1>4, <2>2, <3>1 DEF Sound, Idle
  <2> QED BY <2>1, <2>2
<1> HIDE DEF n
<1> QED BY <1>1, <1>5, OneProcessMemory, SameState

\* The whole walk is sent, and restored, when the count is that of the list.
LEMMA WholeWalk ==
  ASSUME NEW w \in Seq(Saved), NEW k, k = Len(w)
  PROVE  SubSeq(w, 1, k) = w
<1>1. Len(w) \in Nat
  OBVIOUS
<1>2. /\ SubSeq(w, 1, k) \in Seq(Saved) /\ Len(SubSeq(w, 1, k)) = Len(w)
      /\ \A i \in 1..Len(w) : SubSeq(w, 1, k)[i] = w[i]
  BY <1>1
<1> QED BY <1>1, <1>2

\* The loop that copies g, before its first round.
CopyLoop(g) == [kind |-> "transfer", next |-> 1, entries |-> Walked(g), image |-> g]

\* What a successful transfer does.
Transfers(s, r, m, l) ==
  /\ mem' = [mem EXCEPT ![r] = m] /\ loop' = [loop EXCEPT ![r] = l]
  /\ ckpt' = ckpt /\ used' = used /\ fault' = "none"
  /\ m \in Memory /\ m.list = <<>> /\ m.stale = {} /\ DOMAIN m.heap = {}
  /\ m.ptr = Transferred(mem[s].ptr) /\ m.count = mem[s].count
  /\ l = CopyLoop(mem[s]) /\ l \in Loop /\ Len(l.entries) = mem[s].count

LEMMA TransferEffect ==
  ASSUME HeapInv, NEW s \in Process, NEW r \in Process, transfer_heap_seg(s, r),
         TransferFault(s, r) = "none"
  PROVE  \E m, l : Transfers(s, r, m, l)
<1> DEFINE m == Cleared(mem[r], Transferred(mem[s].ptr), mem[s].count)
           l == CopyLoop(mem[s])
<1>1. /\ Sound(mem[s], loop[s]) /\ Sound(mem[r], loop[r])
      /\ mem[s] \in Memory /\ mem[r] \in Memory /\ Recorded(mem[r])
      /\ mem[s].ptr \in [Container -> Addr] /\ mem[s].count \in 0..MaxCount
      /\ Len(mem[s].list) <= mem[s].count /\ Len(mem[s].list) \in Nat
  <2>1. Sound(mem[s], loop[s]) /\ Sound(mem[r], loop[r])
    BY DEF HeapInv
  <2>2. /\ mem[s] \in Memory /\ mem[r] \in Memory /\ Recorded(mem[r])
        /\ Len(mem[s].list) <= mem[s].count
    BY <2>1 DEF Sound
  <2>3. /\ mem[s].ptr \in [Container -> Addr] /\ mem[s].count \in 0..MaxCount
        /\ mem[s].list \in Seq(Entries)
    BY <2>2 DEF Memory
  <2> QED BY <2>1, <2>2, <2>3
<1>2. mem[s].count = Len(mem[s].list) /\ WalkFault(mem[s]) = "none"
  BY <1>1 DEF TransferFault
<1>3. Walked(mem[s]) \in Seq(Saved) /\ Len(Walked(mem[s])) = mem[s].count
  BY <1>1, <1>2, WalkedType
<1>4. SubSeq(Walked(mem[s]), 1, mem[s].count) = Walked(mem[s])
  BY <1>3, WholeWalk
<1>5. /\ mem' = [mem EXCEPT ![r] = m] /\ loop' = [loop EXCEPT ![r] = l]
      /\ ckpt' = ckpt /\ used' = used /\ fault' = "none"
  BY <1>4 DEF transfer_heap_seg, Step, Cleared, CopyLoop
<1>6. l \in Loop /\ Len(l.entries) = mem[s].count
  BY <1>1, <1>3 DEF Loop, CopyLoop
<1>7. Transferred(mem[s].ptr) \in [Container -> Addr]
  BY <1>1, TransferredType
<1>8. /\ m \in Memory /\ m.list = <<>> /\ m.stale = {} /\ DOMAIN m.heap = {}
      /\ m.ptr = Transferred(mem[s].ptr) /\ m.count = mem[s].count
  BY <1>1, <1>7, ClearedMemory
<1>9. Transfers(s, r, m, l)
  BY ONLY <1>5, <1>6, <1>8 DEF Transfers
<1> QED BY ONLY <1>9, Zenon

LEMMA TransferSound ==
  ASSUME HeapInv, NEW s \in Process, NEW r \in Process, transfer_heap_seg(s, r)
  PROVE  HeapInv'
<1>1. CASE TransferFault(s, r) # "none"
  BY <1>1, SameState DEF transfer_heap_seg, Step
<1>2. CASE TransferFault(s, r) = "none"
  <2>0. PICK m, l : Transfers(s, r, m, l)
    BY <1>2, TransferEffect, Zenon
  <2>1. /\ mem' = [mem EXCEPT ![r] = m] /\ loop' = [loop EXCEPT ![r] = l]
        /\ ckpt' = ckpt
        /\ m \in Memory /\ m.list = <<>> /\ DOMAIN m.heap = {} /\ m.count = mem[s].count
        /\ l = CopyLoop(mem[s]) /\ l \in Loop /\ Len(l.entries) = mem[s].count
    BY ONLY <2>0 DEF Transfers
  <2>2. l.next = 1
    BY <2>1 DEF CopyLoop
  <2>3. Len(m.list) = 0 /\ m.count \in Nat /\ Recorded(m)
    BY <2>1 DEF Memory, Recorded
  <2>4. Sound(m, l)
    BY <2>1, <2>2, <2>3 DEF Sound
  <2> QED BY <2>1, <2>4, OneProcess
<1> QED BY <1>1, <1>2

\* A linked pointer as the receiver copies it.
Linked(m, e) == [m EXCEPT !.ptr[e.container_address] = m.ptr[e.linked_address]]

LEMMA LinkedMemory ==
  ASSUME NEW m \in Memory, NEW e \in Entries, e.linked_address # NULL,
         NEW n, n = Linked(m, e)
  PROVE  /\ n \in Memory /\ n.list = m.list /\ n.stale = m.stale /\ n.count = m.count
         /\ n.heap = m.heap
<1> DEFINE q == [m.ptr EXCEPT ![e.container_address] = m.ptr[e.linked_address]]
<1>1. e.container_address \in Container /\ e.linked_address \in Container
  BY DEF Entries
<1>2. q \in [Container -> Addr]
  BY <1>1 DEF Memory
<1>3. n = [m EXCEPT !.ptr = q]
  BY DEF Linked
<1> HIDE DEF q
<1> QED BY <1>2, <1>3 DEF Memory

\* What a round of either loop leaves of the memory of a process.
LEMMA RoundSound ==
  ASSUME HeapInv, NEW p \in Process, NEW k, NEW n, k # "none", Round(p, k, n),
         n \in Memory, Recorded(n), n.count = mem[p].count,
         Len(n.list) <= Len(mem[p].list) + 1
  PROVE  HeapInv'
<1> DEFINE l == [loop[p] EXCEPT !.next = @ + 1]
<1>1. /\ mem' = [mem EXCEPT ![p] = n] /\ loop' = [loop EXCEPT ![p] = l] /\ ckpt' = ckpt
      /\ loop[p].kind = k /\ loop[p].next <= Len(loop[p].entries)
  BY DEF Round
<1>2. Sound(mem[p], loop[p]) /\ loop[p] \in Loop /\ mem[p] \in Memory
  BY DEF HeapInv, Sound
<1>3. /\ l \in Loop /\ l.next = loop[p].next + 1 /\ l.entries = loop[p].entries
      /\ l.kind = loop[p].kind
  BY <1>2 DEF Loop
<1>4. /\ Len(n.list) \in Nat /\ Len(mem[p].list) \in Nat /\ n.count \in Nat
      /\ Len(loop[p].entries) \in Nat /\ loop[p].next \in Nat
  <2>1. n.list \in Seq(Entries) /\ mem[p].list \in Seq(Entries) /\ n.count \in 0..MaxCount
    BY ONLY <1>2, n \in Memory DEF Memory
  <2>2. loop[p].entries \in Seq(Saved) /\ loop[p].next \in Nat
    BY ONLY <1>2 DEF Loop
  <2> QED BY ONLY <2>1, <2>2
<1> HIDE DEF l
<1>5. Sound(n, l)
  <2>1. /\ Len(mem[p].list) <= mem[p].count
        /\ Len(mem[p].list) + Len(loop[p].entries) + 1 <= mem[p].count + loop[p].next
    BY <1>1, <1>2 DEF Sound
  <2>2. /\ Len(n.list) <= n.count
        /\ l.next <= Len(l.entries) + 1
        /\ Len(n.list) + Len(l.entries) + 1 <= n.count + l.next
    <3> DEFINE a == Len(n.list)
               b == Len(mem[p].list)
               e == Len(loop[p].entries)
               x == loop[p].next
               y == n.count
    <3>1. /\ a \in Nat /\ b \in Nat /\ e \in Nat /\ x \in Nat /\ y \in Nat
          /\ a <= b + 1 /\ b + e + 1 <= y + x /\ x <= e
      BY ONLY <1>1, <1>4, <2>1, n.count = mem[p].count, Len(n.list) <= Len(mem[p].list) + 1
    <3>2. l.next = x + 1 /\ Len(l.entries) = e
      BY <1>3
    <3> HIDE DEF a, b, e, x, y
    <3>3. a <= y /\ x + 1 <= e + 1 /\ a + e + 1 <= y + (x + 1)
      BY <3>1
    <3>4. Len(n.list) = a /\ n.count = y
      BY DEF a, y
    <3> QED BY ONLY <3>2, <3>3, <3>4
  <2> QED BY <1>3, <2>2 DEF Sound
<1> QED BY <1>1, <1>5, OneProcess

\* The entry a loop has come to, and the room left for it.
LEMMA RoundRoom ==
  ASSUME HeapInv, NEW p \in Process, NEW k, NEW n, k # "none", Round(p, k, n)
  PROVE  /\ Current(p) \in Saved /\ Current(p).entry \in Entries /\ Current(p).data \in Contents
         /\ mem[p] \in Memory /\ Recorded(mem[p]) /\ Len(mem[p].list) < MaxCount
         /\ Len(mem[p].list) \in Nat /\ mem[p].list \in Seq(Entries)
<1>1. Sound(mem[p], loop[p]) /\ loop[p].kind = k /\ loop[p].next <= Len(loop[p].entries)
  BY DEF HeapInv, Round
<1>2. /\ mem[p] \in Memory /\ loop[p] \in Loop /\ Recorded(mem[p])
      /\ Len(mem[p].list) + Len(loop[p].entries) + 1 <= mem[p].count + loop[p].next
  BY <1>1 DEF Sound
<1>3. /\ mem[p].list \in Seq(Entries) /\ mem[p].count \in 0..MaxCount
      /\ loop[p].entries \in Seq(Saved) /\ loop[p].next \in Nat \ {0}
  BY <1>2 DEF Memory, Loop
<1>4. Current(p) \in Saved
  <2> DEFINE s == loop[p].entries
             x == loop[p].next
  <2>1. s \in Seq(Saved) /\ x \in 1..Len(s)
    BY <1>1, <1>3
  <2>2. Current(p) = s[x]
    BY DEF Current
  <2> HIDE DEF s, x
  <2> QED BY <2>1, <2>2
<1>5. Current(p).entry \in Entries /\ Current(p).data \in Contents
  BY <1>4 DEF Saved
<1>6. Len(mem[p].list) < MaxCount
  <2> DEFINE b == Len(mem[p].list)
             e == Len(loop[p].entries)
             x == loop[p].next
             y == mem[p].count
  <2>1. /\ b \in Nat /\ e \in Nat /\ x \in Nat /\ y \in Nat /\ y <= MaxCount
        /\ b + e + 1 <= y + x /\ x <= e /\ MaxCount \in Nat
    <3>1. b \in Nat /\ e \in Nat /\ x \in Nat
      BY <1>3
    <3>2. y \in Nat /\ y <= MaxCount /\ MaxCount \in Nat
      BY <1>3, HeapAssumption
    <3> QED BY <1>1, <1>2, <3>1, <3>2
  <2> HIDE DEF b, e, x, y
  <2>2. b < MaxCount
    BY <2>1
  <2> QED BY <2>2 DEF b
<1> QED BY <1>2, <1>3, <1>4, <1>5, <1>6

LEMMA FillSound ==
  ASSUME HeapInv, NEW p \in Process, NEW k, k # "none",
         Round(p, k, Filled(mem[p], Current(p).entry, Current(p).data))
  PROVE  HeapInv'
<1> DEFINE m == mem[p]
           x == Current(p)
           n == Filled(m, x.entry, x.data)
<1>1. /\ x.entry \in Entries /\ x.data \in Contents /\ m \in Memory /\ Recorded(m)
      /\ Len(m.list) < MaxCount /\ Len(m.list) \in Nat /\ m.list \in Seq(Entries)
  BY RoundRoom
<1>2. Round(p, k, n)
  OBVIOUS
<1> HIDE DEF x
<1>3. /\ n \in Memory /\ n.count = m.count /\ Recorded(n)
      /\ GrowsBy(m, n, x.entry, x.data)
  <2> HIDE DEF m
  <2> QED BY <1>1, FilledMemory
<1> HIDE DEF n
<1>4. Len(n.list) = Len(m.list) + 1
  BY <1>1, <1>3, Appended DEF Grows, GrowsBy
<1>5. Len(n.list) <= Len(m.list) + 1
  BY <1>1, <1>4
<1> QED BY <1>2, <1>3, <1>5, RoundSound

LEMMA ReceiveSound ==
  ASSUME HeapInv, NEW p \in Process, ReceiveEntry(p)
  PROVE  HeapInv'
<1> DEFINE m == mem[p]
           x == Current(p)
           n == Linked(m, x.entry)
<1>1. CASE x.entry.linked_address = NULL
  BY <1>1, FillSound DEF ReceiveEntry
<1>2. CASE x.entry.linked_address # NULL
  <2>1. Round(p, "transfer", n)
    BY <1>2 DEF ReceiveEntry, Linked
  <2>2. /\ x.entry \in Entries /\ m \in Memory /\ Recorded(m) /\ Len(m.list) \in Nat
    BY <2>1, RoundRoom
  <2>3. /\ n \in Memory /\ n.list = m.list /\ n.count = m.count /\ n.heap = m.heap
    BY <1>2, <2>2, LinkedMemory
  <2> HIDE DEF n
  <2>4. Recorded(n) /\ Len(n.list) <= Len(m.list) + 1
    BY <2>2, <2>3 DEF Recorded, BlocksOf
  <2> QED BY <2>1, <2>3, <2>4, RoundSound
<1> QED BY <1>1, <1>2

LEMMA LoopEndsSound ==
  ASSUME HeapInv, NEW p \in Process, LoopEnds(p)
  PROVE  HeapInv'
<1>1. /\ mem' = [mem EXCEPT ![p] = mem[p]] /\ loop' = [loop EXCEPT ![p] = NoLoop]
      /\ ckpt' = ckpt
  BY DEF LoopEnds, HeapInv
<1>2. NoLoop \in Loop /\ NoLoop.kind = "none"
  BY FirstMemory DEF NoLoop, Sound
<1>3. Sound(mem[p], NoLoop)
  BY <1>2 DEF HeapInv, Sound
<1> QED BY <1>1, <1>3, OneProcess

\* What is saved is the walk.
LEMMA SaveSound ==
  ASSUME HeapInv, NEW p \in Process, save_heap_seg(p)
  PROVE  HeapInv'
<1> DEFINE m == mem[p]
           f == [count |-> m.count, ptr |-> m.ptr, image |-> m, entries |-> Walked(m)]
<1>1. mem' = mem /\ loop' = loop
  BY DEF save_heap_seg, Step, HeapInv
<1>2. Sound(m, loop[p]) /\ m \in Memory /\ Len(m.list) <= m.count
  BY DEF HeapInv, Sound
<1>3. CASE WalkFault(m) # "none"
  BY <1>1, <1>3, SameState DEF save_heap_seg
<1>4. CASE WalkFault(m) = "none"
  <2>1. ckpt' = {f}
    BY <1>4 DEF save_heap_seg
  <2>2. Walked(m) \in Seq(Saved) /\ Len(Walked(m)) = Len(m.list)
    BY <1>2, <1>4, WalkedType
  <2>3. SoundFile(f)
    <3> HIDE DEF m
    <3>1. m.count \in 0..MaxCount /\ m.ptr \in [Container -> Addr]
      BY <1>2 DEF Memory
    <3>2. f \in Checkpoint /\ f.entries = Walked(m) /\ f.count = m.count
      BY <1>2, <2>2, <3>1 DEF Checkpoint
    <3> QED BY <1>2, <2>2, <3>2 DEF SoundFile
  <2> HIDE DEF f
  <2> QED BY <1>1, <2>1, <2>3 DEF HeapInv
<1> QED BY <1>3, <1>4

\* What the start from a checkpoint does.
LEMMA RestartEffect ==
  ASSUME HeapInv, init_ckpt_restore, ~UNCHANGED <<mem, loop>>
  PROVE  \E f \in ckpt :
            /\ f.count = Len(f.entries) /\ SoundFile(f)
            /\ mem' = [p \in Process |-> Started(Transferred(f.ptr), f.count)]
            /\ loop' = [p \in Process |-> [kind |-> "restore", next |-> 1,
                                           image |-> f.image, entries |-> f.entries]]
            /\ fault' = fault /\ ckpt' = ckpt /\ used' = used
<1>1. PICK f \in ckpt :
            /\ ~(f.count > Len(f.entries))
            /\ mem' = [p \in Process |-> Started(Transferred(f.ptr), f.count)]
            /\ loop' = [p \in Process |-> [kind |-> "restore", next |-> 1, image |-> f.image,
                                           entries |-> SubSeq(f.entries, 1, f.count)]]
            /\ fault' = fault /\ ckpt' = ckpt /\ used' = used
  BY DEF init_ckpt_restore, Started
<1>2. SoundFile(f) /\ f.entries \in Seq(Saved) /\ f.count \in 0..MaxCount
      /\ Len(f.entries) <= f.count
  BY DEF HeapInv, SoundFile, Checkpoint
<1>3. f.count = Len(f.entries)
  BY <1>1, <1>2
<1>4. SubSeq(f.entries, 1, f.count) = f.entries
  BY <1>2, <1>3, WholeWalk
<1> QED BY <1>1, <1>2, <1>3, <1>4

LEMMA RestartSound ==
  ASSUME HeapInv, init_ckpt_restore
  PROVE  HeapInv'
<1>0. ckpt' = ckpt
  BY DEF init_ckpt_restore
<1>1. CASE UNCHANGED <<mem, loop>>
  BY <1>0, <1>1, SameState
<1>2. CASE ~UNCHANGED <<mem, loop>>
  <2>1. PICK f \in ckpt :
            /\ f.count = Len(f.entries) /\ SoundFile(f)
            /\ mem' = [p \in Process |-> Started(Transferred(f.ptr), f.count)]
            /\ loop' = [p \in Process |-> [kind |-> "restore", next |-> 1,
                                           image |-> f.image, entries |-> f.entries]]
    BY <1>2, RestartEffect
  <2> DEFINE m == Started(Transferred(f.ptr), f.count)
             l == [kind |-> "restore", next |-> 1, image |-> f.image, entries |-> f.entries]
  <2>2. f \in Checkpoint /\ f.count \in 0..MaxCount /\ f.ptr \in [Container -> Addr]
        /\ f.entries \in Seq(Saved) /\ f.image \in Memory
    BY <2>1 DEF SoundFile, Checkpoint
  <2>3. m \in Memory /\ Recorded(m) /\ m.list = <<>> /\ m.count = f.count
    BY <2>2, TransferredType, StartedMemory
  <2>4. l \in Loop /\ l.next = 1 /\ l.entries = f.entries
    BY <2>2 DEF Loop
  <2> HIDE DEF m, l
  <2>5. Sound(m, l)
    <3>1. Len(m.list) = 0 /\ f.count \in Nat
      BY <2>2, <2>3
    <3> QED BY <2>1, <2>3, <2>4, <3>1 DEF Sound
  <2>6. mem' = [p \in Process |-> m] /\ loop' = [p \in Process |-> l]
    BY <2>1 DEF m, l
  <2> QED BY <1>0, <2>5, <2>6 DEF HeapInv
<1> QED BY <1>1, <1>2

LEMMA HeapInvInit == Init => HeapInv
BY FirstMemory DEF Init, HeapInv

LEMMA HeapInvNext == HeapInv /\ [Next]_vars => HeapInv'
<1> SUFFICES ASSUME HeapInv, [Next]_vars PROVE HeapInv'
  OBVIOUS
<1>1. CASE UNCHANGED vars
  BY <1>1, SameState DEF vars
<1>2. ASSUME NEW p \in Process, NEW c \in Container, NEW s \in 1..MaxSize,
             rep_malloc(p, c, s)
      PROVE  HeapInv'
  BY <1>2, MallocSound
<1>3. ASSUME NEW p \in Process, NEW c \in Container, rep_free(p, c) PROVE HeapInv'
  BY <1>3, FreeSound
<1>4. ASSUME NEW p \in Process, NEW c \in Container, NEW d \in Container,
             rep_assign_malloc_context(p, c, d)
      PROVE  HeapInv'
  BY <1>4, AssignSound
<1>5. ASSUME NEW s \in Process, NEW r \in Process, transfer_heap_seg(s, r) PROVE HeapInv'
  BY <1>5, TransferSound
<1>6. ASSUME NEW p \in Process, ReceiveEntry(p) PROVE HeapInv'
  BY <1>6, ReceiveSound
<1>7. ASSUME NEW p \in Process, RestoreEntry(p) PROVE HeapInv'
  BY <1>7, FillSound DEF RestoreEntry
<1>8. ASSUME NEW p \in Process, LoopEnds(p) PROVE HeapInv'
  BY <1>8, LoopEndsSound
<1>9. ASSUME NEW p \in Process, save_heap_seg(p) PROVE HeapInv'
  BY <1>9, SaveSound
<1>10. CASE init_ckpt_restore
  BY <1>10, RestartSound
<1> QED BY <1>1, <1>2, <1>3, <1>4, <1>5, <1>6, <1>7, <1>8, <1>9, <1>10 DEF Next

\* Whatever the program allocates, copies and frees, and however often its
\* heap is moved, saved and restored: every allocated block has an entry in
\* the Malloc_list, and malloc_number_of_allocations is never below its
\* length.
THEOREM EveryBlockRecordedHolds == Spec => []EveryBlockRecorded
<1>1. HeapInv => EveryBlockRecorded
  BY DEF HeapInv, Sound, Recorded, EveryBlockRecorded
<1> QED BY <1>1, HeapInvInit, HeapInvNext, PTL DEF Spec

-----------------------------------------------------------------------------
(* A program that only allocates, and replaces no block by a smaller one.  *)

\* i is the latest of the first k entries for container c.
Latest(l, k, c, i) ==
  /\ i \in 1..k /\ l[i].container_address = c
  /\ \A j \in 1..k : j > i => l[j].container_address # c

\* The list is the heap: one entry for every block, with its size, and every
\* pointer leads to the block of the latest entry for it, which is as large as
\* any entry of the pointer says.  (Two blocks may be recorded for one
\* container: the program has lost the pointer to the first.)
Good(m) ==
  /\ m.stale = {} /\ m.count = Len(m.list)
  /\ FreesOnce(m)
  /\ \A i \in DOMAIN m.list :
        /\ m.list[i].linked_address = NULL
        /\ m.ptr[m.list[i].container_address] # NULL
        /\ m.heap[m.list[i].allocated_address].size = m.list[i].size
        /\ m.list[i].size <= m.heap[m.ptr[m.list[i].container_address]].size
  /\ \A c \in Container :
        m.ptr[c] # NULL => \E i \in DOMAIN m.list :
                              /\ Latest(m.list, Len(m.list), c, i)
                              /\ m.list[i].allocated_address = m.ptr[c]

\* The first k entries of g have been copied into m: the containers of these
\* point to the latest block recorded for them, with the right contents, and
\* the others are as they arrived.
CopiedTo(m, g, k) ==
  /\ m.stale = {} /\ m.count = g.count /\ FreesOnce(m) /\ Len(m.list) = k
  /\ \A i \in DOMAIN m.list :
        /\ m.list[i].linked_address = NULL
        /\ m.list[i].container_address = g.list[i].container_address
        /\ m.list[i].size = g.list[i].size
        /\ m.heap[m.list[i].allocated_address].size = m.list[i].size
  /\ \A c \in Container :
        \/ \E i \in 1..k : /\ Latest(g.list, k, c, i)
                           /\ m.ptr[c] = m.list[i].allocated_address
                           /\ m.heap[m.ptr[c]].datum = g.heap[g.ptr[c]].datum
        \/ /\ \A i \in 1..k : g.list[i].container_address # c
           /\ m.ptr[c] = Transferred(g.ptr)[c]

\* No two entries for one container.
Single(m) ==
  \A i, j \in DOMAIN m.list :
      m.list[i].container_address = m.list[j].container_address => i = j

Partial(m, l) ==
  /\ Good(l.image) /\ l.entries = Walked(l.image)
  /\ CopiedTo(m, l.image, l.next - 1)

Proper(m, l) == IF l.kind = "none" THEN Good(m) ELSE Partial(m, l)

GoodFile(f) ==
  /\ Good(f.image) /\ f.entries = Walked(f.image)
  /\ f.count = f.image.count /\ f.ptr = f.image.ptr

Intact ==
  /\ fault = "none"
  /\ \A p \in Process : Proper(mem[p], loop[p])
  /\ \A f \in ckpt : GoodFile(f)

AllocInv == Allocates => Intact

LEMMA GoodPoints ==
  ASSUME NEW m \in Memory, Good(m), NEW i \in DOMAIN m.list
  PROVE  /\ Points(m, m.list[i].container_address)
         /\ m.heap[m.ptr[m.list[i].container_address]] \in Contents
<1> DEFINE c == m.list[i].container_address
<1>1. c \in Container /\ m.ptr[c] # NULL
  BY EntryType DEF Good
<1>2. PICK j \in DOMAIN m.list : m.list[j].allocated_address = m.ptr[c]
  BY <1>1 DEF Good
<1>3. m.ptr[c] \in BlocksOf(m)
  BY <1>2 DEF BlocksOf
<1>4. m.ptr[c] \in DOMAIN m.heap
  BY <1>3 DEF Good, FreesOnce
<1>5. m.heap[m.ptr[c]] \in Contents
  BY <1>4, HeapType
<1> QED BY <1>4, <1>5 DEF Points

LEMMA GoodWalk ==
  ASSUME NEW m \in Memory, Good(m)
  PROVE  WalkFault(m) = "none"
<1>1. ASSUME NEW i \in DOMAIN m.list
      PROVE  /\ Points(m, m.list[i].container_address)
             /\ ~(m.list[i].size > m.heap[m.ptr[m.list[i].container_address]].size)
  <2> DEFINE z == m.list[i].size
             h == m.heap[m.ptr[m.list[i].container_address]].size
  <2>1. Points(m, m.list[i].container_address)
    BY GoodPoints
  <2>2. h \in Nat
    BY GoodPoints DEF Contents
  <2>3. z \in Nat
    BY EntryType
  <2>4. z <= h
    BY DEF Good
  <2> HIDE DEF z, h
  <2>5. ~(z > h)
    BY ONLY <2>2, <2>3, <2>4
  <2> QED BY <2>1, <2>5 DEF z, h
<1>2. m.stale = {}
  BY DEF Good
<1> QED BY <1>1, <1>2 DEF WalkFault

LEMMA FirstGood == Good(NewMemory)
<1>1. DOMAIN NewMemory.list = {} /\ Len(NewMemory.list) = 0
  BY FirstMemory
<1>2. BlocksOf(NewMemory) = {}
  BY <1>1 DEF BlocksOf
<1> QED BY <1>1, <1>2, FirstMemory DEF Good, FreesOnce

\* A new block keeps the blocks of the list apart.
LEMMA GrownFreesOnce ==
  ASSUME NEW m \in Memory, FreesOnce(m), NEW n, NEW b \in Block, NEW d, NEW f \in Entries,
         Grows(m, n, b, d, f)
  PROVE  FreesOnce(n)
<1>1. m.list \in Seq(Entries) /\ n.list = Append(m.list, f) /\ f.allocated_address = b
  BY DEF Grows, Memory
<1>2. /\ Len(m.list) \in Nat /\ Len(n.list) = Len(m.list) + 1
      /\ DOMAIN m.list = 1..Len(m.list) /\ DOMAIN n.list = 1..(Len(m.list) + 1)
      /\ \A i \in 1..Len(m.list) : n.list[i] = m.list[i]
      /\ n.list[Len(m.list) + 1] = f
  BY <1>1, Appended
<1>3. \A i \in DOMAIN n.list : i \in DOMAIN m.list \/ i = Len(m.list) + 1
  BY <1>2
<1>4. \A i \in DOMAIN m.list : /\ n.list[i] = m.list[i]
                               /\ m.list[i].allocated_address \in DOMAIN m.heap
                               /\ m.list[i].allocated_address # b
  BY <1>2 DEF FreesOnce, BlocksOf, Grows
<1>5. BlocksOf(n) \subseteq DOMAIN n.heap
  <2>1. \A i \in DOMAIN n.list : n.list[i].allocated_address \in DOMAIN n.heap
    BY <1>1, <1>2, <1>3, <1>4 DEF Grows
  <2> QED BY <2>1 DEF BlocksOf
<1>6. ASSUME NEW i \in DOMAIN n.list, NEW j \in DOMAIN n.list,
             n.list[i].allocated_address = n.list[j].allocated_address
      PROVE  i = j
  BY <1>1, <1>2, <1>3, <1>4, <1>6 DEF FreesOnce
<1> QED BY <1>5, <1>6 DEF FreesOnce

LEMMA MallocGood ==
  ASSUME NEW m \in Memory, Good(m), NEW n, NEW b \in Block, NEW d, NEW f \in Entries,
         Grows(m, n, b, d, f), f.linked_address = NULL, n.count = m.count + 1,
         d.size = f.size,
         \A i \in DOMAIN m.list :
             m.list[i].container_address = f.container_address => m.list[i].size <= f.size
  PROVE  Good(n)
<1>1. /\ m.list \in Seq(Entries) /\ n.list = Append(m.list, f) /\ f.allocated_address = b
      /\ m.ptr \in [Container -> Addr] /\ f.container_address \in Container
  BY DEF Grows, Memory, Entries
<1>2. /\ Len(m.list) \in Nat /\ Len(n.list) = Len(m.list) + 1
      /\ DOMAIN m.list = 1..Len(m.list) /\ DOMAIN n.list = 1..(Len(m.list) + 1)
      /\ \A i \in 1..Len(m.list) : n.list[i] = m.list[i]
      /\ n.list[Len(m.list) + 1] = f
  BY <1>1, Appended
<1>3. \A i \in DOMAIN n.list : i \in DOMAIN m.list \/ i = Len(m.list) + 1
  BY <1>2
<1>4. /\ n.ptr[f.container_address] = b /\ b # NULL
      /\ \A c \in Container : c # f.container_address => n.ptr[c] = m.ptr[c]
  BY <1>1, BlockType DEF Grows
<1>5. n.stale = {} /\ n.count = Len(n.list) /\ FreesOnce(n)
  BY <1>2, GrownFreesOnce DEF Good, Grows
<1>6. ASSUME NEW i \in DOMAIN n.list
      PROVE  /\ n.list[i].linked_address = NULL /\ n.ptr[n.list[i].container_address] # NULL
             /\ n.heap[n.list[i].allocated_address].size = n.list[i].size
             /\ n.list[i].size <= n.heap[n.ptr[n.list[i].container_address]].size
  <2>0. n.heap[b] = d /\ \A x \in DOMAIN m.heap : n.heap[x] = m.heap[x]
    BY DEF Grows
  <2>1. CASE i = Len(m.list) + 1
    <3>1. n.list[i] = f /\ f.size \in Nat
      BY <1>2, <2>1 DEF Entries
    <3>2. n.heap[n.list[i].allocated_address].size = f.size
      BY <1>1, <2>0, <3>1
    <3>3. n.heap[n.ptr[n.list[i].container_address]].size = f.size
      BY <1>4, <2>0, <3>1
    <3>4. f.size <= f.size
      BY <3>1
    <3> QED BY <1>4, <3>1, <3>2, <3>3, <3>4
  <2>2. CASE i \in DOMAIN m.list
    <3> DEFINE c == m.list[i].container_address
    <3>1. /\ n.list[i] = m.list[i] /\ c \in Container
          /\ m.list[i].linked_address = NULL /\ m.ptr[c] # NULL
          /\ m.heap[m.list[i].allocated_address].size = m.list[i].size
          /\ m.list[i].size <= m.heap[m.ptr[c]].size
      BY <1>2, <2>2, EntryType DEF Good
    <3>2. m.list[i].allocated_address \in DOMAIN m.heap
      BY <2>2 DEF Good, FreesOnce, BlocksOf
    <3>3. m.ptr[c] \in DOMAIN m.heap
      BY <2>2, GoodPoints DEF Points
    <3>4. CASE c = f.container_address
      <4>1. n.heap[n.ptr[c]].size = f.size /\ m.list[i].size <= f.size
        BY <1>4, <2>0, <2>2, <3>4
      <4> QED BY <1>4, <2>0, <3>1, <3>2, <3>4, <4>1
    <3>5. CASE c # f.container_address
      <4>1. n.ptr[c] = m.ptr[c] /\ n.heap[n.ptr[c]] = m.heap[m.ptr[c]]
        BY <1>4, <2>0, <3>1, <3>3, <3>5
      <4> QED BY <2>0, <3>1, <3>2, <4>1
    <3> QED BY <3>4, <3>5
  <2> QED BY <1>3, <2>1, <2>2
<1>7. ASSUME NEW c \in Container, n.ptr[c] # NULL
      PROVE  \E i \in DOMAIN n.list : /\ Latest(n.list, Len(n.list), c, i)
                                      /\ n.list[i].allocated_address = n.ptr[c]
  <2>1. CASE c = f.container_address
    <3>1. /\ Len(m.list) + 1 \in DOMAIN n.list /\ Len(m.list) + 1 \in 1..Len(n.list)
          /\ \A j \in 1..Len(n.list) : ~(j > Len(m.list) + 1)
      BY ONLY <1>2
    <3>2. Latest(n.list, Len(n.list), c, Len(m.list) + 1)
      BY ONLY <1>2, <2>1, <3>1 DEF Latest
    <3> QED BY ONLY <1>1, <1>2, <1>4, <2>1, <3>1, <3>2, Zenon
  <2>2. CASE c # f.container_address
    <3>1. PICK i \in DOMAIN m.list : /\ Latest(m.list, Len(m.list), c, i)
                                     /\ m.list[i].allocated_address = m.ptr[c]
      BY <1>4, <1>7, <2>2 DEF Good
    <3>2. i \in DOMAIN n.list /\ n.list[i] = m.list[i]
      BY <1>2
    <3>3. Latest(n.list, Len(n.list), c, i)
      <4>1. i \in 1..Len(n.list) /\ n.list[i].container_address = c
        BY <1>2, <3>1, <3>2 DEF Latest
      <4>2. ASSUME NEW j \in 1..Len(n.list), j > i PROVE n.list[j].container_address # c
        <5>1. CASE j = Len(m.list) + 1
          BY <1>2, <2>2, <5>1
        <5>2. CASE j \in 1..Len(m.list)
          BY <1>2, <3>1, <4>2, <5>2 DEF Latest
        <5> QED BY <1>2, <1>3, <5>1, <5>2
      <4> QED BY <4>1, <4>2 DEF Latest
    <3> QED BY <1>4, <2>2, <3>1, <3>2, <3>3
  <2> QED BY <2>1, <2>2
<1> QED BY <1>5, <1>6, <1>7 DEF Good

\* Before the first round.
LEMMA NothingCopied ==
  ASSUME NEW m \in Memory, NEW g \in Memory, m.list = <<>>, m.stale = {},
         m.count = g.count, m.ptr = Transferred(g.ptr)
  PROVE  CopiedTo(m, g, 0)
<1>1. DOMAIN m.list = {} /\ Len(m.list) = 0 /\ 1..0 = {}
  OBVIOUS
<1>2. BlocksOf(m) = {}
  BY <1>1 DEF BlocksOf
<1> QED BY <1>1, <1>2 DEF CopiedTo, FreesOnce

\* What is sent for an entry of a list without linked pointers.
LEMMA GoodEntry ==
  ASSUME NEW g \in Memory, Good(g), NEW i \in DOMAIN g.list
  PROVE  /\ Walked(g)[i].entry = g.list[i]
         /\ Walked(g)[i].data.datum = g.heap[g.ptr[g.list[i].container_address]].datum
         /\ Walked(g)[i].data.size = g.list[i].size
         /\ g.list[i].linked_address = NULL
BY DEF Walked, Good, Content

\* A round.
LEMMA OneCopied ==
  ASSUME NEW m \in Memory, NEW g \in Memory, Good(g), NEW k \in Nat,
         CopiedTo(m, g, k), k + 1 \in DOMAIN g.list,
         NEW n, NEW b \in Block, NEW d, NEW f \in Entries, Grows(m, n, b, d, f),
         d.datum = g.heap[g.ptr[g.list[k + 1].container_address]].datum,
         d.size = g.list[k + 1].size, f.size = g.list[k + 1].size,
         f.container_address = g.list[k + 1].container_address,
         f.linked_address = NULL, n.count = m.count
  PROVE  CopiedTo(n, g, k + 1)
<1>1. /\ m.list \in Seq(Entries) /\ n.list = Append(m.list, f) /\ f.allocated_address = b
      /\ m.ptr \in [Container -> Addr] /\ f.container_address \in Container
      /\ Len(m.list) = k
  BY DEF Grows, Memory, Entries, CopiedTo
<1>2. /\ Len(n.list) = k + 1
      /\ DOMAIN m.list = 1..k /\ DOMAIN n.list = 1..(k + 1)
      /\ \A i \in 1..k : n.list[i] = m.list[i]
      /\ n.list[k + 1] = f
  BY ONLY <1>1, f \in Entries, k \in Nat, Appended
<1>3. \A i \in 1..(k + 1) : i \in 1..k \/ i = k + 1
  BY ONLY k \in Nat
<1>4. \A i \in 1..k : i \in 1..(k + 1)
  BY ONLY k \in Nat
<1>5. k + 1 \in 1..(k + 1)
  BY ONLY k \in Nat
<1>6. /\ n.ptr[f.container_address] = b
      /\ \A c \in Container : c # f.container_address => n.ptr[c] = m.ptr[c]
      /\ n.heap[b] = d /\ \A x \in DOMAIN m.heap : n.heap[x] = m.heap[x]
  BY <1>1 DEF Grows
<1>7. /\ n.stale = {} /\ n.count = g.count /\ FreesOnce(n)
  BY GrownFreesOnce DEF CopiedTo, Grows
<1>8. ASSUME NEW i \in DOMAIN n.list
      PROVE  /\ n.list[i].linked_address = NULL
             /\ n.list[i].container_address = g.list[i].container_address
             /\ n.list[i].size = g.list[i].size
             /\ n.heap[n.list[i].allocated_address].size = n.list[i].size
  <2>1. CASE i = k + 1
    BY <1>1, <1>2, <1>6, <2>1
  <2>2. CASE i \in 1..k
    <3>1. /\ m.list[i].linked_address = NULL
          /\ m.list[i].container_address = g.list[i].container_address
          /\ m.list[i].size = g.list[i].size
          /\ m.heap[m.list[i].allocated_address].size = m.list[i].size
          /\ m.list[i].allocated_address \in DOMAIN m.heap
      BY ONLY <1>2, <2>2, CopiedTo(m, g, k) DEF CopiedTo, FreesOnce, BlocksOf
    <3>2. n.list[i] = m.list[i]
      BY <1>2, <2>2
    <3> QED BY <1>6, <3>1, <3>2
  <2> QED BY <1>2, <1>3, <2>1, <2>2
<1>9. ASSUME NEW c \in Container
      PROVE  \/ \E i \in 1..(k + 1) : /\ Latest(g.list, k + 1, c, i)
                                      /\ n.ptr[c] = n.list[i].allocated_address
                                      /\ n.heap[n.ptr[c]].datum = g.heap[g.ptr[c]].datum
             \/ /\ \A i \in 1..(k + 1) : g.list[i].container_address # c
                /\ n.ptr[c] = Transferred(g.ptr)[c]
  <2>1. CASE c = f.container_address
    <3>1. /\ g.list[k + 1].container_address = c
          /\ n.ptr[c] = n.list[k + 1].allocated_address
          /\ n.heap[n.ptr[c]].datum = g.heap[g.ptr[c]].datum
      BY <1>1, <1>2, <1>6, <2>1
    <3>2. \A j \in 1..(k + 1) : ~(j > k + 1)
      BY ONLY k \in Nat
    <3>3. Latest(g.list, k + 1, c, k + 1)
      BY ONLY <1>5, <3>1, <3>2 DEF Latest
    <3> QED BY <1>5, <3>1, <3>3
  <2>2. CASE c # f.container_address
    <3>1. n.ptr[c] = m.ptr[c]
      BY <1>6, <2>2
    <3>2. ASSUME NEW i \in 1..k, Latest(g.list, k, c, i),
                 m.ptr[c] = m.list[i].allocated_address,
                 m.heap[m.ptr[c]].datum = g.heap[g.ptr[c]].datum
          PROVE  /\ i \in 1..(k + 1) /\ Latest(g.list, k + 1, c, i)
                 /\ n.ptr[c] = n.list[i].allocated_address
                 /\ n.heap[n.ptr[c]].datum = g.heap[g.ptr[c]].datum
      <4>1. m.list[i].allocated_address \in DOMAIN m.heap
        BY ONLY i \in 1..k, CopiedTo(m, g, k), <1>2 DEF CopiedTo, FreesOnce, BlocksOf
      <4>2. i \in 1..(k + 1) /\ n.list[i] = m.list[i]
        BY <1>2, <1>4, Zenon
      <4>3. n.ptr[c] = n.list[i].allocated_address
        BY <3>1, <3>2, <4>2, Zenon
      <4>4. n.heap[n.ptr[c]] = m.heap[m.ptr[c]]
        <5>1. m.ptr[c] \in DOMAIN m.heap
          BY ONLY <3>2, <4>1
        <5> QED BY ONLY <1>6, <3>1, <5>1
      <4>5. Latest(g.list, k + 1, c, i)
        <5>1. g.list[i].container_address = c /\ \A j \in 1..k : j > i => g.list[j].container_address # c
          BY ONLY <3>2 DEF Latest
        <5>2. g.list[k + 1].container_address # c
          BY <2>2
        <5> QED BY ONLY <1>3, <4>2, <5>1, <5>2 DEF Latest
      <4> QED BY <3>2, <4>2, <4>3, <4>4, <4>5, Zenon
    <3>3. ASSUME \A i \in 1..k : g.list[i].container_address # c
          PROVE  \A i \in 1..(k + 1) : g.list[i].container_address # c
      BY <1>3, <2>2, <3>3
    <3>4. CASE \E i \in 1..k : /\ Latest(g.list, k, c, i)
                               /\ m.ptr[c] = m.list[i].allocated_address
                               /\ m.heap[m.ptr[c]].datum = g.heap[g.ptr[c]].datum
      BY <3>2, <3>4, Zenon
    <3>5. CASE /\ \A i \in 1..k : g.list[i].container_address # c
               /\ m.ptr[c] = Transferred(g.ptr)[c]
      BY <3>1, <3>3, <3>5, Zenon
    <3> QED BY <3>4, <3>5, Zenon DEF CopiedTo
  <2> QED BY <2>1, <2>2
<1> QED BY <1>2, <1>7, <1>8, <1>9 DEF CopiedTo

\* When all entries are copied, the memory is as good as the one copied.
LEMMA AllCopied ==
  ASSUME NEW m \in Memory, NEW g \in Memory, Good(g), CopiedTo(m, g, Len(g.list))
  PROVE  Good(m) /\ SameHeap(g, m) /\ (Single(g) => Single(m))
<1>0. DOMAIN g.list = 1..Len(g.list) /\ DOMAIN m.list = 1..Len(m.list)
  BY DEF Memory
<1>1. Len(m.list) = Len(g.list) /\ DOMAIN m.list = DOMAIN g.list
  BY <1>0 DEF CopiedTo
<1>2. ASSUME NEW c \in Container, NEW i \in DOMAIN g.list, g.list[i].container_address = c
      PROVE  \E j \in DOMAIN m.list : /\ Latest(m.list, Len(m.list), c, j)
                                      /\ m.list[j].container_address = c
                                      /\ m.ptr[c] = m.list[j].allocated_address
                                      /\ m.ptr[c] \in DOMAIN m.heap /\ m.ptr[c] # NULL
                                      /\ m.heap[m.ptr[c]] = g.heap[g.ptr[c]]
  <2>1. PICK j \in 1..Len(g.list) : /\ Latest(g.list, Len(g.list), c, j)
                                    /\ m.ptr[c] = m.list[j].allocated_address
                                    /\ m.heap[m.ptr[c]].datum = g.heap[g.ptr[c]].datum
    BY <1>0, <1>2 DEF CopiedTo
  <2>2. /\ j \in DOMAIN m.list /\ m.list[j].container_address = c
        /\ m.list[j].size = g.list[j].size /\ m.heap[m.ptr[c]].size = m.list[j].size
    BY <1>0, <1>1, <2>1 DEF CopiedTo, Latest
  <2>3. m.ptr[c] \in DOMAIN m.heap
    BY <2>1, <2>2 DEF CopiedTo, FreesOnce, BlocksOf
  <2>4. m.ptr[c] # NULL
    BY <2>3, HeapType, BlockType
  <2>5. Latest(m.list, Len(m.list), c, j)
    <3>1. \A x \in 1..Len(g.list) :
              m.list[x].container_address = g.list[x].container_address
      BY <1>0, <1>1 DEF CopiedTo
    <3> QED BY ONLY <1>1, <2>1, <2>2, <3>1 DEF Latest
  <2>6. g.ptr[c] # NULL
    BY <1>2 DEF Good
  <2>7. PICK x \in DOMAIN g.list : /\ Latest(g.list, Len(g.list), c, x)
                                   /\ g.list[x].allocated_address = g.ptr[c]
    BY <2>6 DEF Good
  <2>8. x = j
    <3>1. x \in 1..Len(g.list) /\ j \in 1..Len(g.list) /\ x \in Int /\ j \in Int
      BY <1>0
    <3>2. ~(x > j) /\ ~(j > x)
      BY ONLY <2>1, <2>7, <3>1 DEF Latest
    <3> QED BY ONLY <3>1, <3>2
  <2>9. g.heap[g.ptr[c]].size = g.list[j].size
    BY <2>7, <2>8 DEF Good
  <2>10. m.heap[m.ptr[c]] \in Contents /\ g.heap[g.ptr[c]] \in Contents
    <3>1. m.heap[m.ptr[c]] \in Contents
      BY <2>3, HeapType
    <3>2. g.heap[g.ptr[c]] \in Contents
      BY <1>2, GoodPoints
    <3> QED BY <3>1, <3>2
  <2>11. m.heap[m.ptr[c]] = g.heap[g.ptr[c]]
    <3>1. m.heap[m.ptr[c]].size = g.heap[g.ptr[c]].size
      BY ONLY <2>2, <2>9
    <3>2. m.heap[m.ptr[c]].datum = g.heap[g.ptr[c]].datum
      BY ONLY <2>1
    <3> QED BY ONLY <2>10, <3>1, <3>2, SameContent
  <2> QED BY <2>1, <2>2, <2>3, <2>4, <2>5, <2>11
<1>3. ASSUME NEW c \in Container, g.ptr[c] # NULL
      PROVE  \E i \in DOMAIN g.list : g.list[i].container_address = c
  BY <1>3 DEF Good, Latest
<1>4. ASSUME NEW c \in Container, m.ptr[c] # NULL
      PROVE  \E i \in DOMAIN g.list : g.list[i].container_address = c
  <2> SUFFICES ASSUME \A i \in 1..Len(g.list) : g.list[i].container_address # c
               PROVE  FALSE
    BY <1>0
  <2>1. m.ptr[c] = Transferred(g.ptr)[c]
    BY DEF CopiedTo, Latest
  <2>2. g.ptr[c] # NULL
    BY <1>4, <2>1 DEF Transferred
  <2> QED BY <1>0, <1>3, <2>2
<1>5. Good(m)
  <2>1. m.stale = {} /\ m.count = Len(m.list) /\ FreesOnce(m)
    BY <1>1 DEF CopiedTo, Good
  <2>2. ASSUME NEW i \in DOMAIN m.list
        PROVE  /\ m.list[i].linked_address = NULL /\ m.ptr[m.list[i].container_address] # NULL
               /\ m.heap[m.list[i].allocated_address].size = m.list[i].size
               /\ m.list[i].size <= m.heap[m.ptr[m.list[i].container_address]].size
    <3> DEFINE c == m.list[i].container_address
    <3>1. /\ m.list[i].linked_address = NULL
          /\ c = g.list[i].container_address /\ c \in Container
          /\ m.list[i].size = g.list[i].size
          /\ m.heap[m.list[i].allocated_address].size = m.list[i].size
      BY EntryType DEF CopiedTo
    <3>2. m.ptr[c] # NULL /\ m.heap[m.ptr[c]] = g.heap[g.ptr[c]]
      BY <1>1, <1>2, <3>1
    <3>3. g.list[i].size <= g.heap[g.ptr[c]].size
      BY <1>1, <3>1 DEF Good
    <3> QED BY <3>1, <3>2, <3>3
  <2>3. ASSUME NEW c \in Container, m.ptr[c] # NULL
        PROVE  \E j \in DOMAIN m.list : /\ Latest(m.list, Len(m.list), c, j)
                                        /\ m.list[j].allocated_address = m.ptr[c]
    BY <1>2, <1>4, <2>3
  <2> QED BY <2>1, <2>2, <2>3 DEF Good
<1>6. ASSUME NEW c \in Container, Points(g, c)
      PROVE  \E j \in DOMAIN m.list : /\ m.list[j].container_address = c
                                      /\ m.ptr[c] = m.list[j].allocated_address
                                      /\ m.ptr[c] \in DOMAIN m.heap
                                      /\ m.heap[m.ptr[c]] = g.heap[g.ptr[c]]
  <2>1. g.ptr[c] # NULL
    BY <1>6, HeapType, BlockType DEF Points
  <2> QED BY <1>2, <1>3, <2>1
<1>7. ASSUME NEW c \in Container, NEW d \in Container, Points(g, c), Points(g, d)
      PROVE  /\ g.ptr[c] = g.ptr[d] => c = d
             /\ m.ptr[c] = m.ptr[d] => c = d
  <2>1. g.ptr[c] # NULL /\ g.ptr[d] # NULL
    BY <1>7, HeapType, BlockType DEF Points
  <2>2. PICK i \in DOMAIN g.list : /\ g.list[i].container_address = c
                                   /\ g.list[i].allocated_address = g.ptr[c]
    BY <2>1 DEF Good, Latest
  <2>3. PICK j \in DOMAIN g.list : /\ g.list[j].container_address = d
                                   /\ g.list[j].allocated_address = g.ptr[d]
    BY <2>1 DEF Good, Latest
  <2>4. g.ptr[c] = g.ptr[d] => i = j
    BY <2>2, <2>3 DEF Good, FreesOnce
  <2>5. PICK x \in DOMAIN m.list : /\ m.list[x].container_address = c
                                   /\ m.ptr[c] = m.list[x].allocated_address
    BY <1>6, <1>7
  <2>6. PICK y \in DOMAIN m.list : /\ m.list[y].container_address = d
                                   /\ m.ptr[d] = m.list[y].allocated_address
    BY <1>6, <1>7
  <2>7. m.ptr[c] = m.ptr[d] => x = y
    <3>1. FreesOnce(m)
      BY DEF CopiedTo
    <3> QED BY ONLY <2>5, <2>6, <3>1 DEF FreesOnce
  <2> QED BY <2>2, <2>3, <2>4, <2>5, <2>6, <2>7
<1>8. SameHeap(g, m)
  BY <1>6, <1>7 DEF SameHeap, Points
<1>9. Single(g) => Single(m)
  <2>1. \A i \in DOMAIN m.list :
            m.list[i].container_address = g.list[i].container_address
    BY DEF CopiedTo
  <2> QED BY <1>1, <2>1 DEF Single
<1> QED BY <1>5, <1>8, <1>9

LEMMA OneIntact ==
  ASSUME HeapInv, Intact, NEW p \in Process, NEW m, NEW l, Proper(m, l),
         mem' = [mem EXCEPT ![p] = m], loop' = [loop EXCEPT ![p] = l], ckpt' = ckpt,
         fault' = "none"
  PROVE  Intact'
<1>1. /\ mem'[p] = m /\ loop'[p] = l
      /\ \A q \in Process : q # p => mem'[q] = mem[q] /\ loop'[q] = loop[q]
  BY DEF HeapInv
<1>2. \A q \in Process : Proper(mem'[q], loop'[q])
  BY <1>1 DEF Intact
<1> QED BY <1>2 DEF Intact

LEMMA MallocIntact ==
  ASSUME HeapInv, Intact, NEW p \in Process, NEW c \in Container, NEW s \in 1..MaxSize,
         rep_malloc(p, c, s), Allocates'
  PROVE  Intact'
<1> DEFINE m == mem[p]
           n == Malloced(m, c, s)
<1>0. Sound(m, loop[p]) /\ m \in Memory /\ Recorded(m) /\ Len(m.list) <= m.count
  BY DEF HeapInv, Sound
<1>1. /\ Sound(m, loop[p]) /\ m \in Memory /\ Recorded(m) /\ Len(m.list) <= m.count
      /\ s \in Nat
  BY ONLY <1>0, s \in 1..MaxSize, HeapAssumption
<1>2. Idle(p) /\ m.count < MaxCount /\ Good(m)
  BY DEF rep_malloc, Intact, Proper, Idle
<1>3. m.stale = {}
  BY <1>2 DEF Good
<1>4. fault' = "none" /\ mem' = [mem EXCEPT ![p] = n] /\ loop' = loop /\ ckpt' = ckpt
  BY <1>3 DEF rep_malloc, Step, Malloced
<1>5. \A i \in DOMAIN m.list : m.list[i].container_address = c => m.list[i].size <= s
  <2>1. "smaller" \notin Habit(m, c, s)
    BY DEF rep_malloc, Allocates
  <2>2. ASSUME NEW i \in DOMAIN m.list, m.list[i].container_address = c
        PROVE  ~(m.list[i].size > s)
    BY <2>1, <2>2 DEF Habit
  <2>3. \A i \in DOMAIN m.list : m.list[i].size \in Nat
    BY <1>1, EntryType
  <2> QED BY <1>1, <2>2, <2>3
<1> HIDE DEF m
<1>6. n.count = m.count + 1 /\ NewBlock(m, n, c, s)
  BY <1>1, <1>2, MallocMemory
<1> HIDE DEF n
<1>7. Good(n)
  <2>1. PICK b \in Block, f \in Entries : /\ Grows(m, n, b, Content(m.count + 1, s), f)
                                          /\ f.linked_address = NULL
                                          /\ f.container_address = c /\ f.size = s
    BY <1>6 DEF NewBlock
  <2>2. Content(m.count + 1, s).size = f.size
    BY <2>1 DEF Content
  <2> QED BY <1>1, <1>2, <1>5, <1>6, <2>1, <2>2, MallocGood
<1>8. Proper(n, loop[p])
  BY <1>2, <1>7 DEF Proper, Idle
<1>9. loop' = [loop EXCEPT ![p] = loop[p]]
  BY <1>4 DEF HeapInv
<1> QED BY <1>4, <1>8, <1>9, OneIntact

LEMMA TransferIntact ==
  ASSUME HeapInv, Intact, NEW s \in Process, NEW r \in Process, transfer_heap_seg(s, r)
  PROVE  Intact'
<1>1. Idle(s) /\ Idle(r) /\ Good(mem[s]) /\ Good(mem[r])
  BY DEF transfer_heap_seg, Intact, Proper, Idle
<1>2. /\ mem[s] \in Memory /\ mem[r] \in Memory /\ Len(mem[s].list) \in Nat
  <2>1. mem[s] \in Memory /\ mem[r] \in Memory
    BY DEF HeapInv, Sound
  <2>2. mem[s].list \in Seq(Entries)
    BY <2>1 DEF Memory
  <2> QED BY <2>1, <2>2
<1>3. TransferFault(s, r) = "none"
  <2>1. WalkFault(mem[s]) = "none"
    BY <1>1, <1>2, GoodWalk
  <2>2. mem[s].count = Len(mem[s].list) /\ mem[r].stale = {} /\ FreesOnce(mem[r])
    BY <1>1 DEF Good
  <2>3. ~(mem[s].count > Len(mem[s].list))
    BY <1>2, <2>2
  <2> QED BY <2>1, <2>2, <2>3 DEF TransferFault
<1>4. PICK m, l : Transfers(s, r, m, l)
  BY <1>3, TransferEffect, Zenon
<1>5. /\ mem' = [mem EXCEPT ![r] = m] /\ loop' = [loop EXCEPT ![r] = l]
       /\ ckpt' = ckpt /\ fault' = "none"
       /\ m \in Memory /\ m.list = <<>> /\ m.stale = {}
       /\ m.ptr = Transferred(mem[s].ptr) /\ m.count = mem[s].count
       /\ l = CopyLoop(mem[s])
  BY ONLY <1>4 DEF Transfers
<1>6. /\ l.kind = "transfer" /\ l.next - 1 = 0 /\ l.entries = Walked(mem[s])
      /\ l.image = mem[s]
  BY <1>5 DEF CopyLoop
<1>7. CopiedTo(m, mem[s], 0)
  BY <1>2, <1>5, NothingCopied
<1>8. Proper(m, l)
  BY <1>1, <1>6, <1>7 DEF Proper, Partial
<1> QED BY <1>5, <1>8, OneIntact

\* A round of either loop allocates, since no entry is linked.
LEMMA FillIntact ==
  ASSUME HeapInv, Intact, NEW p \in Process, NEW k, k # "none",
         Round(p, k, Filled(mem[p], Current(p).entry, Current(p).data))
  PROVE  Intact'
<1> DEFINE m == mem[p]
           x == Current(p)
           n == Filled(m, x.entry, x.data)
           g == loop[p].image
           z == loop[p].next - 1
           l == [loop[p] EXCEPT !.next = @ + 1]
<1>1. /\ x.entry \in Entries /\ x.data \in Contents /\ m \in Memory /\ Recorded(m)
      /\ Len(m.list) < MaxCount
  BY RoundRoom
<1>2. /\ loop[p].kind = k /\ loop[p].next <= Len(loop[p].entries)
      /\ mem' = [mem EXCEPT ![p] = n] /\ loop' = [loop EXCEPT ![p] = l]
      /\ ckpt' = ckpt /\ fault' = "none"
  BY DEF Round, Running
<1>3. Partial(m, loop[p]) /\ loop[p] \in Loop
  BY <1>2 DEF Intact, Proper, HeapInv, Sound
<1>4. /\ Good(g) /\ loop[p].entries = Walked(g) /\ CopiedTo(m, g, z)
      /\ g \in Memory /\ loop[p].next \in Nat \ {0}
  BY <1>3 DEF Partial, Loop
<1>5. /\ l.kind = k /\ l.image = g /\ l.entries = Walked(g) /\ l.next = z + 2
      /\ z \in Nat /\ z + 1 = loop[p].next /\ l.next - 1 = z + 1
  BY <1>2, <1>3, <1>4 DEF Loop
<1>6. WalkFault(g) = "none"
  BY <1>4, GoodWalk
<1>7. z + 1 \in DOMAIN g.list
  <2>1. Len(loop[p].entries) = Len(g.list) /\ DOMAIN g.list = 1..Len(g.list)
        /\ Len(g.list) \in Nat
    BY <1>4, <1>6, WalkedType DEF Memory
  <2> QED BY <1>2, <1>5, <2>1
<1>8. x = Walked(g)[z + 1]
  BY <1>4, <1>5 DEF Current
<1> HIDE DEF x, z, g, l
<1>9. /\ x.entry = g.list[z + 1] /\ x.entry.linked_address = NULL
      /\ x.data.datum = g.heap[g.ptr[g.list[z + 1].container_address]].datum
      /\ x.data.size = g.list[z + 1].size
  BY <1>4, <1>7, <1>8, GoodEntry
<1>10. n.count = m.count /\ GrowsBy(m, n, x.entry, x.data)
  <2> HIDE DEF m
  <2> QED BY <1>1, FilledMemory
<1> HIDE DEF n, m
<1>11. CopiedTo(n, g, z + 1)
  <2>1. PICK b \in Block, f \in Entries :
            /\ Grows(m, n, b, x.data, f)
            /\ f.container_address = x.entry.container_address
            /\ f.linked_address = x.entry.linked_address /\ f.size = x.entry.size
    BY <1>10 DEF GrowsBy
  <2>2. /\ f.container_address = g.list[z + 1].container_address
        /\ f.linked_address = NULL /\ f.size = g.list[z + 1].size
    BY <1>9, <2>1
  <2> QED BY <1>1, <1>4, <1>5, <1>7, <1>9, <1>10, <2>1, <2>2, OneCopied
<1>12. Proper(n, l)
  BY <1>4, <1>5, <1>11 DEF Proper, Partial
<1> QED BY <1>2, <1>12, OneIntact

LEMMA ReceiveIntact ==
  ASSUME HeapInv, Intact, NEW p \in Process, ReceiveEntry(p)
  PROVE  Intact'
<1> DEFINE n == IF Current(p).entry.linked_address # NULL
                THEN [mem[p] EXCEPT !.ptr[Current(p).entry.container_address]
                                      = mem[p].ptr[Current(p).entry.linked_address]]
                ELSE Filled(mem[p], Current(p).entry, Current(p).data)
           g == loop[p].image
           i == loop[p].next
<1>1. Round(p, "transfer", n)
  BY DEF ReceiveEntry
<1>2. loop[p].kind = "transfer" /\ i <= Len(loop[p].entries)
  BY <1>1 DEF Round
<1>3. Partial(mem[p], loop[p]) /\ loop[p] \in Loop
  BY <1>2 DEF Intact, Proper, HeapInv, Sound
<1>4. /\ Good(g) /\ loop[p].entries = Walked(g) /\ g \in Memory /\ i \in Nat \ {0}
  BY <1>3 DEF Partial, Loop
<1>5. i \in DOMAIN g.list
  <2>1. WalkFault(g) = "none"
    BY <1>4, GoodWalk
  <2>2. Len(loop[p].entries) = Len(g.list) /\ DOMAIN g.list = 1..Len(g.list)
        /\ Len(g.list) \in Nat
    BY <1>4, <2>1, WalkedType DEF Memory
  <2> QED BY <1>2, <1>4, <2>2
<1>6. Current(p) = Walked(g)[i]
  BY <1>4 DEF Current
<1> HIDE DEF n, g, i
<1>7. Current(p).entry.linked_address = NULL
  BY <1>4, <1>5, <1>6, GoodEntry
<1>8. n = Filled(mem[p], Current(p).entry, Current(p).data)
  BY <1>7 DEF n
<1> QED BY <1>1, <1>8, FillIntact

\* A loop that has come to its end has copied everything.
LEMMA LoopDone ==
  ASSUME HeapInv, Intact, NEW p \in Process, ~Idle(p),
         loop[p].next > Len(loop[p].entries)
  PROVE  /\ Good(mem[p]) /\ SameHeap(loop[p].image, mem[p])
         /\ Single(loop[p].image) => Single(mem[p])
<1> DEFINE g == loop[p].image
           i == loop[p].next
<1>1. Sound(mem[p], loop[p]) /\ Partial(mem[p], loop[p])
  BY DEF HeapInv, Intact, Proper, Idle
<1>2. /\ mem[p] \in Memory /\ loop[p] \in Loop /\ i <= Len(loop[p].entries) + 1
  BY <1>1 DEF Sound, Idle
<1>3. /\ Good(g) /\ loop[p].entries = Walked(g) /\ CopiedTo(mem[p], g, i - 1)
      /\ g \in Memory /\ i \in Nat
  BY <1>1, <1>2 DEF Partial, Loop
<1>4. WalkFault(g) = "none"
  BY <1>3, GoodWalk
<1>5. Len(loop[p].entries) = Len(g.list) /\ Len(g.list) \in Nat
  BY <1>3, <1>4, WalkedType DEF Memory
<1>6. i - 1 = Len(g.list)
  BY <1>2, <1>3, <1>5
<1> HIDE DEF i, g
<1>7. Good(mem[p]) /\ SameHeap(g, mem[p]) /\ (Single(g) => Single(mem[p]))
  BY <1>2, <1>3, <1>6, AllCopied
<1> QED BY <1>7 DEF g

LEMMA LoopEndsIntact ==
  ASSUME HeapInv, Intact, NEW p \in Process, LoopEnds(p)
  PROVE  Intact'
<1>1. /\ mem' = [mem EXCEPT ![p] = mem[p]] /\ loop' = [loop EXCEPT ![p] = NoLoop]
      /\ ckpt' = ckpt /\ fault' = "none"
  BY DEF LoopEnds, HeapInv, Running
<1>2. Good(mem[p])
  BY LoopDone DEF LoopEnds
<1>3. Proper(mem[p], NoLoop)
  BY <1>2 DEF Proper, NoLoop
<1> QED BY <1>1, <1>3, OneIntact

LEMMA SaveIntact ==
  ASSUME HeapInv, Intact, NEW p \in Process, save_heap_seg(p)
  PROVE  Intact'
<1> DEFINE m == mem[p]
           f == [count |-> m.count, ptr |-> m.ptr, image |-> m, entries |-> Walked(m)]
<1>1. Good(m) /\ m \in Memory
  BY DEF save_heap_seg, Intact, Proper, Idle, HeapInv, Sound
<1>2. WalkFault(m) = "none"
  BY <1>1, GoodWalk
<1>3. mem' = mem /\ loop' = loop /\ fault' = "none" /\ ckpt' = {f}
  BY <1>2 DEF save_heap_seg, Step, HeapInv
<1> HIDE DEF m
<1>4. f.image = m /\ f.entries = Walked(m) /\ f.count = m.count /\ f.ptr = m.ptr
  OBVIOUS
<1> HIDE DEF f
<1>5. GoodFile(f)
  BY <1>1, <1>4 DEF GoodFile
<1> QED BY <1>3, <1>5 DEF Intact

LEMMA RestartIntact ==
  ASSUME HeapInv, Intact, init_ckpt_restore
  PROVE  Intact'
<1>1. ASSUME NEW f \in ckpt
      PROVE  /\ ~(f.count > Len(f.entries)) /\ f.image \in Memory
             /\ f.count \in 0..MaxCount /\ f.ptr \in [Container -> Addr]
  <2>1. /\ GoodFile(f) /\ f \in Checkpoint
    BY DEF Intact, HeapInv, SoundFile
  <2>2. /\ f.image \in Memory /\ Good(f.image) /\ f.count = f.image.count
        /\ f.entries = Walked(f.image)
        /\ f.count \in 0..MaxCount /\ f.ptr \in [Container -> Addr]
    BY <2>1 DEF GoodFile, Checkpoint
  <2>3. Len(f.entries) = f.count
    BY <2>2, GoodWalk, WalkedType DEF Good
  <2> QED BY <2>2, <2>3
<1>2. fault' = "none" /\ ckpt' = ckpt
  BY <1>1 DEF init_ckpt_restore, Running
<1>3. CASE UNCHANGED <<mem, loop>>
  BY <1>2, <1>3 DEF Intact
<1>4. CASE ~UNCHANGED <<mem, loop>>
  <2>1. PICK f \in ckpt :
            /\ mem' = [p \in Process |-> Started(Transferred(f.ptr), f.count)]
            /\ loop' = [p \in Process |-> [kind |-> "restore", next |-> 1,
                                           image |-> f.image, entries |-> f.entries]]
    BY <1>4, RestartEffect
  <2> DEFINE m == Started(Transferred(f.ptr), f.count)
             l == [kind |-> "restore", next |-> 1, image |-> f.image, entries |-> f.entries]
  <2>2. /\ GoodFile(f) /\ f.image \in Memory /\ f.count \in 0..MaxCount
        /\ f.ptr \in [Container -> Addr]
    BY <1>1 DEF Intact
  <2>3. /\ m \in Memory /\ m.list = <<>> /\ m.stale = {} /\ m.count = f.count
        /\ m.ptr = Transferred(f.ptr)
    BY <2>2, TransferredType, StartedMemory
  <2>4. l.kind = "restore" /\ l.next - 1 = 0 /\ l.image = f.image /\ l.entries = f.entries
    OBVIOUS
  <2>5. mem' = [p \in Process |-> m] /\ loop' = [p \in Process |-> l]
    BY <2>1
  <2> HIDE DEF m, l
  <2>6. CopiedTo(m, f.image, 0)
    BY <2>2, <2>3, NothingCopied DEF GoodFile
  <2>7. Proper(m, l)
    BY <2>2, <2>4, <2>6 DEF Proper, Partial, GoodFile
  <2> QED BY <1>2, <2>5, <2>7 DEF Intact
<1> QED BY <1>3, <1>4

LEMMA AllocInvNext == HeapInv /\ AllocInv /\ [Next]_vars => AllocInv'
<1> SUFFICES ASSUME HeapInv, AllocInv, [Next]_vars, Allocates' PROVE Intact'
  BY DEF AllocInv
<1>0. used \subseteq used' => Allocates
  BY DEF Allocates
<1>1. CASE UNCHANGED vars
  BY <1>0, <1>1 DEF vars, AllocInv, Intact
<1>2. ASSUME NEW p \in Process, NEW c \in Container, NEW s \in 1..MaxSize,
             rep_malloc(p, c, s)
      PROVE  Intact'
  <2>1. used \subseteq used'
    BY <1>2 DEF rep_malloc
  <2> QED BY <1>0, <1>2, <2>1, MallocIntact DEF AllocInv
<1>3. ASSUME NEW p \in Process, NEW c \in Container, rep_free(p, c) PROVE FALSE
  BY <1>3 DEF rep_free, Allocates
<1>4. ASSUME NEW p \in Process, NEW c \in Container, NEW d \in Container,
             rep_assign_malloc_context(p, c, d)
      PROVE  FALSE
  BY <1>4 DEF rep_assign_malloc_context, Allocates
<1>5. ASSUME NEW s \in Process, NEW r \in Process, transfer_heap_seg(s, r) PROVE Intact'
  BY <1>0, <1>5, TransferIntact DEF transfer_heap_seg, AllocInv
<1>6. ASSUME NEW p \in Process, ReceiveEntry(p) PROVE Intact'
  BY <1>0, <1>6, ReceiveIntact DEF ReceiveEntry, Round, AllocInv
<1>7. ASSUME NEW p \in Process, RestoreEntry(p) PROVE Intact'
  BY <1>0, <1>7, FillIntact DEF RestoreEntry, Round, AllocInv
<1>8. ASSUME NEW p \in Process, LoopEnds(p) PROVE Intact'
  BY <1>0, <1>8, LoopEndsIntact DEF LoopEnds, AllocInv
<1>9. ASSUME NEW p \in Process, save_heap_seg(p) PROVE Intact'
  BY <1>0, <1>9, SaveIntact DEF save_heap_seg, AllocInv
<1>10. CASE init_ckpt_restore
  BY <1>0, <1>10, RestartIntact DEF init_ckpt_restore, AllocInv
<1> QED BY <1>1, <1>2, <1>3, <1>4, <1>5, <1>6, <1>7, <1>8, <1>9, <1>10 DEF Next

LEMMA AllocInvHolds == Spec => [](HeapInv /\ AllocInv)
<1>1. Init => AllocInv
  BY FirstGood DEF Init, AllocInv, Intact, Proper, NoLoop
<1> QED BY <1>1, HeapInvInit, HeapInvNext, AllocInvNext, PTL DEF Spec

\* A program that only allocates, and replaces no block by a smaller one, is
\* never led off the list, and nothing is freed or read that is not allocated,
\* not a byte beyond a block, by any sequence of transfers, checkpoints and
\* restarts.
THEOREM NoFaultHolds == Spec => []NoFault
<1>1. HeapInv /\ AllocInv => NoFault
  BY DEF AllocInv, Intact, NoFault
<1> QED BY <1>1, AllocInvHolds, PTL

\* And every finished copy of its heap is the heap: each pointer leads to the
\* same contents, and pointers are equal in the copy iff they were.
THEOREM CopyFaithfulHolds == Spec => []CopyFaithful
<1>1. ASSUME HeapInv, AllocInv PROVE CopyFaithful
  BY <1>1, LoopDone DEF AllocInv, CopyFaithful
<1> QED BY <1>1, AllocInvHolds, PTL

-----------------------------------------------------------------------------
(* A program that allocates to each pointer once.                          *)

\* Either the list has one entry for a container, or the one being copied.
Sole(m, l) == IF l.kind = "none" THEN Single(m) ELSE Single(l.image)

OnceInv ==
  used = {} => /\ \A p \in Process : Sole(mem[p], loop[p])
               /\ \A f \in ckpt : Single(f.image)

LEMMA OneSole ==
  ASSUME HeapInv, OnceInv, used = {}, NEW p \in Process, NEW m, NEW l, Sole(m, l),
         mem' = [mem EXCEPT ![p] = m], loop' = [loop EXCEPT ![p] = l], ckpt' = ckpt
  PROVE  OnceInv'
<1>1. /\ mem'[p] = m /\ loop'[p] = l
      /\ \A q \in Process : q # p => mem'[q] = mem[q] /\ loop'[q] = loop[q]
  BY DEF HeapInv
<1>2. \A q \in Process : Sole(mem'[q], loop'[q])
  BY <1>1 DEF OnceInv
<1> QED BY <1>2 DEF OnceInv

LEMMA MallocSole ==
  ASSUME HeapInv, OnceInv, used = {}, used' = {}, NEW p \in Process, NEW c \in Container,
         NEW s \in 1..MaxSize, rep_malloc(p, c, s)
  PROVE  OnceInv'
<1> DEFINE m == mem[p]
           n == Malloced(m, c, s)
<1>0. m \in Memory /\ Recorded(m) /\ Len(m.list) <= m.count
  BY DEF HeapInv, Sound
<1>1. /\ m \in Memory /\ Recorded(m) /\ Len(m.list) <= m.count /\ s \in Nat
      /\ m.list \in Seq(Entries)
  BY ONLY <1>0, s \in 1..MaxSize, HeapAssumption DEF Memory
<1>2. Idle(p) /\ m.count < MaxCount /\ loop' = loop /\ ckpt' = ckpt
  BY DEF rep_malloc
<1>3. Single(m)
  BY <1>2 DEF OnceInv, Sole, Idle
<1>4. mem' = mem \/ mem' = [mem EXCEPT ![p] = n]
  BY DEF rep_malloc, Step, Malloced
<1>5. \A i \in DOMAIN m.list : m.list[i].container_address # c
  <2>1. Habit(m, c, s) = {}
    BY DEF rep_malloc
  <2> QED BY <2>1 DEF Habit
<1> HIDE DEF m
<1>6. NewBlock(m, n, c, s)
  BY <1>1, <1>2, MallocMemory
<1> HIDE DEF n
<1>7. Single(n)
  <2>1. PICK f \in Entries : f.container_address = c /\ n.list = Append(m.list, f)
    BY <1>6 DEF NewBlock, Grows
  <2>2. /\ Len(m.list) \in Nat
        /\ DOMAIN m.list = 1..Len(m.list) /\ DOMAIN n.list = 1..(Len(m.list) + 1)
        /\ \A i \in 1..Len(m.list) : n.list[i] = m.list[i]
        /\ n.list[Len(m.list) + 1] = f
    BY <1>1, <2>1, Appended
  <2>3. \A i \in DOMAIN n.list : i \in DOMAIN m.list \/ i = Len(m.list) + 1
    BY <2>2
  <2> QED BY ONLY <1>3, <1>5, <2>1, <2>2, <2>3 DEF Single
<1>8. Sole(n, loop[p])
  BY <1>2, <1>7 DEF Sole, Idle
<1>9. loop' = [loop EXCEPT ![p] = loop[p]]
  BY <1>2 DEF HeapInv
<1> QED BY <1>2, <1>4, <1>8, <1>9, OneSole DEF OnceInv

LEMMA TransferSole ==
  ASSUME HeapInv, OnceInv, used = {}, NEW s \in Process, NEW r \in Process,
         transfer_heap_seg(s, r)
  PROVE  OnceInv'
<1>1. CASE TransferFault(s, r) # "none"
  BY <1>1 DEF transfer_heap_seg, Step, OnceInv
<1>2. CASE TransferFault(s, r) = "none"
  <2>1. PICK m, l : Transfers(s, r, m, l)
    BY <1>2, TransferEffect, Zenon
  <2>2. /\ mem' = [mem EXCEPT ![r] = m] /\ loop' = [loop EXCEPT ![r] = l] /\ ckpt' = ckpt
        /\ l.kind = "transfer" /\ l.image = mem[s]
    BY ONLY <2>1 DEF Transfers, CopyLoop
  <2>3. Single(mem[s])
    BY DEF transfer_heap_seg, OnceInv, Sole, Idle
  <2>4. Sole(m, l)
    BY <2>2, <2>3 DEF Sole
  <2> QED BY <2>2, <2>4, OneSole
<1> QED BY <1>1, <1>2

LEMMA RoundSole ==
  ASSUME HeapInv, OnceInv, used = {}, NEW p \in Process, NEW k, k # "none", NEW n,
         Round(p, k, n)
  PROVE  OnceInv'
<1> DEFINE l == [loop[p] EXCEPT !.next = @ + 1]
<1>1. /\ mem' = [mem EXCEPT ![p] = n] /\ loop' = [loop EXCEPT ![p] = l] /\ ckpt' = ckpt
      /\ loop[p].kind = k
  BY DEF Round
<1>2. loop[p] \in Loop
  BY DEF HeapInv, Sound
<1>3. l.kind = k /\ l.image = loop[p].image
  BY <1>1, <1>2 DEF Loop
<1>4. Single(loop[p].image)
  BY <1>1 DEF OnceInv, Sole
<1> HIDE DEF l
<1>5. Sole(n, l)
  BY <1>3, <1>4 DEF Sole
<1> QED BY <1>1, <1>5, OneSole

LEMMA LoopEndsSole ==
  ASSUME HeapInv, AllocInv, OnceInv, used = {}, NEW p \in Process, LoopEnds(p)
  PROVE  OnceInv'
<1>1. /\ mem' = [mem EXCEPT ![p] = mem[p]] /\ loop' = [loop EXCEPT ![p] = NoLoop]
      /\ ckpt' = ckpt
  BY DEF LoopEnds, HeapInv
<1>2. Intact
  BY DEF AllocInv, Allocates
<1>3. Single(loop[p].image)
  BY DEF OnceInv, Sole, LoopEnds, Idle
<1>4. Single(mem[p])
  BY <1>2, <1>3, LoopDone DEF LoopEnds
<1>5. Sole(mem[p], NoLoop)
  BY <1>4 DEF Sole, NoLoop
<1> QED BY <1>1, <1>5, OneSole

LEMMA SaveSole ==
  ASSUME HeapInv, OnceInv, used = {}, NEW p \in Process, save_heap_seg(p)
  PROVE  OnceInv'
<1>1. mem' = mem /\ loop' = loop
  BY DEF save_heap_seg, Step, HeapInv
<1>2. Single(mem[p])
  BY DEF save_heap_seg, OnceInv, Sole, Idle
<1>3. \A f \in ckpt' : f \in ckpt \/ f.image = mem[p]
  BY DEF save_heap_seg
<1>4. \A f \in ckpt' : Single(f.image)
  BY <1>2, <1>3 DEF OnceInv
<1> QED BY <1>1, <1>4 DEF OnceInv

LEMMA RestartSole ==
  ASSUME HeapInv, OnceInv, used = {}, init_ckpt_restore
  PROVE  OnceInv'
<1>0. ckpt' = ckpt
  BY DEF init_ckpt_restore
<1>1. CASE UNCHANGED <<mem, loop>>
  BY <1>0, <1>1 DEF OnceInv
<1>2. CASE ~UNCHANGED <<mem, loop>>
  <2>1. PICK f \in ckpt :
            loop' = [p \in Process |-> [kind |-> "restore", next |-> 1,
                                        image |-> f.image, entries |-> f.entries]]
    BY <1>2, RestartEffect
  <2>2. Single(f.image)
    BY DEF OnceInv
  <2>3. \A p \in Process : loop'[p].kind = "restore" /\ loop'[p].image = f.image
    BY <2>1
  <2>4. \A p \in Process : Sole(mem'[p], loop'[p])
    BY <2>2, <2>3 DEF Sole
  <2> QED BY <1>0, <2>4 DEF OnceInv
<1> QED BY <1>1, <1>2

LEMMA OnceInvNext == HeapInv /\ AllocInv /\ OnceInv /\ [Next]_vars => OnceInv'
<1> SUFFICES ASSUME HeapInv, AllocInv, OnceInv, [Next]_vars, used' = {} PROVE OnceInv'
  BY DEF OnceInv
<1>1. CASE UNCHANGED vars
  BY <1>1 DEF vars, OnceInv
<1>2. ASSUME NEW p \in Process, NEW c \in Container, NEW s \in 1..MaxSize,
             rep_malloc(p, c, s)
      PROVE  OnceInv'
  <2>1. used = {}
    BY <1>2 DEF rep_malloc
  <2> QED BY <1>2, <2>1, MallocSole
<1>3. ASSUME NEW p \in Process, NEW c \in Container, rep_free(p, c) PROVE FALSE
  BY <1>3 DEF rep_free
<1>4. ASSUME NEW p \in Process, NEW c \in Container, NEW d \in Container,
             rep_assign_malloc_context(p, c, d)
      PROVE  FALSE
  BY <1>4 DEF rep_assign_malloc_context
<1>5. ASSUME NEW s \in Process, NEW r \in Process, transfer_heap_seg(s, r) PROVE OnceInv'
  BY <1>5, TransferSole DEF transfer_heap_seg
<1>6. ASSUME NEW p \in Process, ReceiveEntry(p) PROVE OnceInv'
  BY <1>6, RoundSole DEF ReceiveEntry, Round
<1>7. ASSUME NEW p \in Process, RestoreEntry(p) PROVE OnceInv'
  BY <1>7, RoundSole DEF RestoreEntry, Round
<1>8. ASSUME NEW p \in Process, LoopEnds(p) PROVE OnceInv'
  BY <1>8, LoopEndsSole DEF LoopEnds
<1>9. ASSUME NEW p \in Process, save_heap_seg(p) PROVE OnceInv'
  BY <1>9, SaveSole DEF save_heap_seg
<1>10. CASE init_ckpt_restore
  BY <1>10, RestartSole DEF init_ckpt_restore
<1> QED BY <1>1, <1>2, <1>3, <1>4, <1>5, <1>6, <1>7, <1>8, <1>9, <1>10 DEF Next

\* For a program that allocates to each pointer once, the entries, the count,
\* the pointers and the allocated blocks with their sizes agree whenever the
\* program runs.
THEOREM ListAccountsForHeapHolds == Spec => []ListAccountsForHeap
<1>1. Init => OnceInv
  <2>1. Single(NewMemory)
    BY FirstMemory DEF Single
  <2> QED BY <2>1 DEF Init, OnceInv, Sole, NoLoop
<1>2. ASSUME HeapInv, AllocInv, OnceInv PROVE ListAccountsForHeap
  <2> SUFFICES ASSUME used = {}, NEW p \in Process, Idle(p), NEW m, m = mem[p]
               PROVE  /\ m.count = Len(m.list)
                      /\ FreesOnce(m) /\ BlocksOf(m) = DOMAIN m.heap
                      /\ \A i \in DOMAIN m.list :
                            /\ m.ptr[m.list[i].container_address] = m.list[i].allocated_address
                            /\ m.heap[m.list[i].allocated_address].size = m.list[i].size
    BY DEF ListAccountsForHeap
  <2>1. Good(m) /\ Recorded(m) /\ m \in Memory /\ Single(m)
    BY <1>2 DEF AllocInv, Allocates, Intact, Proper, Idle, HeapInv, Sound, OnceInv, Sole
  <2>2. ASSUME NEW i \in DOMAIN m.list
        PROVE  m.ptr[m.list[i].container_address] = m.list[i].allocated_address
    <3>1. /\ m.list[i].container_address \in Container
          /\ m.ptr[m.list[i].container_address] # NULL
      BY <2>1, EntryType DEF Good
    <3>2. PICK j \in DOMAIN m.list :
              /\ Latest(m.list, Len(m.list), m.list[i].container_address, j)
              /\ m.list[j].allocated_address = m.ptr[m.list[i].container_address]
      BY ONLY <2>1, <3>1 DEF Good
    <3>3. m.list[j].container_address = m.list[i].container_address
      BY ONLY <3>2 DEF Latest
    <3>4. i = j
      BY ONLY <2>1, <2>2, <3>2, <3>3 DEF Single
    <3> QED BY ONLY <3>2, <3>4
  <2>3. /\ m.count = Len(m.list) /\ FreesOnce(m)
        /\ \A i \in DOMAIN m.list :
              m.heap[m.list[i].allocated_address].size = m.list[i].size
    BY <2>1 DEF Good
  <2>4. BlocksOf(m) = DOMAIN m.heap
    BY <2>1, <2>3 DEF FreesOnce, Recorded
  <2> QED BY <2>2, <2>3, <2>4
<1> QED BY <1>1, <1>2, HeapInvInit, HeapInvNext, AllocInvHolds, OnceInvNext, PTL DEF Spec

=============================================================================

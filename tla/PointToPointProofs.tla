------------------------- MODULE PointToPointProofs -------------------------
(***************************************************************************)
(* Theorems about PointToPoint, for every set of processes, every layout   *)
(* of the jobs, every program and every number of crashes.                 *)
(***************************************************************************)
EXTENDS PointToPoint, FunctionTheorems, FiniteSetTheorems, WellFoundedInduction, TLAPS

-----------------------------------------------------------------------------
(* Numbering a finite set in the order of a key.                           *)

Upto(S, key, x) == {y \in S : key[y] <= key[x]}
Number(S, key) == [x \in S |-> Cardinality(Upto(S, key, x))]

\* A smaller key has a smaller number, and the numbers are 1 to the size of
\* the set.
LEMMA NumberOrder ==
  ASSUME NEW S, IsFiniteSet(S), NEW key, \A x \in S : key[x] \in Nat,
         \A x, y \in S : key[x] = key[y] => x = y
  PROVE  /\ Cardinality(S) \in Nat
         /\ \A x \in S : Number(S, key)[x] \in 1..Cardinality(S)
         /\ \A x, y \in S : key[x] < key[y] <=> Number(S, key)[x] < Number(S, key)[y]
         /\ \A x, y \in S : Number(S, key)[x] = Number(S, key)[y] => x = y
<1>1. Cardinality(S) \in Nat
  BY FS_CardinalityType
<1>2. \A x \in S : /\ IsFiniteSet(Upto(S, key, x))
                   /\ Cardinality(Upto(S, key, x)) \in Nat
                   /\ Cardinality(Upto(S, key, x)) <= Cardinality(S)
  <2> SUFFICES ASSUME NEW x \in S
               PROVE  /\ IsFiniteSet(Upto(S, key, x))
                      /\ Cardinality(Upto(S, key, x)) \in Nat
                      /\ Cardinality(Upto(S, key, x)) <= Cardinality(S)
    OBVIOUS
  <2>1. Upto(S, key, x) \in SUBSET S
    BY DEF Upto
  <2> QED BY <2>1, FS_Subset, FS_CardinalityType
<1>3. \A x \in S : Cardinality(Upto(S, key, x)) # 0
  <2> SUFFICES ASSUME NEW x \in S PROVE Cardinality(Upto(S, key, x)) # 0
    OBVIOUS
  <2>1. x \in Upto(S, key, x)
    BY DEF Upto
  <2> QED BY <1>2, <2>1, FS_EmptySet
<1>4. ASSUME NEW x \in S, NEW y \in S, key[x] < key[y]
      PROVE  Cardinality(Upto(S, key, x)) < Cardinality(Upto(S, key, y))
  <2>1. Upto(S, key, x) \in SUBSET Upto(S, key, y)
    BY <1>4 DEF Upto
  <2>2. y \in Upto(S, key, y) /\ y \notin Upto(S, key, x)
    BY <1>4 DEF Upto
  <2>3. /\ Cardinality(Upto(S, key, x)) <= Cardinality(Upto(S, key, y))
        /\ Cardinality(Upto(S, key, y)) # Cardinality(Upto(S, key, x))
    BY <1>2, <2>1, <2>2, FS_Subset
  <2> QED BY <1>2, <2>3
<1>5. \A x \in S : Number(S, key)[x] = Cardinality(Upto(S, key, x))
  BY DEF Number
<1>6. \A x, y \in S : key[x] < key[y] \/ key[y] < key[x] \/ x = y
  OBVIOUS
<1> QED BY <1>1, <1>2, <1>3, <1>4, <1>5, <1>6

\* Every number is used.
LEMMA NumberOnto ==
  ASSUME NEW S, IsFiniteSet(S), NEW key, \A x \in S : key[x] \in Nat,
         \A x, y \in S : key[x] = key[y] => x = y,
         NEW n \in 1..Cardinality(S)
  PROVE  \E x \in S : Number(S, key)[x] = n
<1> DEFINE T == 1..Cardinality(S)
           f == Number(S, key)
<1>1. /\ Cardinality(S) \in Nat
      /\ \A x \in S : f[x] \in T
      /\ \A x, y \in S : f[x] = f[y] => x = y
  BY NumberOrder
<1>2. f \in [S -> T]
  BY <1>1 DEF Number
<1>3. f \in Injection(S, T)
  BY <1>1, <1>2, Fun_IsInj
<1>4. IsFiniteSet(T) /\ Cardinality(T) = Cardinality(S)
  BY <1>1, FS_Interval
<1>5. f \in Surjection(S, T)
  <2> HIDE DEF f, T
  <2> QED BY <1>3, <1>4, FS_Injection
<1>6. \A t \in T : \E x \in S : f[x] = t
  <2> HIDE DEF f
  <2> QED BY <1>5, Fun_SurjectionProperties
<1> QED BY <1>6

-----------------------------------------------------------------------------
(* The ranks of a world.                                                   *)

\* The rank of a process counts the members before it (JobMap has its own
\* instance of FiniteSets).
LEMMA RankCounts ==
  ASSUME NEW p, NEW W
  PROVE  Map!Rank(p, W) = Cardinality({q \in W : q < p})
BY DEF Map!Rank, Map!Cardinality, Cardinality

\* The ranks of W are 0 to its size - 1, every one of them of one process.
LEMMA Ranks ==
  ASSUME NEW W \in SUBSET Proc
  PROVE  /\ IsFiniteSet(W) /\ Cardinality(W) \in Nat
         /\ \A p \in W : Map!Rank(p, W) \in 0..(Cardinality(W) - 1)
         /\ \A p, q \in W : Map!Rank(p, W) = Map!Rank(q, W) => p = q
         /\ \A r \in 0..(Cardinality(W) - 1) : \E p \in W : Map!Rank(p, W) = r
<1> DEFINE key == [p \in W |-> p]
<1>1. IsFiniteSet(W)
  BY FS_Subset, MapAssumption
<1>2. (\A x \in W : key[x] \in Nat) /\ \A x, y \in W : key[x] = key[y] => x = y
  BY MapAssumption
<1>3. ASSUME NEW p \in W PROVE Number(W, key)[p] = Map!Rank(p, W) + 1
  <2>1. Upto(W, key, p) = {q \in W : q < p} \union {p}
    <3>1. W \subseteq Nat
      BY MapAssumption
    <3>2. \A q \in W : key[q] <= key[p] <=> (q < p \/ q = p)
      BY <3>1
    <3> HIDE DEF key
    <3> QED BY <3>2 DEF Upto
  <2>2. p \notin {q \in W : q < p} /\ IsFiniteSet({q \in W : q < p})
    <3>1. {q \in W : q < p} \in SUBSET W
      OBVIOUS
    <3> QED BY <1>1, <3>1, FS_Subset, MapAssumption
  <2>3. Number(W, key)[p] = Cardinality(Upto(W, key, p))
    BY DEF Number
  <2> QED BY <2>1, <2>2, <2>3, FS_AddElement, RankCounts
<1> HIDE DEF key
<1>4. /\ Cardinality(W) \in Nat
      /\ \A x \in W : Number(W, key)[x] \in 1..Cardinality(W)
      /\ \A x, y \in W : Number(W, key)[x] = Number(W, key)[y] => x = y
  BY <1>1, <1>2, NumberOrder
<1>5. \A n \in 1..Cardinality(W) : \E x \in W : Number(W, key)[x] = n
  BY <1>1, <1>2, NumberOnto
<1>6. \A p \in W : Map!Rank(p, W) \in Nat
  <2> SUFFICES ASSUME NEW p \in W PROVE Map!Rank(p, W) \in Nat
    OBVIOUS
  <2>1. {q \in W : q < p} \in SUBSET W
    OBVIOUS
  <2>2. IsFiniteSet({q \in W : q < p})
    BY <1>1, <2>1, FS_Subset
  <2> QED BY <2>2, FS_CardinalityType, RankCounts
<1>7. \A r \in 0..(Cardinality(W) - 1) : \E p \in W : Map!Rank(p, W) = r
  <2> SUFFICES ASSUME NEW r \in 0..(Cardinality(W) - 1)
               PROVE  \E p \in W : Map!Rank(p, W) = r
    OBVIOUS
  <2>1. r + 1 \in 1..Cardinality(W)
    BY <1>4
  <2>2. PICK p \in W : Number(W, key)[p] = r + 1
    BY <1>5, <2>1
  <2> QED BY <1>3, <1>6, <2>2
<1> QED BY <1>1, <1>3, <1>4, <1>6, <1>7

\* ProcOf inverts the ranks of the world.
LEMMA ProcOfRank ==
  ASSUME world \in SUBSET Proc
  PROVE  /\ \A p \in world : ProcOf(Map!Rank(p, world)) = p
         /\ \A r \in 0..(Cardinality(world) - 1) :
               ProcOf(r) \in world /\ Map!Rank(ProcOf(r), world) = r
<1>1. ASSUME NEW p \in world PROVE ProcOf(Map!Rank(p, world)) = p
  <2> DEFINE r == Map!Rank(p, world)
  <2>1. ProcOf(r) \in world /\ Map!Rank(ProcOf(r), world) = r
    BY DEF ProcOf
  <2> QED BY <2>1, Ranks
<1>2. ASSUME NEW r \in 0..(Cardinality(world) - 1)
      PROVE  ProcOf(r) \in world /\ Map!Rank(ProcOf(r), world) = r
  <2>1. \E p \in world : Map!Rank(p, world) = r
    BY Ranks
  <2> QED BY <2>1 DEF ProcOf
<1> QED BY <1>1, <1>2

-----------------------------------------------------------------------------
(* What a step does to the bookkeeping of failures and to the job list.    *)

\* A call of p meets failures and does not repair them.
Noticing(p) ==
    \E S \in SUBSET (dead \intersect world) :
        /\ S # {}
        /\ ignore' = [ignore EXCEPT ![p] = @ \union {Map!Rank(q, world) : q \in S}]
        /\ pending' = pending \union {p}

\* Behind a shrink nothing is pending, unless it has aborted the program.
Cleared ==
    /\ aborted = 0
    /\ aborted' = 0 => pending' = pending \ Live
    /\ aborted' # 0 => UNCHANGED pending

\* Nothing but a shrink changes the job list, and nothing but a shrink takes
\* a noted failure back.
LEMMA StepShape ==
  ASSUME dead \in SUBSET Proc, [Next]_vars
  PROVE  /\ dead \in SUBSET dead' /\ dead' \in SUBSET Proc
         /\ \/ UNCHANGED <<mapVars, ignore, pending>>
            \/ UNCHANGED mapVars /\ \E p \in Proc : Noticing(p)
            \/ /\ UNCHANGED dead /\ Cleared
               /\ \E F \in SUBSET (dead \intersect world) : update_job_list(world \ F)
<1> DEFINE Goal == /\ dead \in SUBSET dead' /\ dead' \in SUBSET Proc
                   /\ \/ UNCHANGED <<mapVars, ignore, pending>>
                      \/ UNCHANGED mapVars /\ \E p \in Proc : Noticing(p)
                      \/ /\ UNCHANGED dead /\ Cleared
                         /\ \E F \in SUBSET (dead \intersect world) :
                               update_job_list(world \ F)
<1>1. ASSUME NEW p, NEW known, Notice(p, known), known # {} PROVE Noticing(p)
  <2>1. PICK S \in SUBSET (dead \intersect world) :
          /\ known \subseteq S
          /\ ignore' = [ignore EXCEPT ![p] = @ \union {Map!Rank(q, world) : q \in S}]
          /\ pending' = pending \union {p}
    BY <1>1 DEF Notice
  <2> QED BY <1>1, <2>1 DEF Noticing
<1>2. ASSUME NEW p \in Proc, NEW done, NEW failed, AfterWaitall(p, done, failed)
      PROVE  dead \in SUBSET dead' /\ dead' \in SUBSET Proc
  <2>1. dead' = dead \union {p} \/ UNCHANGED dead
    BY <1>2 DEF AfterWaitall
  <2> QED BY <2>1
<1>3. ASSUME NEW p \in Proc, SkipIgnored(p) PROVE Goal
  BY <1>3 DEF SkipIgnored, Unnoticed
<1>4. ASSUME NEW p \in Proc, MPI_Send(p) PROVE Goal
  <2>1. Unnoticed \/ \E q : Notice(p, {q})
    BY <1>4, Zenon DEF MPI_Send
  <2>2. UNCHANGED <<dead, mapVars>>
    BY <1>4 DEF MPI_Send
  <2> QED BY <1>1, <2>1, <2>2 DEF Unnoticed
<1>5. ASSUME NEW p \in Proc, MPI_Recv(p) PROVE Goal
  <2>1. Unnoticed \/ \E q : Notice(p, {q})
    BY <1>5, Zenon DEF MPI_Recv
  <2>2. UNCHANGED <<dead, mapVars>>
    BY <1>5 DEF MPI_Recv
  <2> QED BY <1>1, <2>1, <2>2 DEF Unnoticed
<1>6. ASSUME NEW p \in Proc, MPI_Irecv(p) PROVE Goal
  <2>1. Unnoticed \/ Notice(p, {Peer(p)})
    BY <1>6 DEF MPI_Irecv
  <2>2. UNCHANGED <<dead, mapVars>>
    BY <1>6 DEF MPI_Irecv
  <2> QED BY <1>1, <2>1, <2>2 DEF Unnoticed
<1>7. ASSUME NEW p \in Proc, MPI_Wait(p) PROVE Goal
  <2>1. UNCHANGED mapVars
    BY <1>7 DEF MPI_Wait
  <2>2. CASE Unnoticed /\ AfterWaitall(p, req[p].open, {})
    BY <1>2, <2>1, <2>2 DEF Unnoticed
  <2>3. ASSUME NEW failed \in SUBSET req[p].open, failed # {},
               Unnoticed \/ Notice(p, {Source(p, k).proc : k \in failed}),
               NEW done, AfterWaitall(p, done, failed)
        PROVE  Goal
    <3>1. {Source(p, k).proc : k \in failed} # {}
      BY <2>3
    <3> QED BY <1>1, <1>2, <2>1, <2>3, <3>1 DEF Unnoticed
  <2> QED BY <1>7, <2>2, <2>3, Zenon DEF MPI_Wait
<1>8. ASSUME NEW p \in Proc, MPI_Comm_agree(p) PROVE Goal
  BY <1>8 DEF MPI_Comm_agree, Unnoticed
<1>9. ASSUME NEW p \in Proc, Crash(p) PROVE Goal
  BY <1>9 DEF Crash
<1>10. ASSUME AgreeSucceeds \/ AgreeFails PROVE Goal
  BY <1>10 DEF AgreeSucceeds, AgreeFails, Unnoticed
<1>11. ASSUME Shrink PROVE Goal
  <2>1. /\ UNCHANGED dead
        /\ \E F \in SUBSET (dead \intersect world) : update_job_list(world \ F)
    BY <1>11, Zenon DEF Shrink
  <2>2. Cleared
    BY <1>11 DEF Shrink, AllIn, HandlerReturns, Cleared
  <2> QED BY <2>1, <2>2
<1>12. ASSUME Finished \/ UNCHANGED vars PROVE Goal
  BY <1>12 DEF Finished, vars
<1> HIDE DEF Goal
<1>13. Goal
  BY <1>3, <1>4, <1>5, <1>6, <1>7, <1>8, <1>9, <1>10, <1>11, <1>12 DEF Next, Step
<1> QED BY <1>13 DEF Goal

-----------------------------------------------------------------------------
(* The list of ignored ranks.                                              *)

\* IgnoredAwaitShrink with the types it needs.
IgnoreInv ==
    /\ dead \in SUBSET Proc /\ world \in SUBSET Proc
    /\ ignore \in [Proc -> SUBSET Nat]
    /\ IgnoredAwaitShrink

\* Between two shrinks the ranks keep their meaning, and failures are only added.
LEMMA NoticeKeepsIgnore ==
  ASSUME IgnoreInv, UNCHANGED mapVars, dead \in SUBSET dead', dead' \in SUBSET Proc,
         \/ UNCHANGED <<ignore, pending>>
         \/ \E p \in Proc : Noticing(p)
  PROVE  IgnoreInv'
<1>1. UNCHANGED world /\ \A r : ProcOf(r)' = ProcOf(r)
  BY DEF mapVars, ProcOf
<1>2. Live' \in SUBSET Live /\ Live \in SUBSET Proc
  BY DEF Live
<1>3. CASE UNCHANGED <<ignore, pending>>
  BY <1>1, <1>2, <1>3 DEF IgnoreInv, IgnoredAwaitShrink
<1>4. ASSUME NEW p \in Proc, Noticing(p) PROVE IgnoreInv'
  <2>1. PICK S \in SUBSET (dead \intersect world) :
          /\ S # {}
          /\ ignore' = [ignore EXCEPT ![p] = @ \union {Map!Rank(q, world) : q \in S}]
          /\ pending' = pending \union {p}
    BY <1>4 DEF Noticing
  <2> DEFINE N == {Map!Rank(q, world) : q \in S}
  <2>2. /\ Cardinality(world) \in Nat
        /\ \A r \in N : r \in Nat /\ r < Cardinality(world) /\ ProcOf(r) \in dead
        /\ N # {}
    BY <2>1, Ranks, ProcOfRank DEF IgnoreInv
  <2>3. /\ ignore' \in [Proc -> SUBSET Nat]
        /\ ignore'[p] = ignore[p] \union N
        /\ \A q \in Proc \ {p} : ignore'[q] = ignore[q]
    BY <2>1, <2>2 DEF IgnoreInv
  <2> HIDE DEF N
  <2>4. ASSUME NEW q \in Live', NEW r \in ignore'[q], r < Cardinality(world)
        PROVE  ProcOf(r) \in dead'
    BY <1>2, <2>2, <2>3, <2>4 DEF IgnoreInv, IgnoredAwaitShrink
  <2>5. ASSUME NEW q \in Live'
        PROVE  q \in pending' <=> \E r \in ignore'[q] : r < Cardinality(world)
    BY <1>2, <2>1, <2>2, <2>3, <2>5 DEF IgnoreInv, IgnoredAwaitShrink
  <2> QED BY <1>1, <2>3, <2>4, <2>5 DEF IgnoreInv, IgnoredAwaitShrink
<1> QED BY <1>3, <1>4

\* A shrink gives back every rank of the new world.
LEMMA ShrinkKeepsIgnore ==
  ASSUME IgnoreInv, NEW F \in SUBSET (dead \intersect world), UNCHANGED dead,
         update_job_list(world \ F), Cleared
  PROVE  IgnoreInv'
<1> DEFINE W == world \ F
<1>1. CASE UNCHANGED <<mapVars, ignore, pending>>
  BY <1>1, NoticeKeepsIgnore DEF IgnoreInv
<1>2. CASE world' = W /\ ClearIgnored(W) /\ pending' = pending \ Live
  <2>1. W \in SUBSET Proc
    BY DEF IgnoreInv
  <2>2. /\ Cardinality(W) \in Nat
        /\ \A r \in 0..(Cardinality(W) - 1) : r \in {Map!Rank(q, W) : q \in W}
    <3> HIDE DEF W
    <3> QED BY <2>1, Ranks
  <2>3. Live' = Live /\ Live \in SUBSET Proc
    BY DEF Live
  <2>4. /\ ignore' \in [Proc -> SUBSET Nat]
        /\ \A p \in Live : ignore'[p] = ignore[p] \ {Map!Rank(q, W) : q \in W}
    BY <1>2, <2>3 DEF ClearIgnored, IgnoreInv
  <2> HIDE DEF W
  <2>5. \A p \in Live : \A r \in ignore'[p] : ~(r < Cardinality(W))
    BY <2>2, <2>3, <2>4 DEF IgnoreInv
  <2>6. IgnoredAwaitShrink'
    BY <1>2, <2>3, <2>5 DEF IgnoredAwaitShrink
  <2> QED BY <1>2, <2>1, <2>4, <2>6 DEF IgnoreInv
<1>3. \/ world' = W /\ ClearIgnored(W) /\ UNCHANGED aborted
      \/ aborted' = 200 /\ UNCHANGED <<mapVars, ignore>>
  BY DEF update_job_list
<1> QED BY <1>1, <1>2, <1>3 DEF Cleared

\* A process ignores only dead ranks, and ignores any exactly while its shrink
\* is pending (rank_ignore_list and __process_shrinking_pending).
THEOREM IgnoredAwaitShrinkHolds == Spec => []IgnoredAwaitShrink
<1>1. Init => IgnoreInv
  BY DEF Init, IgnoreInv, IgnoredAwaitShrink, Live
<1>2. IgnoreInv /\ [Next]_vars => IgnoreInv'
  <2> SUFFICES ASSUME IgnoreInv, [Next]_vars PROVE IgnoreInv'
    OBVIOUS
  <2>1. dead \in SUBSET Proc
    BY DEF IgnoreInv
  <2> QED BY <2>1, StepShape, NoticeKeepsIgnore, ShrinkKeepsIgnore
<1>3. IgnoreInv => IgnoredAwaitShrink
  BY DEF IgnoreInv
<1> QED BY <1>1, <1>2, <1>3, PTL DEF Spec

-----------------------------------------------------------------------------
(* The job list.                                                           *)

\* The place of p among the workers of job j in the world W.
Place(j, W) == Number(Map!Workers(j, W), Pos)

\* Every line of the job list holds, in the order of the map, the ranks of
\* the workers in the world; every job has one.
ListInv ==
    /\ world \in SUBSET Proc
    /\ DOMAIN rank_list = Job
    /\ \A j \in Job :
          /\ Map!Workers(j, world) # {}
          /\ rank_list[j] \in Seq(Nat)
          /\ Len(rank_list[j]) = Cardinality(Map!Workers(j, world))
          /\ \A p \in Map!Workers(j, world) :
                rank_list[j][Place(j, world)[p]] = Map!Rank(p, world)
    /\ DOMAIN rank_2_job = 0..(Cardinality(Proc) - 1)
    /\ \A p \in world : rank_2_job[Map!Rank(p, world)] = JobOf[p]

\* The workers of a job are numbered by their places.
LEMMA Places ==
  ASSUME NEW j, NEW W \in SUBSET Proc
  PROVE  LET V == Map!Workers(j, W)
         IN  /\ V \in SUBSET W /\ IsFiniteSet(V) /\ Cardinality(V) \in Nat
             /\ Place(j, W) \in [V -> 1..Cardinality(V)]
             /\ \A p, q \in V : Pos[p] <= Pos[q] <=> Place(j, W)[p] <= Place(j, W)[q]
             /\ \A p, q \in V : Place(j, W)[p] = Place(j, W)[q] => p = q
             /\ \A n \in 1..Cardinality(V) : \E p \in V : Place(j, W)[p] = n
<1> DEFINE V == Map!Workers(j, W)
<1>1. V \in SUBSET W /\ \A p \in V : p \in Proc /\ JobOf[p] = j
  BY DEF Map!Workers
<1>2. IsFiniteSet(V)
  BY <1>1, Ranks, FS_Subset
<1>3. (\A p \in V : Pos[p] \in Nat) /\ \A p, q \in V : Pos[p] = Pos[q] => p = q
  BY <1>1, MapAssumption
<1> HIDE DEF V
<1>4. /\ Cardinality(V) \in Nat
      /\ \A x \in V : Number(V, Pos)[x] \in 1..Cardinality(V)
      /\ \A x, y \in V : Pos[x] < Pos[y] <=> Number(V, Pos)[x] < Number(V, Pos)[y]
      /\ \A x, y \in V : Number(V, Pos)[x] = Number(V, Pos)[y] => x = y
  BY <1>2, <1>3, NumberOrder
<1>5. \A n \in 1..Cardinality(V) : \E x \in V : Number(V, Pos)[x] = n
  BY <1>2, <1>3, NumberOnto
<1>6. Place(j, W) = Number(V, Pos)
  BY DEF Place, V
<1>7. Number(V, Pos) \in [V -> 1..Cardinality(V)]
  BY <1>4 DEF Number
<1>8. \A p, q \in V : Pos[p] <= Pos[q] <=> Number(V, Pos)[p] <= Number(V, Pos)[q]
  BY <1>3, <1>4
<1> QED BY <1>1, <1>2, <1>4, <1>5, <1>6, <1>7, <1>8 DEF V

\* An injective function keeps the size of a set.
LEMMA ImageSize ==
  ASSUME NEW A, IsFiniteSet(A), NEW Z, NEW f \in [Z -> Nat], A \in SUBSET Z,
         \A x, y \in A : f[x] = f[y] => x = y
  PROVE  IsFiniteSet({f[x] : x \in A}) /\ Cardinality({f[x] : x \in A}) = Cardinality(A)
<1> DEFINE B == {f[x] : x \in A}
           g == [x \in A |-> f[x]]
<1>1. g \in [A -> B] /\ \A x, y \in A : g[x] = g[y] => x = y
  OBVIOUS
<1>2. \A b \in B : \E x \in A : g[x] = b
  OBVIOUS
<1>3. g \in Bijection(A, B)
  <2> HIDE DEF g, B
  <2> QED BY <1>1, <1>2, Fun_IsBij
<1>4. ExistsBijection(A, B)
  BY <1>3 DEF ExistsBijection
<1> HIDE DEF B
<1>5. IsFiniteSet(B) /\ Cardinality(B) = Cardinality(A)
  BY <1>4, FS_Bijection
<1> QED BY <1>5 DEF B

\* The indices of a line whose workers survive, and the line that the loops of
\* update_job_list make of it.
Surviving(j, W) == {k \in DOMAIN rank_list[j] : ProcOf(rank_list[j][k]) \in W}
NewLine(j, W) ==
    [n \in 1..Cardinality(Surviving(j, W)) |->
        Map!Rank(ProcOf(rank_list[j][CHOOSE k \in Surviving(j, W) :
                     Cardinality({l \in Surviving(j, W) : l <= k}) = n]), W)]

\* It lists the workers in the new world.
LEMMA MovedLine ==
  ASSUME ListInv, NEW W \in SUBSET world, NEW j \in Job
  PROVE  LET new == NewLine(j, W)
         IN  /\ new \in Seq(Nat) /\ Len(new) = Cardinality(Map!Workers(j, W))
             /\ DOMAIN new = 1..Cardinality(Map!Workers(j, W))
             /\ \A p \in Map!Workers(j, W) : new[Place(j, W)[p]] = Map!Rank(p, W)
<1> DEFINE U == Map!Workers(j, world)
           V == Map!Workers(j, W)
           L == rank_list[j]
           f == Place(j, world)
           g == Place(j, W)
           Surv == Surviving(j, W)
           new == NewLine(j, W)
           id == [k \in Surv |-> k]
<1>1. world \in SUBSET Proc /\ W \in SUBSET Proc
  BY DEF ListInv
<1>2. /\ U \in SUBSET world /\ Cardinality(U) \in Nat
      /\ f \in [U -> 1..Cardinality(U)]
      /\ \A p, q \in U : Pos[p] <= Pos[q] <=> f[p] <= f[q]
      /\ \A p, q \in U : f[p] = f[q] => p = q
      /\ \A n \in 1..Cardinality(U) : \E p \in U : f[p] = n
  BY <1>1, Places
<1>3. /\ V \in SUBSET W /\ IsFiniteSet(V) /\ Cardinality(V) \in Nat
      /\ g \in [V -> 1..Cardinality(V)]
      /\ \A p, q \in V : g[p] = g[q] => p = q
      /\ \A n \in 1..Cardinality(V) : \E p \in V : g[p] = n
  BY <1>1, Places
<1>4. V = {p \in U : p \in W}
  BY DEF Map!Workers
<1>5. /\ DOMAIN L = 1..Cardinality(U)
      /\ \A p \in U : L[f[p]] = Map!Rank(p, world)
  BY <1>2 DEF ListInv
<1>6. \A p \in U : ProcOf(L[f[p]]) = p
  BY <1>1, <1>2, <1>5, ProcOfRank
<1>7. Surv = {f[p] : p \in V}
  <2> HIDE DEF U, V, L, f
  <2>1. Surv = {k \in DOMAIN L : ProcOf(L[k]) \in W}
    BY DEF L, Surviving
  <2> HIDE DEF Surv
  <2>2. ASSUME NEW k \in Surv PROVE k \in {f[p] : p \in V}
    <3>1. PICK p \in U : f[p] = k
      BY <1>2, <1>5, <2>1
    <3> QED BY <1>4, <1>6, <2>1, <3>1
  <2>3. ASSUME NEW p \in V PROVE f[p] \in Surv
    BY <1>2, <1>4, <1>5, <1>6, <2>1
  <2> QED BY <2>2, <2>3
<1> HIDE DEF U, V, L, f, Surv, new
<1>8. f \in [U -> Nat] /\ V \in SUBSET U /\ \A x, y \in V : f[x] = f[y] => x = y
  BY <1>2, <1>4
<1>9. IsFiniteSet(Surv) /\ Cardinality(Surv) = Cardinality(V)
  BY <1>3, <1>7, <1>8, ImageSize
<1>10. ASSUME NEW p \in V PROVE Cardinality({l \in Surv : l <= f[p]}) = g[p]
  <2> DEFINE A == Upto(V, Pos, p)
  <2>1. A \in SUBSET V /\ IsFiniteSet(A) /\ g[p] = Cardinality(A)
    <3>1. A \in SUBSET V
      BY DEF Upto
    <3>2. g[p] = Cardinality(A)
      BY DEF Place, Number, V
    <3> QED BY <1>3, <3>1, <3>2, FS_Subset
  <2>2. {l \in Surv : l <= f[p]} = {f[x] : x \in A}
    BY <1>2, <1>7, <1>8 DEF Upto
  <2> HIDE DEF A, g
  <2> QED BY <1>8, <2>1, <2>2, ImageSize
<1>11. \A k, l \in Surv : Cardinality({m \in Surv : m <= k}) =
                          Cardinality({m \in Surv : m <= l}) => k = l
  <2>1. Surv \in SUBSET Nat
    BY <1>7, <1>8
  <2>2. (\A k \in Surv : id[k] \in Nat) /\ \A k, l \in Surv : id[k] = id[l] => k = l
    BY <2>1
  <2>3. \A k \in Surv : Number(Surv, id)[k] = Cardinality({m \in Surv : m <= k})
    <3> SUFFICES ASSUME NEW k \in Surv
                 PROVE  Number(Surv, id)[k] = Cardinality({m \in Surv : m <= k})
      OBVIOUS
    <3>1. Upto(Surv, id, k) = {m \in Surv : m <= k}
      BY DEF Upto
    <3> QED BY <3>1 DEF Number
  <2> HIDE DEF id
  <2>4. \A k, l \in Surv : Number(Surv, id)[k] = Number(Surv, id)[l] => k = l
    BY <1>9, <2>2, NumberOrder
  <2> QED BY <2>3, <2>4
<1>12. ASSUME NEW p \in V
       PROVE  g[p] \in 1..Cardinality(Surv) /\ new[g[p]] = Map!Rank(p, W)
  <2> DEFINE c == CHOOSE k \in Surv : Cardinality({l \in Surv : l <= k}) = g[p]
  <2>1. f[p] \in Surv
    BY <1>7
  <2>2. c \in Surv /\ Cardinality({l \in Surv : l <= c}) = g[p]
    BY <1>10, <2>1
  <2>3. c = f[p]
    <3> HIDE DEF c
    <3> QED BY <1>10, <1>11, <2>1, <2>2
  <2>4. g[p] \in 1..Cardinality(Surv)
    BY <1>3, <1>9
  <2>5. new[g[p]] = Map!Rank(ProcOf(L[c]), W)
    BY <2>4 DEF L, new, NewLine, Surv
  <2> QED BY <1>4, <1>6, <2>3, <2>4, <2>5
<1>13. \A p \in V : Map!Rank(p, W) \in Nat
  <2>1. Cardinality(W) \in Nat /\ \A p \in W : Map!Rank(p, W) \in 0..(Cardinality(W) - 1)
    BY <1>1, Ranks
  <2> QED BY <1>3, <2>1
<1>14. DOMAIN new = 1..Cardinality(V)
  BY <1>9 DEF new, NewLine, Surv
<1>15. \A n \in 1..Cardinality(V) : new[n] \in Nat
  <2> HIDE DEF g
  <2> QED BY <1>3, <1>12, <1>13
<1>16. new \in Seq(Nat) /\ Len(new) = Cardinality(V)
  <2>1. new = [n \in 1..Cardinality(V) |-> new[n]]
    BY <1>9 DEF new, NewLine, Surv
  <2> QED BY <1>3, <1>15, <2>1
<1> QED BY <1>12, <1>14, <1>16 DEF V, new

\* A worker's place is one more than the number of workers before it.
LEMMA PlaceCounts ==
  ASSUME NEW j, NEW W \in SUBSET Proc, NEW p \in Map!Workers(j, W)
  PROVE  Cardinality({q \in Map!Workers(j, W) : Pos[q] < Pos[p]}) = Place(j, W)[p] - 1
<1> DEFINE V == Map!Workers(j, W)
           B == {q \in V : Pos[q] < Pos[p]}
<1>1. IsFiniteSet(V) /\ \A q \in V : q \in Proc /\ JobOf[q] = j
  BY Places DEF Map!Workers
<1>2. \A q \in V : Pos[q] \in Nat /\ (Pos[q] = Pos[p] => q = p)
  BY <1>1, MapAssumption
<1> HIDE DEF V
<1>3. p \in V
  BY DEF V
<1>4. Upto(V, Pos, p) = B \union {p} /\ p \notin B
  BY <1>2, <1>3 DEF Upto
<1>5. IsFiniteSet(B)
  <2>1. B \in SUBSET V
    OBVIOUS
  <2> QED BY <1>1, <2>1, FS_Subset
<1>6. Place(j, W)[p] = Cardinality(Upto(V, Pos, p))
  BY DEF Place, Number, V
<1> HIDE DEF B
<1>7. Cardinality(B) \in Nat /\ Cardinality(Upto(V, Pos, p)) = Cardinality(B) + 1
  BY <1>4, <1>5, FS_AddElement, FS_CardinalityType
<1> QED BY <1>6, <1>7 DEF B, V

\* init_job_list: the lines of the first map.
LEMMA FirstLines == Init => ListInv
<1> SUFFICES ASSUME Init PROVE ListInv
  OBVIOUS
<1>1. world = Proc /\ DOMAIN rank_list = Job
  BY DEF Init
<1>2. ASSUME NEW j \in Job
      PROVE  /\ Map!Workers(j, Proc) # {}
             /\ rank_list[j] \in Seq(Nat)
             /\ Len(rank_list[j]) = Cardinality(Map!Workers(j, Proc))
             /\ \A p \in Map!Workers(j, Proc) :
                   rank_list[j][Place(j, Proc)[p]] = Map!Rank(p, Proc)
  <2> DEFINE V == Map!Workers(j, Proc)
             B(p) == {q \in V : Pos[q] < Pos[p]}
             g == Place(j, Proc)
             L == rank_list[j]
  <2>1. V # {}
    BY MapAssumption
  <2>2. /\ V \in SUBSET Proc /\ Cardinality(V) \in Nat
        /\ g \in [V -> 1..Cardinality(V)]
        /\ \A p, q \in V : g[p] = g[q] => p = q
        /\ \A n \in 1..Cardinality(V) : \E p \in V : g[p] = n
    BY Places
  <2>3. \A p \in V : Cardinality(B(p)) = g[p] - 1
    BY PlaceCounts
  <2>4. L = [k \in 1..Cardinality(V) |->
                Map!Rank(CHOOSE p \in V : Cardinality(B(p)) = k - 1, Proc)]
    BY DEF Init
  <2>5. \A p \in V : Map!Rank(p, Proc) \in Nat
    BY <2>2, Ranks
  <2> HIDE DEF V, B, g, L
  <2>6. ASSUME NEW p \in V PROVE L[g[p]] = Map!Rank(p, Proc)
    <3> DEFINE c == CHOOSE q \in V : Cardinality(B(q)) = g[p] - 1
    <3>1. c \in V /\ Cardinality(B(c)) = g[p] - 1
      BY <2>3
    <3>2. c = p
      <4> HIDE DEF c
      <4> QED BY <2>2, <2>3, <3>1
    <3>3. L[g[p]] = Map!Rank(c, Proc)
      BY <2>2, <2>4
    <3> QED BY <3>2, <3>3
  <2>7. \A n \in 1..Cardinality(V) : L[n] \in Nat
    BY <2>2, <2>5, <2>6
  <2>8. L \in Seq(Nat) /\ Len(L) = Cardinality(V)
    <3>1. L = [n \in 1..Cardinality(V) |-> L[n]]
      BY <2>4
    <3> QED BY <2>2, <2>7, <3>1
  <2> QED BY <2>1, <2>6, <2>8 DEF V, g, L
<1>3. DOMAIN rank_2_job = 0..(Cardinality(Proc) - 1)
  BY DEF Init
<1>4. ASSUME NEW p \in Proc PROVE rank_2_job[Map!Rank(p, Proc)] = JobOf[p]
  <2> DEFINE r == Map!Rank(p, Proc)
             c == CHOOSE q \in Proc : Map!Rank(q, Proc) = r
  <2>1. r \in 0..(Cardinality(Proc) - 1)
    BY Ranks
  <2>2. c \in Proc /\ Map!Rank(c, Proc) = r
    OBVIOUS
  <2>3. c = p
    <3> HIDE DEF c
    <3> QED BY <2>2, Ranks
  <2>4. rank_2_job[r] = JobOf[c]
    <3> HIDE DEF r
    <3> QED BY <2>1 DEF Init
  <2> QED BY <2>3, <2>4
<1> QED BY <1>1, <1>2, <1>3, <1>4 DEF ListInv

\* update_job_list makes the job list of the new world.
LEMMA CompactLines ==
  ASSUME ListInv, NEW W \in SUBSET world, world' = W, Compact(W),
         \A j \in Job : Map!Workers(j, W) # {}
  PROVE  ListInv'
<1>1. /\ rank_list' = [j \in Job |-> NewLine(j, W)]
      /\ rank_2_job' = [r \in DOMAIN rank_2_job |->
            IF r < Cardinality(W)
            THEN CHOOSE j \in Job : \E n \in DOMAIN NewLine(j, W) : NewLine(j, W)[n] = r
            ELSE rank_2_job[r]]
  BY DEF Compact, NewLine, Surviving
<1>2. W \in SUBSET Proc
  BY DEF ListInv
<1>3. \A j \in Job :
         /\ NewLine(j, W) \in Seq(Nat)
         /\ Len(NewLine(j, W)) = Cardinality(Map!Workers(j, W))
         /\ DOMAIN NewLine(j, W) = 1..Cardinality(Map!Workers(j, W))
         /\ \A p \in Map!Workers(j, W) : NewLine(j, W)[Place(j, W)[p]] = Map!Rank(p, W)
  BY MovedLine
<1>4. /\ IsFiniteSet(W) /\ Cardinality(W) \in Nat
      /\ \A p \in W : Map!Rank(p, W) \in 0..(Cardinality(W) - 1)
      /\ \A p, q \in W : Map!Rank(p, W) = Map!Rank(q, W) => p = q
  BY <1>2, Ranks
<1>5. Cardinality(Proc) \in Nat /\ Cardinality(W) <= Cardinality(Proc)
  BY <1>2, FS_Subset, FS_CardinalityType, MapAssumption
<1>6. ASSUME NEW p \in W PROVE rank_2_job'[Map!Rank(p, W)] = JobOf[p]
  <2> DEFINE r == Map!Rank(p, W)
             Has(j) == \E n \in DOMAIN NewLine(j, W) : NewLine(j, W)[n] = r
             c == CHOOSE j \in Job : Has(j)
  <2>1. r \in DOMAIN rank_2_job /\ r < Cardinality(W)
    BY <1>4, <1>5 DEF ListInv
  <2>2. rank_2_job'[r] = c
    <3> HIDE DEF r
    <3> QED BY <1>1, <2>1
  <2>3. JobOf[p] \in Job /\ p \in Map!Workers(JobOf[p], W)
    BY <1>2, MapAssumption DEF Map!Workers
  <2>4. Has(JobOf[p])
    <3>1. Place(JobOf[p], W)[p] \in DOMAIN NewLine(JobOf[p], W)
      BY <1>2, <1>3, <2>3, Places
    <3> QED BY <1>3, <2>3, <3>1
  <2>5. ASSUME NEW j \in Job, Has(j) PROVE j = JobOf[p]
    <3>1. PICK n \in DOMAIN NewLine(j, W) : NewLine(j, W)[n] = r
      BY <2>5
    <3>2. n \in 1..Cardinality(Map!Workers(j, W))
      BY <1>3, <3>1
    <3>3. PICK q \in Map!Workers(j, W) : Place(j, W)[q] = n
      BY <1>2, <3>2, Places
    <3>4. Map!Rank(q, W) = r
      BY <1>3, <3>1, <3>3
    <3>5. q \in W /\ JobOf[q] = j
      BY <3>3 DEF Map!Workers
    <3> QED BY <1>4, <3>4, <3>5
  <2>6. c = JobOf[p]
    <3> HIDE DEF Has
    <3> QED BY <2>3, <2>4, <2>5
  <2> QED BY <2>2, <2>6
<1>7. DOMAIN rank_list' = Job /\ DOMAIN rank_2_job' = 0..(Cardinality(Proc) - 1)
  BY <1>1 DEF ListInv
<1>8. \A j \in Job : rank_list'[j] = NewLine(j, W)
  BY <1>1
<1>9. \A j : Place(j, world)' = Place(j, W) /\ Map!Workers(j, world)' = Map!Workers(j, W)
  BY DEF Place, Map!Workers
<1>10. \A p : Map!Rank(p, world)' = Map!Rank(p, W)
  BY DEF Map!Rank
<1> QED BY <1>2, <1>3, <1>6, <1>7, <1>8, <1>9, <1>10 DEF ListInv

\* The world shrinks only with update_job_list.
LEMMA ListInvStep ==
  ASSUME dead \in SUBSET Proc, ListInv, [Next]_vars
  PROVE  ListInv'
<1>1. CASE UNCHANGED mapVars
  BY <1>1 DEF mapVars, ListInv
<1>2. ASSUME NEW F \in SUBSET (dead \intersect world), update_job_list(world \ F)
      PROVE  ListInv'
  <2>1. \/ UNCHANGED mapVars
        \/ /\ world' = world \ F /\ Compact(world \ F)
           /\ \A j \in Job : Map!Workers(j, world \ F) # {}
    BY <1>2 DEF update_job_list
  <2>2. world \ F \in SUBSET world
    OBVIOUS
  <2> QED BY <1>1, <2>1, <2>2, CompactLines
<1> QED BY <1>1, <1>2, StepShape

\* After any number of shrinks, rank_list and rank_2_job describe the
\* current world: who works for a job, in the order of the map, under which rank.
THEOREM JobListMatchesWorldHolds == Spec => []JobListMatchesWorld
<1> DEFINE Inv == dead \in SUBSET Proc /\ ListInv
<1>1. Init => Inv
  BY FirstLines DEF Init
<1>2. Inv /\ [Next]_vars => Inv'
  BY StepShape, ListInvStep
<1>3. Inv => JobListMatchesWorld
  <2> SUFFICES ASSUME ListInv PROVE JobListMatchesWorld
    OBVIOUS
  <2>1. \A j \in Job : \A p \in Map!Workers(j, world) :
           Place(j, world)[p] =
               Cardinality({q \in Map!Workers(j, world) : Pos[q] <= Pos[p]})
    BY DEF Place, Number, Upto
  <2>2. ASSUME NEW j \in Job
        PROVE  LET W == Map!Workers(j, world)
               IN  /\ Len(rank_list[j]) = Cardinality(W)
                   /\ \A p \in W :
                         rank_list[j][Cardinality({q \in W : Pos[q] <= Pos[p]})] =
                             Map!Rank(p, world)
    <3>1. /\ Len(rank_list[j]) = Cardinality(Map!Workers(j, world))
          /\ \A p \in Map!Workers(j, world) :
                rank_list[j][Place(j, world)[p]] = Map!Rank(p, world)
      BY DEF ListInv
    <3>2. ASSUME NEW p \in Map!Workers(j, world)
          PROVE  rank_list[j][Cardinality({q \in Map!Workers(j, world) : Pos[q] <= Pos[p]})]
                   = Map!Rank(p, world)
      BY ONLY <2>1, <3>1, <3>2, j \in Job, Zenon
    <3> QED BY ONLY <3>1, <3>2, Zenon
  <2>3. \A p \in world : rank_2_job[Map!Rank(p, world)] = JobOf[p]
    BY DEF ListInv
  <2> QED BY <2>2, <2>3, Zenon DEF JobListMatchesWorld
<1> QED BY <1>1, <1>2, <1>3, PTL DEF Spec

-----------------------------------------------------------------------------
(* Types.                                                                  *)

AnyRank == 0..(Cardinality(Proc) - 1)
Phase == {"run", "agree", "shrink"}
Request == [epoch : Nat, source : Seq([proc : Proc, rank : Nat]),
            open : SUBSET Nat, trials : 0..(WaitTrials + 1)]

\* Between two calls the loop index is 1.  In a loop it is within the line of
\* the peer, which no shrink shortens meanwhile, and MPI_Irecv has a source
\* for every worker before it.
InLoop(p) ==
    \/ i[p] = 1
    \/ /\ phase[p] = "run" /\ at[p] <= Len(Program[JobOf[p]])
       /\ ThisCall(p).call \in {"send", "recv", "irecv"}
       /\ i[p] <= Len(rank_list[ThisCall(p).peer])
       /\ ThisCall(p).call = "irecv" => i[p] <= Len(req[p].source) + 1

Bounded(p) ==
    /\ at[p] \in 1..(Len(Program[JobOf[p]]) + 1)
    /\ i[p] \in 1..Cardinality(Proc)
    /\ req[p].open \in SUBSET (1..Len(req[p].source))

Shared ==
    /\ dead \in SUBSET Proc /\ exited \in SUBSET dead /\ aborted \in {0, 200}
    /\ epoch \in Nat /\ pending \in SUBSET Proc /\ flag0 \in SUBSET Proc
    /\ ignore \in [Proc -> SUBSET AnyRank]
    /\ ListInv

Local ==
    /\ at \in [Proc -> Nat] /\ i \in [Proc -> Nat]
    /\ phase \in [Proc -> Phase] /\ req \in [Proc -> Request]
    /\ \A p \in Proc : Bounded(p)
    /\ \A p \in Live : InLoop(p)

TypeInv == Shared /\ Local

\* A program is a list of calls, and MPI_Wait tries a number of times.
LEMMA ProgramType == Program \in [Job -> Seq(Call)]
BY ProgramAssumption, Zenon

LEMMA TrialsType == WaitTrials \in Nat
BY ProgramAssumption, Zenon

\* Every entry of a line is the rank of a member of the world.
LEMMA LineRanks ==
  ASSUME ListInv, NEW j \in Job
  PROVE  /\ Len(rank_list[j]) \in 1..Cardinality(Proc)
         /\ DOMAIN rank_list[j] = 1..Len(rank_list[j])
         /\ \A k \in 1..Len(rank_list[j]) :
               /\ rank_list[j][k] \in 0..(Cardinality(world) - 1)
               /\ rank_list[j][k] \in AnyRank
               /\ ProcOf(rank_list[j][k]) \in world
<1> DEFINE V == Map!Workers(j, world)
<1>1. world \in SUBSET Proc /\ V # {} /\ rank_list[j] \in Seq(Nat)
      /\ Len(rank_list[j]) = Cardinality(V)
      /\ \A p \in V : rank_list[j][Place(j, world)[p]] = Map!Rank(p, world)
  BY DEF ListInv
<1>2. /\ V \in SUBSET world /\ IsFiniteSet(V) /\ Cardinality(V) \in Nat
      /\ \A n \in 1..Cardinality(V) : \E p \in V : Place(j, world)[p] = n
  BY <1>1, Places
<1>3. /\ Cardinality(world) \in Nat
      /\ \A p \in world : Map!Rank(p, world) \in 0..(Cardinality(world) - 1)
  BY <1>1, Ranks
<1>4. Cardinality(Proc) \in Nat /\ Cardinality(world) <= Cardinality(Proc)
  BY <1>1, FS_Subset, FS_CardinalityType, MapAssumption
<1> HIDE DEF V
<1>5. Cardinality(V) # 0
  BY <1>1, <1>2, FS_EmptySet
<1>6. Cardinality(V) <= Cardinality(Proc)
  <2>1. V \in SUBSET Proc
    BY <1>1, <1>2
  <2> QED BY <2>1, FS_Subset, MapAssumption
<1>7. ASSUME NEW k \in 1..Len(rank_list[j])
      PROVE  rank_list[j][k] \in 0..(Cardinality(world) - 1)
  <2>1. PICK p \in V : Place(j, world)[p] = k
    BY <1>1, <1>2
  <2> QED BY <1>1, <1>2, <1>3, <2>1
<1>8. \A r \in 0..(Cardinality(world) - 1) : r \in AnyRank /\ ProcOf(r) \in world
  BY <1>1, <1>3, <1>4, ProcOfRank DEF AnyRank
<1> QED BY <1>1, <1>2, <1>4, <1>5, <1>6, <1>7, <1>8

\* What all processes share keeps its type.
LEMMA SharedStep ==
  ASSUME TypeInv, [Next]_vars
  PROVE  Shared'
<1>1. dead \in SUBSET Proc /\ ListInv /\ world \in SUBSET Proc
      /\ ignore \in [Proc -> SUBSET AnyRank] /\ pending \in SUBSET Proc
  BY DEF TypeInv, Shared, ListInv
<1>2. ListInv' /\ dead' \in SUBSET Proc /\ dead \in SUBSET dead'
  BY <1>1, StepShape, ListInvStep
<1>3. pending' \in SUBSET Proc /\ ignore' \in [Proc -> SUBSET AnyRank]
  <2>1. ASSUME NEW p \in Proc, Noticing(p)
        PROVE  pending' \in SUBSET Proc /\ ignore' \in [Proc -> SUBSET AnyRank]
    <3>1. PICK S \in SUBSET (dead \intersect world) :
            /\ ignore' = [ignore EXCEPT ![p] = @ \union {Map!Rank(q, world) : q \in S}]
            /\ pending' = pending \union {p}
      BY <2>1 DEF Noticing
    <3>2. \A q \in world : Map!Rank(q, world) \in AnyRank
      <4>1. Cardinality(Proc) \in Nat /\ Cardinality(world) <= Cardinality(Proc)
        BY <1>1, FS_Subset, FS_CardinalityType, MapAssumption
      <4> QED BY <1>1, <4>1, Ranks DEF AnyRank
    <3>3. {Map!Rank(q, world) : q \in S} \in SUBSET AnyRank
      BY <3>2
    <3> QED BY <1>1, <3>1, <3>3
  <2>2. ASSUME NEW F \in SUBSET (dead \intersect world), update_job_list(world \ F), Cleared
        PROVE  pending' \in SUBSET Proc /\ ignore' \in [Proc -> SUBSET AnyRank]
    <3>1. UNCHANGED ignore \/ ClearIgnored(world \ F)
      BY <2>2 DEF update_job_list
    <3>2. ignore' \in [Proc -> SUBSET AnyRank]
      BY <1>1, <3>1 DEF ClearIgnored
    <3>3. pending' \in SUBSET Proc
      BY <1>1, <2>2 DEF Cleared
    <3> QED BY <3>2, <3>3
  <2>3. CASE UNCHANGED <<mapVars, ignore, pending>>
    BY <1>1, <2>3
  <2> QED BY <1>1, <2>1, <2>2, <2>3, StepShape
<1>4. exited' \in SUBSET dead' /\ aborted' \in {0, 200} /\ epoch' \in Nat
  <2> DEFINE Goal == exited' \in SUBSET dead' /\ aborted' \in {0, 200} /\ epoch' \in Nat
  <2>1. exited \in SUBSET dead /\ aborted \in {0, 200} /\ epoch \in Nat
    BY DEF TypeInv, Shared
  <2>2. CASE UNCHANGED <<exited, aborted, epoch>>
    BY <1>2, <2>1, <2>2
  <2>3. ASSUME NEW p \in Proc, MPI_Wait(p) PROVE Goal
    <3>1. UNCHANGED <<aborted, epoch>>
      BY <2>3 DEF MPI_Wait, mapVars
    <3>2. \E done, failed : AfterWaitall(p, done, failed)
      BY <2>3, Zenon DEF MPI_Wait
    <3>3. \/ exited' = exited \union {p} /\ dead' = dead \union {p}
          \/ UNCHANGED exited
      BY <3>2 DEF AfterWaitall
    <3> QED BY <1>2, <2>1, <3>1, <3>3
  <2>4. ASSUME Shrink PROVE Goal
    <3>1. UNCHANGED exited /\ \E W : update_job_list(W)
      BY <2>4, Zenon DEF Shrink
    <3> QED BY <1>2, <2>1, <3>1 DEF update_job_list, mapVars
  <2>5. ASSUME NEW p \in Proc,
               \/ SkipIgnored(p) \/ MPI_Send(p) \/ MPI_Recv(p) \/ MPI_Irecv(p)
               \/ MPI_Comm_agree(p) \/ Crash(p)
        PROVE  UNCHANGED <<exited, aborted, epoch>>
    BY <2>5 DEF SkipIgnored, MPI_Send, MPI_Recv, MPI_Irecv, MPI_Comm_agree, Crash, mapVars
  <2>6. ASSUME AgreeSucceeds \/ AgreeFails \/ Finished \/ UNCHANGED vars
        PROVE  UNCHANGED <<exited, aborted, epoch>>
    BY <2>6 DEF AgreeSucceeds, AgreeFails, Finished, vars, mapVars
  <2> QED BY <2>2, <2>3, <2>4, <2>5, <2>6 DEF Next, Step
<1>5. flag0' \in SUBSET Proc
  <2>1. flag0 \in SUBSET Proc
    BY DEF TypeInv, Shared
  <2>2. ASSUME NEW p \in Proc, MPI_Comm_agree(p) PROVE flag0' \in SUBSET Proc
    <3>1. flag0' = flag0 \ {p} \/ flag0' = flag0 \union {p}
      BY <2>2 DEF MPI_Comm_agree
    <3> QED BY <2>1, <3>1
  <2>3. ASSUME NEW p \in Proc,
               \/ SkipIgnored(p) \/ MPI_Send(p) \/ MPI_Recv(p) \/ MPI_Irecv(p)
               \/ MPI_Wait(p) \/ Crash(p)
        PROVE  UNCHANGED flag0
    BY <2>3 DEF SkipIgnored, MPI_Send, MPI_Recv, MPI_Irecv, MPI_Wait, Crash
  <2>4. ASSUME AgreeSucceeds \/ AgreeFails \/ Shrink \/ Finished \/ UNCHANGED vars
        PROVE  UNCHANGED flag0
    BY <2>4 DEF AgreeSucceeds, AgreeFails, Shrink, Finished, vars
  <2> QED BY <2>1, <2>2, <2>3, <2>4 DEF Next, Step
<1> QED BY <1>2, <1>3, <1>4, <1>5 DEF Shared

\* A step of one process concerns its own variables.
LEMMA OneMoves ==
  ASSUME TypeInv, NEW p \in Proc, UNCHANGED mapVars,
         dead \in SUBSET dead', dead' \in SUBSET Proc,
         at' \in [Proc -> Nat], i' \in [Proc -> Nat],
         phase' \in [Proc -> Phase], req' \in [Proc -> Request],
         \A q \in Proc \ {p} : /\ at'[q] = at[q] /\ i'[q] = i[q]
                               /\ phase'[q] = phase[q] /\ req'[q] = req[q],
         Bounded(p)', InLoop(p)'
  PROVE  Local'
<1>1. Live' \in SUBSET Live /\ Live \in SUBSET Proc
  BY DEF Live
<1>2. \A q \in Proc \ {p} : Bounded(q)' <=> Bounded(q)
  BY DEF Bounded
<1>3. \A q \in Proc \ {p} : InLoop(q)' <=> InLoop(q)
  BY DEF InLoop, ThisCall, mapVars
<1> QED BY <1>1, <1>2, <1>3 DEF TypeInv, Local

\* A process that executes a call has one, with a peer.
LEMMA CallType ==
  ASSUME TypeInv, NEW p \in Proc, Running(p)
  PROVE  /\ at[p] \in 1..Len(Program[JobOf[p]]) /\ Len(Program[JobOf[p]]) \in Nat
         /\ ThisCall(p) \in Call
         /\ ThisCall(p).peer \in Job
<1>1. JobOf[p] \in Job
  BY MapAssumption
<1>2. Program[JobOf[p]] \in Seq(Call)
  BY <1>1, ProgramType
<1>3. at[p] \in 1..Len(Program[JobOf[p]]) /\ Len(Program[JobOf[p]]) \in Nat
  BY <1>2 DEF TypeInv, Local, Bounded, Running
<1>4. ThisCall(p) \in Call
  BY <1>2, <1>3 DEF ThisCall
<1>5. \A c \in Call : c.peer \in Job
  BY DEF Call
<1> QED BY <1>3, <1>4, <1>5

\* The loop index of a process in a loop is within the line of the peer.
LEMMA LoopIndex ==
  ASSUME TypeInv, NEW p \in Proc, Looping(p)
  PROVE  /\ Running(p) /\ phase[p] = "run" /\ p \in Live
         /\ ThisCall(p).call \in {"send", "recv", "irecv"}
         /\ i[p] \in 1..Len(rank_list[ThisCall(p).peer])
         /\ Len(rank_list[ThisCall(p).peer]) \in 1..Cardinality(Proc)
         /\ Cardinality(Proc) \in Nat
         /\ PeerRank(p) \in Nat /\ Peer(p) \in Proc
         /\ ThisCall(p).call = "irecv" => i[p] <= Len(req[p].source) + 1
<1>1. /\ Running(p) /\ phase[p] = "run" /\ p \in Live
      /\ ThisCall(p).call \in {"send", "recv", "irecv"}
  BY DEF Looping, Executes, Running
<1>2. ThisCall(p).peer \in Job
  BY <1>1, CallType
<1>3. ListInv /\ world \in SUBSET Proc
  BY DEF TypeInv, Shared, ListInv
<1>4. /\ Len(rank_list[ThisCall(p).peer]) \in 1..Cardinality(Proc)
      /\ \A k \in 1..Len(rank_list[ThisCall(p).peer]) :
            /\ rank_list[ThisCall(p).peer][k] \in 0..(Cardinality(world) - 1)
            /\ ProcOf(rank_list[ThisCall(p).peer][k]) \in world
  BY <1>2, <1>3, LineRanks
<1>5. Cardinality(Proc) \in Nat
  BY FS_CardinalityType, MapAssumption
<1>6. /\ InLoop(p) /\ i[p] \in Nat /\ i[p] \in 1..Cardinality(Proc)
      /\ Len(req[p].source) \in Nat
  BY <1>1, <1>5 DEF TypeInv, Local, Bounded, Request
<1>7. /\ i[p] \in 1..Len(rank_list[ThisCall(p).peer])
      /\ ThisCall(p).call = "irecv" => i[p] <= Len(req[p].source) + 1
  BY <1>4, <1>5, <1>6 DEF InLoop
<1>8. PeerRank(p) \in Nat /\ Peer(p) \in Proc
  BY <1>3, <1>4, <1>7 DEF PeerRank, Peer
<1> QED BY <1>1, <1>4, <1>5, <1>7, <1>8

\* To the next worker, or to the next call with the index back at 1.
LEMMA Advancing ==
  ASSUME TypeInv, NEW p \in Proc, Looping(p), Advance(p)
  PROVE  /\ at' \in [Proc -> Nat] /\ i' \in [Proc -> Nat]
         /\ \A q \in Proc \ {p} : at'[q] = at[q] /\ i'[q] = i[q]
         /\ at'[p] \in 1..(Len(Program[JobOf[p]]) + 1)
         /\ i'[p] \in 1..Cardinality(Proc)
         /\ \/ i'[p] = 1
            \/ /\ at'[p] = at[p] /\ i'[p] = i[p] + 1
               /\ i'[p] <= Len(rank_list[ThisCall(p).peer])
<1> DEFINE n == Len(rank_list[ThisCall(p).peer])
<1>1. i[p] \in 1..n /\ n \in 1..Cardinality(Proc) /\ Cardinality(Proc) \in Nat /\ Running(p)
  BY LoopIndex
<1>2. at[p] \in 1..Len(Program[JobOf[p]]) /\ Len(Program[JobOf[p]]) \in Nat
  BY <1>1, CallType
<1>3. at \in [Proc -> Nat] /\ i \in [Proc -> Nat]
  BY DEF TypeInv, Local
<1>4. /\ i' = [i EXCEPT ![p] = IF i[p] = n THEN 1 ELSE @ + 1]
      /\ at' = [at EXCEPT ![p] = IF i[p] = n THEN @ + 1 ELSE @]
  BY DEF Advance, LastWorker
<1> HIDE DEF n
<1>5. /\ at' \in [Proc -> Nat] /\ i' \in [Proc -> Nat]
      /\ \A q \in Proc \ {p} : at'[q] = at[q] /\ i'[q] = i[q]
  BY <1>1, <1>2, <1>3, <1>4
<1>6. CASE i[p] = n
  BY <1>1, <1>2, <1>3, <1>4, <1>5, <1>6 DEF n
<1>7. CASE i[p] # n
  BY <1>1, <1>2, <1>3, <1>4, <1>5, <1>7 DEF n
<1> QED BY <1>6, <1>7

\* One iteration of a loop; in MPI_Irecv it adds a source.
LEMMA LoopMoves ==
  ASSUME TypeInv, NEW p \in Proc, Looping(p), Advance(p), UNCHANGED <<mapVars, phase>>,
         dead \in SUBSET dead', dead' \in SUBSET Proc,
         req' \in [Proc -> Request], \A q \in Proc \ {p} : req'[q] = req[q],
         req'[p].open \in SUBSET (1..Len(req'[p].source)),
         ThisCall(p).call = "irecv" => Len(req'[p].source) = Len(req[p].source) + 1
  PROVE  Local'
<1>1. /\ at' \in [Proc -> Nat] /\ i' \in [Proc -> Nat]
      /\ \A q \in Proc \ {p} : at'[q] = at[q] /\ i'[q] = i[q]
      /\ at'[p] \in 1..(Len(Program[JobOf[p]]) + 1)
      /\ i'[p] \in 1..Cardinality(Proc)
      /\ \/ i'[p] = 1
         \/ /\ at'[p] = at[p] /\ i'[p] = i[p] + 1
            /\ i'[p] <= Len(rank_list[ThisCall(p).peer])
  BY Advancing
<1>2. Bounded(p)'
  BY <1>1 DEF Bounded
<1>3. InLoop(p)'
  <2>1. CASE i'[p] = 1
    BY <2>1 DEF InLoop
  <2>2. CASE /\ at'[p] = at[p] /\ i'[p] = i[p] + 1
             /\ i'[p] <= Len(rank_list[ThisCall(p).peer])
    <3>1. ThisCall(p)' = ThisCall(p) /\ rank_list' = rank_list
      BY <2>2 DEF ThisCall, mapVars
    <3>2. /\ Running(p) /\ phase[p] = "run"
          /\ ThisCall(p).call \in {"send", "recv", "irecv"}
          /\ i[p] \in Nat
          /\ ThisCall(p).call = "irecv" => i[p] <= Len(req[p].source) + 1
      BY LoopIndex DEF TypeInv, Local
    <3>3. Len(req[p].source) \in Nat
      BY DEF TypeInv, Local, Request
    <3>4. ThisCall(p).call = "irecv" => i'[p] <= Len(req'[p].source) + 1
      BY <2>2, <3>2, <3>3
    <3> QED BY <2>2, <3>1, <3>2, <3>4 DEF InLoop, Running
  <2> QED BY <1>1, <2>1, <2>2
<1>4. phase' \in [Proc -> Phase]
  BY DEF TypeInv, Local
<1> QED BY <1>1, <1>2, <1>3, <1>4, OneMoves

\* The variables of the processes keep their types.
LEMMA LocalStep ==
  ASSUME TypeInv, [Next]_vars
  PROVE  Local'
<1>1. /\ at \in [Proc -> Nat] /\ i \in [Proc -> Nat]
      /\ phase \in [Proc -> Phase] /\ req \in [Proc -> Request]
      /\ \A p \in Proc : Bounded(p)
      /\ \A p \in Live : InLoop(p)
      /\ Live \in SUBSET Proc
  BY DEF TypeInv, Local, Live
<1>2. dead \in SUBSET dead' /\ dead' \in SUBSET Proc
  <2>1. dead \in SUBSET Proc
    BY DEF TypeInv, Shared
  <2> QED BY <2>1, StepShape
<1>3. /\ \A r \in Request : /\ r.epoch \in Nat /\ r.open \in SUBSET Nat
                            /\ r.trials \in 0..(WaitTrials + 1)
                            /\ r.source \in Seq([proc : Proc, rank : Nat])
      /\ \A r \in Request : Len(r.source) \in Nat
      /\ NoRequest \in Request /\ NoRequest.open = {}
  BY TrialsType DEF Request, NoRequest
<1>4. ASSUME NEW p \in Proc, SkipIgnored(p) PROVE Local'
  <2> DEFINE s == [proc |-> Peer(p), rank |-> PeerRank(p)]
  <2>1. Looping(p) /\ Advance(p) /\ UNCHANGED <<mapVars, phase>>
    BY <1>4 DEF SkipIgnored
  <2>2. s \in [proc : Proc, rank : Nat]
    BY <2>1, LoopIndex
  <2> HIDE DEF s
  <2>3. CASE Executes(p, "irecv")
    <3>1. req' = [req EXCEPT ![p].source = Append(@, s)]
      BY <1>4, <2>3 DEF SkipIgnored, s
    <3>2. /\ req[p] \in Request /\ req[p].source \in Seq([proc : Proc, rank : Nat])
          /\ req[p].open \in SUBSET (1..Len(req[p].source))
      BY <1>1, <1>3 DEF Bounded
    <3>3. /\ Append(req[p].source, s) \in Seq([proc : Proc, rank : Nat])
          /\ Len(Append(req[p].source, s)) = Len(req[p].source) + 1
      BY <2>2, <3>2
    <3>4. /\ req' \in [Proc -> Request] /\ \A q \in Proc \ {p} : req'[q] = req[q]
          /\ req'[p].source = Append(req[p].source, s) /\ req'[p].open = req[p].open
      BY <1>1, <3>1, <3>2, <3>3 DEF Request
    <3>5. /\ req'[p].open \in SUBSET (1..Len(req'[p].source))
          /\ Len(req'[p].source) = Len(req[p].source) + 1
      BY <1>3, <3>2, <3>3, <3>4
    <3> QED BY <1>2, <2>1, <3>4, <3>5, LoopMoves
  <2>4. CASE ~Executes(p, "irecv")
    <3>1. req' = req
      BY <1>4, <2>4 DEF SkipIgnored
    <3>2. ThisCall(p).call # "irecv"
      BY <2>1, <2>4, LoopIndex DEF Executes
    <3>3. req'[p].open \in SUBSET (1..Len(req'[p].source))
      BY <1>1, <3>1 DEF Bounded
    <3> QED BY <1>1, <1>2, <2>1, <3>1, <3>2, <3>3, LoopMoves
  <2> QED BY <2>3, <2>4
<1>5. ASSUME NEW p \in Proc, MPI_Send(p) \/ MPI_Recv(p) PROVE Local'
  <2>1. /\ Executes(p, "send") \/ Executes(p, "recv")
        /\ Advance(p) /\ UNCHANGED <<mapVars, phase, req>>
    BY <1>5 DEF MPI_Send, MPI_Recv
  <2>2. Looping(p) /\ ThisCall(p).call # "irecv"
    BY <2>1 DEF Looping, Executes
  <2>3. req'[p].open \in SUBSET (1..Len(req'[p].source))
    BY <1>1, <2>1 DEF Bounded
  <2> QED BY <1>1, <1>2, <2>1, <2>2, <2>3, LoopMoves
<1>6. ASSUME NEW p \in Proc, MPI_Irecv(p) PROVE Local'
  <2> DEFINE s == [proc |-> Peer(p), rank |-> PeerRank(p)]
             r == [epoch |-> epoch, source |-> Append(req[p].source, s),
                   open |-> req[p].open \union {i[p]}, trials |-> req[p].trials]
  <2>1. /\ Looping(p) /\ UNCHANGED <<mapVars, phase>>
        /\ \/ req' = [req EXCEPT ![p] = r] /\ Advance(p)
           \/ UNCHANGED <<req, at, i>>
    <3>1. Executes(p, "irecv") /\ UNCHANGED <<mapVars, phase>>
      BY <1>6 DEF MPI_Irecv
    <3>2. \/ req' = [req EXCEPT ![p] = r] /\ Advance(p)
          \/ UNCHANGED <<req, at, i>>
      BY <1>6 DEF MPI_Irecv
    <3> QED BY <3>1, <3>2 DEF Looping
  <2>2. CASE UNCHANGED <<req, at, i>>
    <3>1. Bounded(p)' /\ \A q \in Live : InLoop(q)' <=> InLoop(q)
      BY <1>1, <2>1, <2>2 DEF Bounded, InLoop, ThisCall, mapVars
    <3>2. InLoop(p)'
      BY <1>1, <2>1, <3>1, LoopIndex
    <3> QED BY <1>1, <1>2, <2>1, <2>2, <3>1, <3>2, OneMoves
  <2>3. CASE req' = [req EXCEPT ![p] = r] /\ Advance(p)
    <3>1. /\ s \in [proc : Proc, rank : Nat]
          /\ ThisCall(p).call = "irecv" /\ i[p] \in Nat /\ i[p] >= 1
          /\ i[p] <= Len(req[p].source) + 1
      BY <1>1, <1>6, <2>1, LoopIndex DEF MPI_Irecv, Executes, Bounded
    <3> HIDE DEF s, r
    <3>2. /\ req[p] \in Request /\ req[p].source \in Seq([proc : Proc, rank : Nat])
          /\ req[p].open \in SUBSET (1..Len(req[p].source)) /\ req[p].open \in SUBSET Nat
          /\ epoch \in Nat /\ req[p].trials \in 0..(WaitTrials + 1)
      <4>1. req[p] \in Request /\ Bounded(p) /\ epoch \in Nat
        BY <1>1 DEF TypeInv, Shared
      <4> QED BY <1>3, <4>1 DEF Bounded
    <3>3. /\ Append(req[p].source, s) \in Seq([proc : Proc, rank : Nat])
          /\ Len(Append(req[p].source, s)) = Len(req[p].source) + 1
      BY <3>1, <3>2
    <3>5. /\ r \in Request /\ r.source = Append(req[p].source, s)
          /\ r.open = req[p].open \union {i[p]}
      BY <3>1, <3>2, <3>3 DEF Request, r
    <3>6. /\ req' \in [Proc -> Request] /\ \A q \in Proc \ {p} : req'[q] = req[q]
          /\ req'[p] = r
      BY <1>1, <2>3, <3>5
    <3>7. /\ r.open \in SUBSET (1..Len(r.source))
          /\ Len(r.source) = Len(req[p].source) + 1
      BY <1>3, <3>1, <3>2, <3>3, <3>5
    <3> QED BY <1>2, <2>1, <2>3, <3>6, <3>7, LoopMoves
  <2> QED BY <2>1, <2>2, <2>3
<1>7. ASSUME NEW p \in Proc, MPI_Wait(p) PROVE Local'
  <2>1. UNCHANGED <<mapVars, i, phase>> /\ Running(p) /\ p \in Live
        /\ ThisCall(p).call = "wait"
    BY <1>7 DEF MPI_Wait, Executes, Running
  <2>2. i[p] = 1
    BY <1>1, <2>1 DEF InLoop
  <2>3. PICK done, failed : AfterWaitall(p, done, failed)
    BY <1>7, Zenon DEF MPI_Wait
  <2>4. /\ req[p] \in Request /\ req[p].open \in SUBSET (1..Len(req[p].source))
        /\ at[p] \in 1..Len(Program[JobOf[p]]) /\ Len(Program[JobOf[p]]) \in Nat
        /\ i[p] \in 1..Cardinality(Proc)
    BY <1>1, <2>1, CallType DEF Bounded
  <2>5. \/ UNCHANGED <<at, req>>
        \/ /\ ~GivesUp(p) /\ UNCHANGED at
           /\ \E left \in SUBSET req[p].open :
                 req' = [req EXCEPT ![p].open = left, ![p].trials = @ + 1]
        \/ req' = [req EXCEPT ![p] = NoRequest] /\ at' = [at EXCEPT ![p] = @ + 1]
    <3>1. CASE GivesUp(p)
      BY ONLY <2>3, <3>1, Zenon DEF AfterWaitall
    <3>2. CASE ~GivesUp(p) /\ Chosen(p, done, failed) = {}
      BY ONLY <2>3, <3>2 DEF AfterWaitall
    <3>3. CASE ~GivesUp(p) /\ Chosen(p, done, failed) # {}
      BY ONLY <2>3, <3>3, Zenon DEF AfterWaitall, free_agg_request
    <3> QED BY <3>1, <3>2, <3>3, Zenon
  <2>6. /\ at' \in [Proc -> Nat] /\ \A q \in Proc \ {p} : at'[q] = at[q]
        /\ at'[p] \in 1..(Len(Program[JobOf[p]]) + 1)
    <3>1. at' = at \/ at' = [at EXCEPT ![p] = @ + 1]
      BY ONLY <2>5, Zenon
    <3>2. at \in [Proc -> Nat]
      BY <1>1
    <3>3. CASE at' = at
      BY ONLY <2>4, <3>2, <3>3
    <3>4. CASE at' = [at EXCEPT ![p] = @ + 1]
      BY ONLY <1>7, <2>4, <3>2, <3>4
    <3> QED BY ONLY <3>1, <3>3, <3>4
  <2> DEFINE Fits == /\ req' \in [Proc -> Request]
                     /\ \A q \in Proc \ {p} : req'[q] = req[q]
                     /\ req'[p].open \in SUBSET (1..Len(req'[p].source))
  <2>7. Fits
    <3>1. CASE UNCHANGED req
      BY <1>1, <2>4, <3>1
    <3>2. ASSUME ~GivesUp(p), NEW left \in SUBSET req[p].open,
                 req' = [req EXCEPT ![p].open = left, ![p].trials = @ + 1]
          PROVE  Fits
      <4>1. req[p].trials + 1 \in 0..(WaitTrials + 1) /\ left \in SUBSET Nat
        <5>1. req[p].trials \in 0..(WaitTrials + 1) /\ req[p].open \in SUBSET Nat
          BY <1>3, <2>4
        <5>2. ~(req[p].trials > WaitTrials)
          BY <3>2 DEF GivesUp
        <5> QED BY <5>1, <5>2, TrialsType
      <4>2. /\ req' \in [Proc -> Request] /\ \A q \in Proc \ {p} : req'[q] = req[q]
            /\ req'[p].open = left /\ req'[p].source = req[p].source
        BY <1>1, <2>4, <3>2, <4>1 DEF Request
      <4> QED BY <2>4, <4>2
    <3>3. CASE req' = [req EXCEPT ![p] = NoRequest]
      BY <1>1, <1>3, <3>3
    <3> HIDE DEF Fits
    <3> QED BY <2>5, <3>1, <3>2, <3>3
  <2>8. i' \in [Proc -> Nat] /\ phase' \in [Proc -> Phase]
        /\ \A q \in Proc \ {p} : i'[q] = i[q] /\ phase'[q] = phase[q]
    BY <1>1, <2>1
  <2>9. Bounded(p)' /\ InLoop(p)'
    BY <2>1, <2>2, <2>4, <2>6, <2>7 DEF Bounded, InLoop
  <2> QED BY <1>2, <2>1, <2>6, <2>7, <2>8, <2>9, OneMoves
<1>8. ASSUME NEW p \in Proc, MPI_Comm_agree(p) PROVE Local'
  <2>1. /\ UNCHANGED <<mapVars, at, i, req>> /\ p \in Live
        /\ ThisCall(p).call = "collective"
        /\ phase' = [phase EXCEPT ![p] = IF p \in pending THEN "shrink" ELSE "agree"]
    BY <1>8 DEF MPI_Comm_agree, recvVars, Executes, Running
  <2>2. i[p] = 1
    BY <1>1, <2>1 DEF InLoop
  <2>3. phase' \in [Proc -> Phase] /\ \A q \in Proc \ {p} : phase'[q] = phase[q]
    BY <1>1, <2>1 DEF Phase
  <2>4. Bounded(p)' /\ InLoop(p)'
    BY <1>1, <2>1, <2>2 DEF Bounded, InLoop
  <2> QED BY <1>1, <1>2, <2>1, <2>3, <2>4, OneMoves
<1>9. ASSUME UNCHANGED <<rank_list, at, i, phase, req>> PROVE Local'
  <2>1. Live' \in SUBSET Live
    BY <1>2 DEF Live
  <2>2. \A q \in Proc : (Bounded(q)' <=> Bounded(q)) /\ (InLoop(q)' <=> InLoop(q))
    BY <1>9 DEF Bounded, InLoop, ThisCall
  <2> QED BY <1>1, <1>9, <2>1, <2>2 DEF Local
<1>10. ASSUME AgreeSucceeds PROVE Local'
  <2>1. /\ UNCHANGED <<rank_list, i, req>> /\ Live' = Live
        /\ \A p \in Live : Running(p) /\ phase[p] = "agree"
        /\ at' = [p \in Proc |-> IF p \in Live /\ flag0 \intersect world = {}
                                 THEN at[p] + 1 ELSE at[p]]
        /\ phase' = [p \in Proc |-> IF p \in world THEN "run" ELSE phase[p]]
    BY <1>10 DEF AgreeSucceeds, AllIn, mapVars, recvVars, Live
  <2>2. \A p \in Live : i[p] = 1
    BY <1>1, <2>1 DEF InLoop
  <2>3. \A p \in Live : at[p] \in 1..Len(Program[JobOf[p]]) /\ Len(Program[JobOf[p]]) \in Nat
    BY <1>1, <2>1, CallType
  <2>4. at' \in [Proc -> Nat] /\ phase' \in [Proc -> Phase]
    BY <1>1, <2>1 DEF Phase
  <2>5. \A p \in Proc : Bounded(p)'
    BY <1>1, <2>1, <2>3 DEF Bounded
  <2> QED BY <1>1, <2>1, <2>2, <2>4, <2>5 DEF Local, InLoop
<1>11. ASSUME AgreeFails \/ Shrink PROVE Local'
  <2>1. /\ UNCHANGED <<at, i, req>> /\ Live' = Live
        /\ \A p \in Live : phase[p] # "run"
    BY <1>11 DEF AgreeFails, Shrink, AllIn, recvVars, Live
  <2>2. phase' \in [Proc -> Phase]
    <3>1. \/ phase' = phase
          \/ \E ph \in Phase : phase' = [p \in Proc |-> IF p \in Live THEN ph ELSE phase[p]]
      BY <1>11, Zenon DEF AgreeFails, Shrink, HandlerReturns, Phase
    <3> QED BY <1>1, <3>1
  <2>3. \A p \in Live : i[p] = 1
    BY <1>1, <2>1 DEF InLoop
  <2>4. \A p \in Proc : Bounded(p)'
    BY <1>1, <2>1 DEF Bounded
  <2> QED BY <1>1, <2>1, <2>2, <2>3, <2>4 DEF Local, InLoop
<1>12. ASSUME NEW p \in Proc, Crash(p) PROVE Local'
  BY <1>9, <1>12 DEF Crash, mapVars, recvVars
<1>13. ASSUME Finished \/ UNCHANGED vars PROVE Local'
  BY <1>9, <1>13 DEF Finished, vars, mapVars, recvVars
<1> QED
  BY <1>4, <1>5, <1>6, <1>7, <1>8, <1>10, <1>11, <1>12, <1>13 DEF Next, Step

\* The types hold at the start.
LEMMA FirstTypes == Init => TypeInv
<1> SUFFICES ASSUME Init PROVE TypeInv
  OBVIOUS
<1>1. ListInv
  BY FirstLines
<1>2. Cardinality(Proc) \in Nat /\ \A p \in Proc : Cardinality(Proc) # 0
  BY FS_EmptySet, FS_CardinalityType, MapAssumption
<1>3. \A p \in Proc : Len(Program[JobOf[p]]) \in Nat
  BY ProgramType, MapAssumption
<1>4. NoRequest \in Request /\ NoRequest.open = {}
  BY TrialsType DEF NoRequest, Request
<1>5. Shared
  BY <1>1 DEF Init, Shared
<1>6. Local
  BY <1>2, <1>3, <1>4 DEF Init, Local, Bounded, InLoop, Live, Phase
<1> QED BY <1>5, <1>6 DEF TypeInv

\* Every variable keeps its type: the loop index stays within the line of the
\* peer and a request has a source for every receive that is posted.
THEOREM PointToPointTypeCorrect == Spec => []TypeOK
<1>1. Init => TypeInv
  BY FirstTypes
<1>2. TypeInv /\ [Next]_vars => TypeInv'
  BY SharedStep, LocalStep DEF TypeInv
<1>3. TypeInv => TypeOK
  <2> SUFFICES ASSUME TypeInv PROVE TypeOK
    OBVIOUS
  <2>1. ListInv /\ DOMAIN rank_2_job = AnyRank /\ world \in SUBSET Proc
    BY DEF TypeInv, Shared, ListInv, AnyRank
  <2>2. \A j \in Job : \A k \in DOMAIN rank_list[j] : rank_list[j][k] \in DOMAIN rank_2_job
    BY <2>1, LineRanks
  <2>3. ASSUME NEW p \in Proc
        PROVE  /\ at[p] \in 1..(Len(Program[JobOf[p]]) + 1)
               /\ i[p] \in 1..Cardinality(Proc)
               /\ phase[p] \in {"run", "agree", "shrink"}
               /\ ignore[p] \subseteq DOMAIN rank_2_job
               /\ req[p].open \subseteq DOMAIN req[p].source
               /\ req[p].trials \in 0..(WaitTrials + 1)
    <3>1. req[p] \in Request /\ Bounded(p) /\ phase[p] \in Phase /\ ignore[p] \in SUBSET AnyRank
      BY DEF TypeInv, Shared, Local
    <3>2. DOMAIN req[p].source = 1..Len(req[p].source) /\ req[p].trials \in 0..(WaitTrials + 1)
      BY <3>1 DEF Request
    <3> QED BY <2>1, <3>1, <3>2 DEF Bounded, Phase
  <2> QED BY <2>1, <2>2, <2>3 DEF TypeOK, TypeInv, Shared
<1> QED BY <1>1, <1>2, <1>3, PTL DEF Spec

-----------------------------------------------------------------------------
(* The request of an MPI_Irecv, until its MPI_Wait returns.                *)

\* Call k of job j is an MPI_Irecv, and call a comes after it but not after
\* its MPI_Wait.
Spans(j, k, a) ==
    /\ k \in DOMAIN Program[j] /\ Program[j][k].call = "irecv"
    /\ k < a /\ \A l \in (k + 1)..(a - 1) : Program[j][l].call = "send"

\* The request of p has a receive for each of the first n workers of the peer;
\* the ones that are not open any more are of workers that p ignores, and
\* every attempt of MPI_Wait has closed one.
Serves(p, peer, n) ==
    /\ Len(req[p].source) = n
    /\ \A m \in 1..n :
          /\ req[p].source[m].rank = rank_list[peer][m]
          /\ req[p].source[m].proc = ProcOf(rank_list[peer][m])
          /\ m \notin req[p].open => rank_list[peer][m] \in ignore[p]
    /\ req[p].open # {} => /\ req[p].epoch = epoch
                           /\ req[p].trials + Cardinality(req[p].open) <= n

InIrecv(p) == at[p] <= Len(Program[JobOf[p]]) /\ ThisCall(p).call = "irecv"
Waiting(p, k) == Spans(JobOf[p], k, at[p])

RequestFits(p) ==
    /\ InIrecv(p) => Serves(p, ThisCall(p).peer, i[p] - 1) /\ req[p].trials = 0
    /\ \A k : Waiting(p, k) =>
          LET peer == Program[JobOf[p]][k].peer
          IN  Serves(p, peer, Len(rank_list[peer]))
    /\ ~InIrecv(p) /\ (\A k : ~Waiting(p, k)) => req[p] = NoRequest

\* A process agrees and shrinks in a collective call only.
InCollective(p) ==
    phase[p] # "run" => /\ at[p] \in DOMAIN Program[JobOf[p]]
                        /\ ThisCall(p).call = "collective"

RequestInv ==
    /\ TypeInv /\ IgnoreInv
    /\ Live \in SUBSET world
    /\ \A p \in Proc : InCollective(p)
    /\ \A p \in Live : RequestFits(p)

\* Before the end of a span come sends, and it ends with the MPI_Wait.
LEMMA SpanEnds ==
  ASSUME WaitsBetweenCollectives, NEW j \in Job, NEW k, NEW a \in DOMAIN Program[j],
         Spans(j, k, a)
  PROVE  /\ Program[j][a].call \in {"send", "wait"}
         /\ Program[j][a].call = "wait" => Program[j][a].peer = Program[j][k].peer
<1>1. Program[j] \in Seq(Call)
  BY ProgramType
<1>2. /\ k \in DOMAIN Program[j] /\ Program[j][k].call = "irecv" /\ k < a
      /\ \A l \in (k + 1)..(a - 1) : Program[j][l].call = "send"
  BY DEF Spans
<1>3. PICK w \in DOMAIN Program[j] : Pair(j, k, w)
  BY <1>2 DEF WaitsBetweenCollectives
<1>4. /\ Program[j][w].call = "wait" /\ Program[j][k].peer = Program[j][w].peer
      /\ k < w /\ \A l \in (k + 1)..(w - 1) : Program[j][l].call = "send"
  BY <1>3 DEF Pair
<1>5. DOMAIN Program[j] \in SUBSET Nat
  BY <1>1
<1>6. CASE w < a
  <2>1. w \in (k + 1)..(a - 1)
    BY <1>2, <1>4, <1>5, <1>6
  <2> QED BY <1>2, <1>4, <2>1
<1>7. CASE a < w
  <2>1. a \in (k + 1)..(w - 1)
    BY <1>2, <1>4, <1>5, <1>7
  <2> QED BY <1>4, <2>1
<1>8. CASE a = w
  BY <1>4, <1>8
<1> QED BY <1>5, <1>6, <1>7, <1>8

\* From one call to the next: an MPI_Irecv opens a span, a send keeps it.
LEMMA SpanNext ==
  ASSUME NEW j \in Job, NEW a \in DOMAIN Program[j], NEW k
  PROVE  Spans(j, k, a + 1) <=> \/ k = a /\ Program[j][a].call = "irecv"
                                \/ Spans(j, k, a) /\ Program[j][a].call = "send"
<1>1. DOMAIN Program[j] \in SUBSET Nat
  BY ProgramType
<1>2. CASE k \notin DOMAIN Program[j]
  BY <1>2 DEF Spans
<1>3. CASE k \in DOMAIN Program[j]
  <2>1. k \in Nat /\ a \in Nat
    BY <1>1, <1>3
  <2>2. CASE k = a
    <3>1. ~Spans(j, k, a)
      BY <2>1, <2>2 DEF Spans
    <3>2. Spans(j, k, a + 1) <=> Program[j][k].call = "irecv"
      BY <1>3, <2>1, <2>2 DEF Spans
    <3> QED BY <2>2, <3>1, <3>2
  <2>3. CASE k < a
    <3>1. (k + 1)..(a + 1 - 1) = (k + 1)..(a - 1) \union {a} /\ k < a + 1 /\ k # a
      BY <2>1, <2>3
    <3> QED BY <1>3, <2>3, <3>1 DEF Spans
  <2>4. CASE a < k
    BY <2>1, <2>4 DEF Spans
  <2> QED BY <2>1, <2>2, <2>3, <2>4
<1> QED BY <1>2, <1>3

\* An MPI_Wait ends a span with the same peer.
LEMMA WaitSpan ==
  ASSUME WaitsBetweenCollectives, NEW j \in Job, NEW a \in DOMAIN Program[j],
         Program[j][a].call = "wait"
  PROVE  \E k : Spans(j, k, a) /\ Program[j][k].peer = Program[j][a].peer
<1>1. PICK k \in DOMAIN Program[j] : Pair(j, k, a)
  BY DEF WaitsBetweenCollectives
<1> QED BY <1>1 DEF Pair, Spans

\* A step of one process leaves the variables of the others alone.
LEMMA OthersStay ==
  ASSUME TypeInv, NEW r \in Proc, Step(r) \/ Crash(r)
  PROVE  /\ UNCHANGED <<mapVars, aborted>> /\ r \in Live
         /\ \A q \in Proc \ {r} : /\ at'[q] = at[q] /\ i'[q] = i[q]
                                  /\ req'[q] = req[q] /\ phase'[q] = phase[q]
<1>1. /\ at \in [Proc -> Nat] /\ i \in [Proc -> Nat]
      /\ phase \in [Proc -> Phase] /\ req \in [Proc -> Request]
  BY DEF TypeInv, Local
<1> DEFINE Same == \A q \in Proc \ {r} : /\ at'[q] = at[q] /\ i'[q] = i[q]
                                         /\ req'[q] = req[q] /\ phase'[q] = phase[q]
           Goal == UNCHANGED <<mapVars, aborted>> /\ r \in Live /\ Same
<1>2. ASSUME Advance(r) PROVE \A q \in Proc \ {r} : at'[q] = at[q] /\ i'[q] = i[q]
  BY <1>1, <1>2 DEF Advance
<1>3. ASSUME SkipIgnored(r) PROVE Goal
  <2>1. /\ Looping(r) /\ Advance(r) /\ UNCHANGED <<mapVars, aborted, phase>>
        /\ \/ \E s : req' = [req EXCEPT ![r].source = s]
           \/ req' = req
    BY <1>3 DEF SkipIgnored
  <2>2. r \in Live
    BY <2>1 DEF Looping, Executes, Running
  <2> QED BY <1>1, <1>2, <2>1, <2>2
<1>4. ASSUME MPI_Send(r) \/ MPI_Recv(r) PROVE Goal
  BY <1>1, <1>2, <1>4 DEF MPI_Send, MPI_Recv, Executes, Running
<1>5. ASSUME MPI_Irecv(r) PROVE Goal
  <2>1. /\ UNCHANGED <<mapVars, aborted, phase>> /\ r \in Live
        /\ \/ Advance(r) /\ \E s : req' = [req EXCEPT ![r] = s]
           \/ UNCHANGED <<at, i, req>>
    BY <1>5 DEF MPI_Irecv, Executes, Running
  <2> QED BY <1>1, <1>2, <2>1
<1>6. ASSUME MPI_Wait(r) PROVE Goal
  <2>1. UNCHANGED <<mapVars, aborted, i, phase>> /\ r \in Live
    BY <1>6 DEF MPI_Wait, Executes, Running
  <2>2. PICK done, failed : AfterWaitall(r, done, failed)
    BY <1>6, Zenon DEF MPI_Wait
  <2>3. /\ UNCHANGED at \/ at' = [at EXCEPT ![r] = @ + 1]
        /\ \/ UNCHANGED req \/ req' = [req EXCEPT ![r] = NoRequest]
           \/ \E left : req' = [req EXCEPT ![r].open = left, ![r].trials = @ + 1]
    BY <2>2 DEF AfterWaitall, free_agg_request
  <2> QED BY <1>1, <2>1, <2>3
<1>7. ASSUME MPI_Comm_agree(r) PROVE Goal
  BY <1>1, <1>7 DEF MPI_Comm_agree, Executes, Running, recvVars
<1>8. ASSUME Crash(r) PROVE Goal
  BY <1>8 DEF Crash, Running, recvVars
<1> HIDE DEF Goal
<1>9. Goal
  BY <1>3, <1>4, <1>5, <1>6, <1>7, <1>8 DEF Step
<1> QED BY <1>9 DEF Goal

\* Between two shrinks a process ignores more and more ranks.
LEMMA IgnoreGrows ==
  ASSUME TypeInv, NEW r \in Proc, Step(r) \/ Crash(r)
  PROVE  /\ \A p \in Proc : ignore[p] \in SUBSET ignore'[p]
         /\ \A p \in Proc \ {r} : ignore'[p] = ignore[p]
<1>1. ignore \in [Proc -> SUBSET AnyRank]
  BY DEF TypeInv, Shared
<1>2. ASSUME NEW known, Notice(r, known)
      PROVE  /\ \A p \in Proc : ignore[p] \in SUBSET ignore'[p]
             /\ \A p \in Proc \ {r} : ignore'[p] = ignore[p]
  BY <1>1, <1>2 DEF Notice
<1>3. UNCHANGED ignore \/ \E known : Notice(r, known)
  <2>1. ASSUME SkipIgnored(r) \/ MPI_Comm_agree(r) \/ Crash(r) PROVE UNCHANGED ignore
    BY <2>1 DEF SkipIgnored, MPI_Comm_agree, Crash, Unnoticed
  <2>2. ASSUME MPI_Send(r) PROVE UNCHANGED ignore \/ \E known : Notice(r, known)
    BY <2>2, Zenon DEF MPI_Send, Unnoticed
  <2>3. ASSUME MPI_Recv(r) PROVE UNCHANGED ignore \/ \E known : Notice(r, known)
    BY <2>3, Zenon DEF MPI_Recv, Unnoticed
  <2>4. ASSUME MPI_Irecv(r) PROVE UNCHANGED ignore \/ \E known : Notice(r, known)
    BY <2>4, Zenon DEF MPI_Irecv, Unnoticed
  <2>5. ASSUME MPI_Wait(r) PROVE UNCHANGED ignore \/ \E known : Notice(r, known)
    BY <2>5, Zenon DEF MPI_Wait, Unnoticed
  <2> QED BY <2>1, <2>2, <2>3, <2>4, <2>5 DEF Step
<1> QED BY <1>2, <1>3

\* What a request serves, it serves while the job list stays and p ignores
\* no fewer ranks.
LEMMA ServesStays ==
  ASSUME NEW p, NEW peer, NEW n, Serves(p, peer, n), UNCHANGED mapVars,
         req'[p] = req[p], ignore[p] \in SUBSET ignore'[p]
  PROVE  Serves(p, peer, n)'
<1>1. \A r : ProcOf(r)' = ProcOf(r)
  BY DEF mapVars, ProcOf
<1> QED BY <1>1 DEF Serves, mapVars

\* A process that stays in its call keeps its request.
LEMMA FitsStays ==
  ASSUME NEW p \in Proc, RequestFits(p), UNCHANGED mapVars, req'[p] = req[p],
         at'[p] = at[p], i'[p] = i[p] \/ ~InIrecv(p), ignore[p] \in SUBSET ignore'[p]
  PROVE  RequestFits(p)'
<1>1. (InIrecv(p)' <=> InIrecv(p)) /\ ThisCall(p)' = ThisCall(p)
      /\ \A k : Waiting(p, k)' <=> Waiting(p, k)
  BY DEF InIrecv, ThisCall, Waiting, Spans
<1>2. ASSUME InIrecv(p)
      PROVE  Serves(p, ThisCall(p).peer, i[p] - 1)' /\ req'[p].trials = 0
  <2> DEFINE peer == Program[JobOf[p]][at[p]].peer
             n == i[p] - 1
  <2>1. Serves(p, ThisCall(p).peer, i[p] - 1) /\ req[p].trials = 0
    BY <1>2 DEF RequestFits
  <2>2. ASSUME NEW b, NEW m, b = ThisCall(p).peer, m = i[p] - 1
        PROVE  Serves(p, b, m)'
    BY <2>1, <2>2, ServesStays
  <2>3. ASSUME NEW b, NEW m, b = ThisCall(p)'.peer, m = i'[p] - 1
        PROVE  Serves(p, b, m)'
    BY <1>1, <1>2, <2>2, <2>3
  <2> QED BY <2>1, <2>3
<1>3. ASSUME NEW k, Waiting(p, k)
      PROVE  LET peer == Program[JobOf[p]][k].peer
             IN  Serves(p, peer, Len(rank_list[peer]))'
  <2> DEFINE peer == Program[JobOf[p]][k].peer
  <2>1. Serves(p, peer, Len(rank_list[peer]))
    BY <1>3 DEF RequestFits
  <2>2. rank_list' = rank_list
    BY DEF mapVars
  <2>3. ASSUME NEW m, m = Len(rank_list[peer]) PROVE Serves(p, peer, m)'
    BY <2>1, <2>3, ServesStays
  <2> QED BY <2>2, <2>3
<1> QED BY <1>1, <1>2, <1>3, Zenon DEF RequestFits

\* At the start of a call: an open span has its request, and without one
\* there is none.
LEMMA FitsAtStart ==
  ASSUME WaitsBetweenCollectives, NEW p \in Proc, i'[p] = 1,
         at'[p] \in Nat, at'[p] > 0, at[p] \in DOMAIN Program[JobOf[p]], at'[p] = at[p] + 1,
         \A k : Spans(JobOf[p], k, at[p] + 1) =>
             LET peer == Program[JobOf[p]][k].peer
             IN  Serves(p, peer, Len(rank_list[peer]))',
         (\A k : ~Spans(JobOf[p], k, at[p] + 1)) => req'[p] = NoRequest
  PROVE  RequestFits(p)'
<1> DEFINE j == JobOf[p]
           a == at[p] + 1
<1>1. j \in Job /\ Program[j] \in Seq(Call)
  BY MapAssumption, ProgramType
<1>2. \A k : Waiting(p, k)' <=> Spans(j, k, a)
  BY DEF Waiting, Spans
<1>3. ASSUME InIrecv(p)'
      PROVE  Serves(p, ThisCall(p).peer, i[p] - 1)' /\ req'[p].trials = 0
  <2>1. a \in DOMAIN Program[j] /\ Program[j][a].call = "irecv"
    BY <1>1, <1>3 DEF InIrecv, ThisCall
  <2>2. \A k : ~Spans(j, k, a)
    <3> HIDE DEF j, a
    <3> QED BY <1>1, <2>1, SpanEnds
  <2>3. req'[p] = NoRequest
    BY <2>2
  <2>4. /\ NoRequest.open = {} /\ NoRequest.trials = 0
        /\ NoRequest.source = <<>> /\ Len(NoRequest.source) = 0
    BY DEF NoRequest
  <2>5. ASSUME NEW b PROVE Serves(p, b, 0)'
    BY <2>3, <2>4 DEF Serves
  <2>6. ASSUME NEW n, n = i'[p] - 1 PROVE n = 0
    BY <2>6
  <2> QED BY <2>3, <2>4, <2>5, <2>6
<1> QED BY <1>2, <1>3, Zenon DEF RequestFits

\* A call that is neither MPI_Irecv nor MPI_Wait leaves the request alone.
LEMMA FitsNext ==
  ASSUME WaitsBetweenCollectives, NEW p \in Proc, RequestFits(p), UNCHANGED mapVars,
         req'[p] = req[p], ignore[p] \in SUBSET ignore'[p],
         at[p] \in DOMAIN Program[JobOf[p]], at'[p] = at[p] + 1, i'[p] = 1,
         ThisCall(p).call \in {"send", "recv", "collective"}
  PROVE  RequestFits(p)'
<1> DEFINE j == JobOf[p]
           a == at[p]
           Peer0(k) == Program[j][k].peer
<1>1. /\ j \in Job /\ Program[j] \in Seq(Call) /\ a \in Nat /\ a + 1 > 0
      /\ a \in DOMAIN Program[j]
  BY MapAssumption, ProgramType
<1>2. ~InIrecv(p) /\ Program[j][a].call = ThisCall(p).call
  BY DEF InIrecv, ThisCall
<1>3. \A k : Spans(j, k, a + 1) <=> Spans(j, k, a)
  <2>1. ASSUME NEW k PROVE Spans(j, k, a + 1) => Spans(j, k, a)
    BY <1>1, <1>2, SpanNext
  <2>2. ASSUME NEW k, Spans(j, k, a) PROVE Spans(j, k, a + 1)
    <3>1. Program[j][a].call \in {"send", "wait"}
      BY <1>1, <2>2, SpanEnds
    <3> QED BY <1>1, <1>2, <2>2, <3>1, SpanNext
  <2> QED BY <2>1, <2>2
<1>4. ASSUME NEW k, Spans(j, k, a + 1)
      PROVE  Serves(p, Peer0(k), Len(rank_list[Peer0(k)]))'
  <2>1. Waiting(p, k)
    BY <1>3, <1>4 DEF Waiting
  <2>2. Serves(p, Peer0(k), Len(rank_list[Peer0(k)]))
    BY <2>1 DEF RequestFits
  <2>3. rank_list' = rank_list
    BY DEF mapVars
  <2>4. ASSUME NEW m, m = Len(rank_list[Peer0(k)]) PROVE Serves(p, Peer0(k), m)'
    BY <2>2, <2>4, ServesStays
  <2> QED BY <2>3, <2>4
<1>5. (\A k : ~Spans(j, k, a + 1)) => req'[p] = NoRequest
  BY <1>2, <1>3 DEF RequestFits, Waiting
<1>6. at'[p] \in Nat /\ at'[p] > 0
  BY <1>1
<1> QED BY <1>4, <1>5, <1>6, FitsAtStart

\* One iteration of the loop of MPI_Irecv: a source for one more worker.
LEMMA FitsIrecv ==
  ASSUME WaitsBetweenCollectives, TypeInv, NEW p \in Proc, Executes(p, "irecv"), Advance(p),
         UNCHANGED mapVars, req'[p].trials = 0,
         NEW b, NEW n, b = ThisCall(p).peer, n = i[p], Serves(p, b, n)'
  PROVE  RequestFits(p)'
<1> DEFINE j == JobOf[p]
           a == at[p]
<1>1. /\ Looping(p) /\ Running(p) /\ Program[j][a].call = "irecv"
      /\ b = Program[j][a].peer
  BY DEF Executes, Looping, ThisCall
<1>2. a \in 1..Len(Program[j]) /\ j \in Job /\ Program[j] \in Seq(Call)
  BY <1>1, CallType, MapAssumption, ProgramType
<1>3. a \in DOMAIN Program[j] /\ a \in Nat /\ n \in 1..Len(rank_list[b])
      /\ Len(rank_list[b]) \in Nat
  <2>1. /\ i[p] \in 1..Len(rank_list[ThisCall(p).peer])
        /\ Len(rank_list[ThisCall(p).peer]) \in 1..Cardinality(Proc)
    BY <1>1, LoopIndex
  <2> QED BY <1>2, <2>1
<1>4. at \in [Proc -> Nat] /\ i \in [Proc -> Nat]
  BY DEF TypeInv, Local
<1>5. CASE LastWorker(p)
  <2>1. at'[p] = a + 1 /\ i'[p] = 1 /\ n = Len(rank_list[b])
    BY <1>1, <1>4, <1>5 DEF Advance, LastWorker
  <2>2. ASSUME NEW k, Spans(j, k, a + 1)
        PROVE  LET peer == Program[j][k].peer
               IN  Serves(p, peer, Len(rank_list[peer]))'
    <3>1. k = a
      BY <1>1, <1>2, <1>3, <2>2, SpanNext
    <3>2. rank_list' = rank_list
      BY DEF mapVars
    <3>3. ASSUME NEW m, m = Len(rank_list[b]) PROVE Serves(p, b, m)'
      BY <2>1, <3>3
    <3> QED BY <1>1, <3>1, <3>2, <3>3
  <2>3. Spans(j, a, a + 1)
    BY <1>1, <1>2, <1>3, SpanNext
  <2>4. at'[p] \in Nat /\ at'[p] > 0
    BY <1>3, <2>1
  <2> QED BY <1>3, <2>1, <2>2, <2>3, <2>4, FitsAtStart
<1>6. CASE ~LastWorker(p)
  <2>1. at'[p] = a /\ i'[p] = n + 1
    BY <1>1, <1>4, <1>6 DEF Advance, LastWorker
  <2>2. \A k : ~Waiting(p, k)'
    <3>1. \A k : Waiting(p, k)' <=> Spans(j, k, a)
      BY <2>1 DEF Waiting, Spans
    <3>2. \A k : ~Spans(j, k, a)
      BY <1>1, <1>2, <1>3, SpanEnds
    <3> QED BY <3>1, <3>2
  <2>3. InIrecv(p)'
    BY <1>1, <1>2, <2>1 DEF InIrecv, ThisCall
  <2>4. ThisCall(p)'.peer = b
    BY <1>1, <2>1 DEF ThisCall
  <2>5. ASSUME NEW m, m = i'[p] - 1 PROVE m = n
    BY <1>3, <2>1, <2>5
  <2>6. Serves(p, ThisCall(p).peer, i[p] - 1)'
    <3>1. ASSUME NEW c, NEW m, c = ThisCall(p)'.peer, m = i'[p] - 1 PROVE Serves(p, c, m)'
      BY <2>4, <2>5, <3>1
    <3> QED BY <3>1
  <2> QED BY <2>2, <2>3, <2>6 DEF RequestFits
<1> QED BY <1>5, <1>6

\* What a return of PMPI_Waitall means: the receives done and failed, and the
\* failures that p takes note of.
WaitStep(p, done, failed) ==
    /\ done \in SUBSET Arrived(p) /\ failed \in SUBSET req[p].open /\ done \intersect failed = {}
    /\ failed = {} => done = req[p].open
    /\ failed # {} /\ req[p].epoch = epoch => Notice(p, {Source(p, k).proc : k \in failed})
    /\ AfterWaitall(p, done, failed)

\* MPI_Wait is a return of PMPI_Waitall and what follows it.
LEMMA WaitShape ==
  ASSUME NEW p, MPI_Wait(p)
  PROVE  /\ Executes(p, "wait") /\ UNCHANGED <<aborted, mapVars, i, phase, buf, status>>
         /\ \E done, failed : WaitStep(p, done, failed)
<1>1. Executes(p, "wait") /\ UNCHANGED <<aborted, mapVars, i, phase, buf, status>>
  BY DEF MPI_Wait
<1>2. CASE Arrived(p) = req[p].open /\ AfterWaitall(p, req[p].open, {})
  <2>1. WaitStep(p, req[p].open, {})
    BY <1>2 DEF WaitStep
  <2> QED BY <1>1, <2>1
<1>3. ASSUME NEW failed \in SUBSET req[p].open, failed # {},
             req[p].epoch = epoch => Notice(p, {Source(p, k).proc : k \in failed}),
             NEW done \in SUBSET (Arrived(p) \ failed), AfterWaitall(p, done, failed)
      PROVE  \E d, f : WaitStep(p, d, f)
  <2>1. WaitStep(p, done, failed)
    BY <1>3 DEF WaitStep
  <2> QED BY <2>1
<1> QED BY <1>1, <1>2, <1>3, Zenon DEF MPI_Wait

\* A set of numbers has a least one.
LEMMA LeastNumber ==
  ASSUME NEW S \in SUBSET Nat, S # {}
  PROVE  \E x \in S : \A y \in S : x <= y
<1> DEFINE R == OpToRel(<, Nat)
<1>1. IsWellFoundedOn(R, Nat)
  BY NatLessThanWellFounded
<1>2. \E x \in S : \A y \in S : ~(<<y, x>> \in R)
  <2> HIDE DEF R
  <2> QED BY <1>1, WFMin
<1>3. \A x, y \in S : ~(<<y, x>> \in R) => x <= y
  BY DEF OpToRel
<1> QED BY <1>2, <1>3

\* The receive that MPI_Wait takes is one that has completed, from a worker
\* that p does not ignore; it takes none only when there is none.
LEMMA ChosenOf ==
  ASSUME NEW p, NEW done \in SUBSET Nat, NEW failed
  PROVE  /\ \A k \in Chosen(p, done, failed) :
               k \in done /\ Source(p, k).rank \notin ignore'[p]
         /\ Chosen(p, done, failed) = {} =>
               \A k \in done : Source(p, k).rank \in ignore'[p]
<1> DEFINE good == {k \in done : Source(p, k).rank \notin ignore'[p]}
<1>1. Chosen(p, done, failed) = {k \in good : \A l \in good : k <= l}
  BY DEF Chosen
<1>2. good \in SUBSET Nat /\ \A k \in good : k \in done /\ Source(p, k).rank \notin ignore'[p]
  OBVIOUS
<1>3. good = {} => \A k \in done : Source(p, k).rank \in ignore'[p]
  OBVIOUS
<1> HIDE DEF good
<1>4. good # {} => Chosen(p, done, failed) # {}
  BY <1>1, <1>2, LeastNumber
<1> QED BY <1>1, <1>2, <1>3, <1>4

\* The sources of a request are workers of the peer in the world.
LEMMA ServedWorker ==
  ASSUME ListInv, NEW p, NEW peer \in Job, NEW n \in 0..Len(rank_list[peer]),
         Serves(p, peer, n), NEW m \in 1..n
  PROVE  /\ req[p].source[m].rank = rank_list[peer][m]
         /\ req[p].source[m].proc \in Map!Workers(peer, world)
         /\ req[p].source[m].proc \in world
         /\ Place(peer, world)[req[p].source[m].proc] = m
         /\ Map!Rank(req[p].source[m].proc, world) = req[p].source[m].rank
<1> DEFINE V == Map!Workers(peer, world)
<1>1. /\ world \in SUBSET Proc /\ Len(rank_list[peer]) = Cardinality(V)
      /\ \A q \in V : rank_list[peer][Place(peer, world)[q]] = Map!Rank(q, world)
  BY DEF ListInv
<1>2. /\ V \in SUBSET world /\ Cardinality(V) \in Nat
      /\ \A k \in 1..Cardinality(V) : \E q \in V : Place(peer, world)[q] = k
  BY <1>1, Places
<1>3. m \in 1..Cardinality(V)
  BY <1>1, <1>2
<1>4. PICK q \in V : Place(peer, world)[q] = m
  BY <1>2, <1>3
<1>5. ProcOf(rank_list[peer][m]) = q /\ rank_list[peer][m] = Map!Rank(q, world)
  BY <1>1, <1>2, <1>4, ProcOfRank
<1>6. /\ req[p].source[m].rank = rank_list[peer][m]
      /\ req[p].source[m].proc = ProcOf(rank_list[peer][m])
  BY DEF Serves
<1> QED BY <1>2, <1>4, <1>5, <1>6

\* The parts of a request.
LEMMA RequestParts ==
  ASSUME TypeInv, NEW p \in Proc
  PROVE  /\ req \in [Proc -> Request] /\ req[p] \in Request
         /\ req[p].source \in Seq([proc : Proc, rank : Nat]) /\ Len(req[p].source) \in Nat
         /\ req[p].open \in SUBSET (1..Len(req[p].source)) /\ req[p].trials \in Nat
<1>1. req \in [Proc -> Request] /\ req[p] \in Request /\ Bounded(p)
  BY DEF TypeInv, Local
<1>2. \A r \in Request : /\ r.source \in Seq([proc : Proc, rank : Nat])
                         /\ Len(r.source) \in Nat /\ r.trials \in Nat
  BY DEF Request
<1> QED BY <1>1, <1>2 DEF Bounded

\* In MPI_Wait the request serves all workers of the peer.
LEMMA AtWait ==
  ASSUME WaitsBetweenCollectives, TypeInv, NEW p \in Proc, RequestFits(p), Executes(p, "wait")
  PROVE  /\ ThisCall(p).peer \in Job
         /\ Serves(p, ThisCall(p).peer, Len(rank_list[ThisCall(p).peer]))
         /\ at[p] \in DOMAIN Program[JobOf[p]] /\ Program[JobOf[p]][at[p]].call = "wait"
         /\ \A k : ~Spans(JobOf[p], k, at[p] + 1)
<1> DEFINE j == JobOf[p]
           a == at[p]
<1>1. /\ Running(p) /\ Program[j][a].call = "wait" /\ ThisCall(p) = Program[j][a]
  BY DEF Executes, ThisCall
<1>2. a \in 1..Len(Program[j]) /\ j \in Job /\ Program[j] \in Seq(Call) /\ ThisCall(p).peer \in Job
  BY <1>1, CallType, MapAssumption, ProgramType
<1>3. a \in DOMAIN Program[j]
  BY <1>2
<1>4. PICK k : Spans(j, k, a) /\ Program[j][k].peer = Program[j][a].peer
  BY <1>1, <1>2, <1>3, WaitSpan
<1>5. Waiting(p, k)
  BY <1>4 DEF Waiting
<1>6. Serves(p, Program[j][k].peer, Len(rank_list[Program[j][k].peer]))
  BY <1>5 DEF RequestFits
<1>7. \A l : ~Spans(j, l, a + 1)
  BY <1>1, <1>2, <1>3, SpanNext
<1> QED BY <1>1, <1>2, <1>3, <1>4, <1>6, <1>7

\* An attempt of MPI_Wait without success closes a receive, and p ignores the
\* workers whose receives it has closed.
LEMMA FitsRetry ==
  ASSUME WaitsBetweenCollectives, TypeInv, NEW p \in Proc, RequestFits(p),
         Executes(p, "wait"), UNCHANGED <<mapVars, at, i>>,
         NEW done, NEW failed, WaitStep(p, done, failed),
         ignore[p] \in SUBSET ignore'[p], Chosen(p, done, failed) = {},
         NEW left, left = req[p].open \ (done \union failed),
         req' = [req EXCEPT ![p].open = left, ![p].trials = @ + 1]
  PROVE  RequestFits(p)'
<1> DEFINE b == Program[JobOf[p]][at[p]].peer
           n == Len(rank_list[b])
<1>1. /\ ThisCall(p).peer = b /\ b \in Job /\ Serves(p, b, n)
      /\ at[p] \in DOMAIN Program[JobOf[p]] /\ Program[JobOf[p]][at[p]].call = "wait"
  BY AtWait DEF ThisCall
<1>2. /\ req \in [Proc -> Request] /\ req[p] \in Request /\ ListInv /\ Bounded(p)
      /\ world \in SUBSET Proc /\ ignore \in [Proc -> SUBSET AnyRank]
  BY DEF TypeInv, Local, Shared, ListInv
<1>3. /\ req[p].source \in Seq([proc : Proc, rank : Nat]) /\ req[p].trials \in Nat
      /\ Len(req[p].source) = n /\ n \in Nat /\ req[p].open \in SUBSET (1..n)
  <2>1. Len(req[p].source) = n
    BY <1>1 DEF Serves
  <2> HIDE DEF n
  <2> QED BY <2>1, RequestParts
<1>4. /\ req'[p].source = req[p].source /\ req'[p].open = left
      /\ req'[p].trials = req[p].trials + 1 /\ req'[p].epoch = req[p].epoch
  BY <1>2 DEF Request
<1>5. \A m \in req[p].open : m \in 1..n
  BY <1>3
<1>6. /\ done \in SUBSET req[p].open /\ failed \in SUBSET req[p].open /\ done \in SUBSET Nat
      /\ failed = {} => done = req[p].open
  <2>1. /\ done \in SUBSET Arrived(p) /\ failed \in SUBSET req[p].open
        /\ failed = {} => done = req[p].open
    BY Zenon DEF WaitStep
  <2>2. \A k \in Arrived(p) : k \in req[p].open
    BY ONLY Zenon DEF Arrived
  <2> HIDE DEF n
  <2> QED BY ONLY <1>3, <2>1, <2>2
<1>7. ASSUME NEW m \in done PROVE rank_list[b][m] \in ignore'[p]
  <2>1. Source(p, m).rank \in ignore'[p]
    BY <1>6, ChosenOf
  <2>2. m \in 1..n
    BY <1>5, <1>6
  <2> QED BY <1>1, <2>1, <2>2 DEF Source, Serves
<1>8. ASSUME NEW m \in failed PROVE rank_list[b][m] \in ignore'[p]
  <2>1. req[p].epoch = epoch /\ m \in 1..n
    BY <1>1, <1>5, <1>6 DEF Serves
  <2>2. Notice(p, {Source(p, k).proc : k \in failed})
    <3>1. failed # {}
      BY ONLY <1>8, Zenon
    <3> QED BY <2>1, <3>1, Zenon DEF WaitStep
  <2>3. n \in 0..Len(rank_list[b])
    <3>1. n = Len(rank_list[b])
      OBVIOUS
    <3> HIDE DEF n, b
    <3> QED BY ONLY <1>3, <3>1
  <2>4. /\ Source(p, m).rank = rank_list[b][m]
        /\ Map!Rank(Source(p, m).proc, world) = rank_list[b][m]
    <3> HIDE DEF n, b
    <3>1. /\ req[p].source[m].rank = rank_list[b][m]
          /\ Map!Rank(req[p].source[m].proc, world) = req[p].source[m].rank
      BY ONLY <1>1, <1>2, <2>1, <2>3, ServedWorker
    <3> QED BY ONLY <3>1 DEF Source
  <2>5. Map!Rank(Source(p, m).proc, world) \in ignore'[p]
    <3>1. PICK S \in SUBSET (dead \intersect world) :
             /\ {Source(p, k).proc : k \in failed} \subseteq S
             /\ ignore' = [ignore EXCEPT ![p] = @ \union {Map!Rank(q, world) : q \in S}]
      BY ONLY <2>2, Zenon DEF Notice
    <3>2. Source(p, m).proc \in S
      BY ONLY <1>8, <3>1, Zenon
    <3>3. ignore'[p] = ignore[p] \union {Map!Rank(q, world) : q \in S}
      BY ONLY <1>2, <3>1, p \in Proc
    <3> QED BY ONLY <3>2, <3>3
  <2> QED BY ONLY <2>4, <2>5
<1>9. left # {} => left \in SUBSET req[p].open /\ req[p].open # {}
                   /\ IsFiniteSet(req[p].open) /\ Cardinality(left) < Cardinality(req[p].open)
                   /\ Cardinality(left) \in Nat /\ Cardinality(req[p].open) \in Nat
  <2> SUFFICES ASSUME left # {}
               PROVE  left \in SUBSET req[p].open /\ req[p].open # {}
                      /\ IsFiniteSet(req[p].open) /\ Cardinality(left) < Cardinality(req[p].open)
                      /\ Cardinality(left) \in Nat /\ Cardinality(req[p].open) \in Nat
    OBVIOUS
  <2>1. left \in SUBSET req[p].open /\ left # req[p].open /\ req[p].open # {}
    BY <1>6
  <2>2. IsFiniteSet(1..n)
    <3> HIDE DEF n
    <3>1. 1 \in Int /\ n \in Int
      BY ONLY <1>3
    <3> QED BY ONLY <3>1, FS_Interval
  <2>3. IsFiniteSet(req[p].open)
    BY ONLY <1>3, <2>2, FS_Subset
  <2>4. /\ IsFiniteSet(left) /\ Cardinality(left) <= Cardinality(req[p].open)
        /\ Cardinality(left) # Cardinality(req[p].open)
    BY ONLY <2>1, <2>3, FS_Subset
  <2>5. Cardinality(left) \in Nat /\ Cardinality(req[p].open) \in Nat
    BY ONLY <2>3, <2>4, FS_CardinalityType
  <2> QED BY ONLY <2>1, <2>3, <2>4, <2>5
<1>10. Serves(p, b, n)'
  <2>1. rank_list' = rank_list /\ epoch' = epoch /\ \A r : ProcOf(r)' = ProcOf(r)
    BY DEF mapVars, ProcOf
  <2>2. ASSUME NEW m \in 1..n
        PROVE  /\ req'[p].source[m].rank = rank_list[b][m]
               /\ req'[p].source[m].proc = ProcOf(rank_list[b][m])
               /\ m \notin left => rank_list[b][m] \in ignore'[p]
    <3>1. /\ req[p].source[m].rank = rank_list[b][m]
          /\ req[p].source[m].proc = ProcOf(rank_list[b][m])
          /\ m \notin req[p].open => rank_list[b][m] \in ignore'[p]
      BY <1>1 DEF Serves
    <3> QED BY <1>4, <1>7, <1>8, <3>1
  <2>3. left # {} => /\ req[p].epoch = epoch
                     /\ req[p].trials + 1 + Cardinality(left) <= n
    <3>1. req[p].open # {} => /\ req[p].epoch = epoch
                              /\ req[p].trials + Cardinality(req[p].open) <= n
      BY <1>1 DEF Serves
    <3> HIDE DEF n
    <3> QED BY ONLY <1>3, <1>9, <3>1
  <2>4. n' = n /\ b' = b
    BY <2>1
  <2>5. ASSUME NEW c, NEW o, c = b, o = n PROVE Serves(p, c, o)'
    <3> HIDE DEF n, b
    <3> QED BY <1>3, <1>4, <2>1, <2>2, <2>3, <2>5 DEF Serves
  <2> QED BY <2>4, <2>5
<1>11. ~InIrecv(p)'
  BY <1>1 DEF InIrecv, ThisCall
<1>12. ASSUME NEW k, Waiting(p, k)'
       PROVE  LET peer == Program[JobOf[p]][k].peer
              IN  Serves(p, peer, Len(rank_list[peer]))'
  <2>1. Spans(JobOf[p], k, at[p])
    BY <1>12 DEF Waiting, Spans
  <2>2. Program[JobOf[p]][k].peer = b
    BY <1>1, <2>1, SpanEnds, MapAssumption
  <2> QED BY <1>10, <2>2
<1>13. \E k : Waiting(p, k)'
  <2>1. JobOf[p] \in Job
    BY MapAssumption
  <2>2. PICK k : Spans(JobOf[p], k, at[p])
    BY <1>1, <2>1, WaitSpan
  <2> QED BY <2>2 DEF Waiting, Spans
<1> QED BY <1>11, <1>12, <1>13, Zenon DEF RequestFits

\* A step of p keeps its request fitting, unless it dies.
LEMMA FitsStep ==
  ASSUME WaitsBetweenCollectives, RequestInv, NEW p \in Proc, Step(p) \/ Crash(p), p \in Live'
  PROVE  RequestFits(p)'
<1>1. /\ TypeInv /\ RequestFits(p) /\ UNCHANGED mapVars /\ p \in Live
      /\ ignore[p] \in SUBSET ignore'[p]
  <2>1. TypeInv
    BY DEF RequestInv
  <2> QED BY <2>1, OthersStay, IgnoreGrows DEF RequestInv
<1>2. /\ at \in [Proc -> Nat] /\ i \in [Proc -> Nat] /\ req \in [Proc -> Request]
      /\ req[p] \in Request /\ epoch \in Nat /\ Bounded(p)
  BY <1>1 DEF TypeInv, Local, Shared
<1>3. /\ req[p].source \in Seq([proc : Proc, rank : Nat]) /\ Len(req[p].source) \in Nat
      /\ req[p].open \in SUBSET (1..Len(req[p].source)) /\ req[p].trials \in Nat
  BY <1>1, RequestParts
<1>4. ASSUME Looping(p), Advance(p), ThisCall(p).call \in {"send", "recv"}, req'[p] = req[p]
      PROVE  RequestFits(p)'
  <2>1. Running(p) /\ at[p] \in 1..Len(Program[JobOf[p]]) /\ Program[JobOf[p]] \in Seq(Call)
    BY <1>1, <1>4, LoopIndex, CallType, ProgramType, MapAssumption
  <2>2. at[p] \in DOMAIN Program[JobOf[p]] /\ ~InIrecv(p)
    BY <1>4, <2>1 DEF InIrecv
  <2>3. CASE LastWorker(p)
    <3>1. at'[p] = at[p] + 1 /\ i'[p] = 1
      BY <1>2, <1>4, <2>3 DEF Advance
    <3> QED BY <1>1, <1>4, <2>2, <3>1, FitsNext
  <2>4. CASE ~LastWorker(p)
    <3>1. at'[p] = at[p]
      BY <1>2, <1>4, <2>4 DEF Advance
    <3> QED BY <1>1, <1>4, <2>2, <3>1, FitsStays
  <2> QED BY <2>3, <2>4
<1>5. ASSUME Executes(p, "irecv"), Advance(p), NEW b, NEW n, b = ThisCall(p).peer, n = i[p],
             NEW rest \in Request, req'[p] = rest, rest.trials = req[p].trials,
             rest.source = Append(req[p].source, [proc |-> Peer(p), rank |-> PeerRank(p)]),
             \/ rest.open = req[p].open /\ rest.epoch = req[p].epoch /\ Ignored(p)
             \/ rest.open = req[p].open \union {n} /\ rest.epoch = epoch
      PROVE  RequestFits(p)'
  <2>1. InIrecv(p) /\ Looping(p)
    BY <1>5 DEF Executes, Running, InIrecv, Looping
  <2>2. Serves(p, ThisCall(p).peer, i[p] - 1) /\ req[p].trials = 0
    BY <1>1, <2>1 DEF RequestFits
  <2>3. n \in Nat /\ n >= 1 /\ n - 1 \in Nat
    BY <1>2, <1>5 DEF Bounded
  <2>4. Serves(p, b, n - 1)
    BY <1>5, <2>2
  <2>5. Len(req[p].source) = n - 1 /\ req[p].open \in SUBSET (1..(n - 1))
    BY <1>3, <2>4 DEF Serves
  <2> DEFINE s == [proc |-> Peer(p), rank |-> PeerRank(p)]
  <2>6. s.rank = rank_list[b][n] /\ s.proc = ProcOf(rank_list[b][n])
    BY <1>5 DEF PeerRank, Peer
  <2>7. s \in [proc : Proc, rank : Nat]
    BY <1>1, <2>1, LoopIndex
  <2>8. Ignored(p) <=> rank_list[b][n] \in ignore[p]
    BY <1>5 DEF Ignored, PeerRank
  <2> HIDE DEF s
  <2>9. /\ rest.source = Append(req[p].source, s) /\ Len(rest.source) = n
        /\ rest.source[n] = s /\ \A m \in 1..(n - 1) : rest.source[m] = req[p].source[m]
    <3>1. rest.source = Append(req[p].source, s)
      BY <1>5 DEF s
    <3>2. /\ Len(Append(req[p].source, s)) = Len(req[p].source) + 1
          /\ Append(req[p].source, s)[Len(req[p].source) + 1] = s
          /\ \A m \in 1..Len(req[p].source) :
                Append(req[p].source, s)[m] = req[p].source[m]
      BY <1>3, <2>7
    <3>3. Len(req[p].source) + 1 = n
      BY <2>3, <2>5
    <3> QED BY <2>5, <3>1, <3>2, <3>3
  <2>10. rank_list' = rank_list /\ epoch' = epoch /\ \A r : ProcOf(r)' = ProcOf(r)
    BY <1>1 DEF mapVars, ProcOf
  <2>11. ASSUME NEW m \in 1..n
         PROVE  /\ rest.source[m].rank = rank_list[b][m]
                /\ rest.source[m].proc = ProcOf(rank_list[b][m])
                /\ m \notin rest.open => rank_list[b][m] \in ignore'[p]
    <3>1. CASE m = n
      BY <1>1, <1>5, <2>6, <2>8, <2>9, <3>1
    <3>2. CASE m # n
      <4>1. m \in 1..(n - 1)
        BY <2>3, <3>2
      <4>2. /\ req[p].source[m].rank = rank_list[b][m]
            /\ req[p].source[m].proc = ProcOf(rank_list[b][m])
            /\ m \notin req[p].open => rank_list[b][m] \in ignore[p]
        BY <2>4, <4>1 DEF Serves
      <4> QED BY <1>1, <1>5, <2>9, <4>1, <4>2
    <3> QED BY <3>1, <3>2
  <2>12. rest.open # {} => rest.epoch = epoch /\ rest.trials + Cardinality(rest.open) <= n
    <3>1. IsFiniteSet(1..(n - 1)) /\ Cardinality(1..(n - 1)) = n - 1
      <4>1. 1 \in Int /\ n - 1 \in Int
        BY <2>3
      <4> QED BY <2>3, <4>1, FS_Interval
    <3>2. /\ IsFiniteSet(req[p].open) /\ Cardinality(req[p].open) \in Nat
          /\ Cardinality(req[p].open) <= n - 1
      BY <2>5, <3>1, FS_Subset, FS_CardinalityType
    <3>3. n \notin req[p].open
      BY <2>3, <2>5
    <3>4. Cardinality(req[p].open \union {n}) = Cardinality(req[p].open) + 1
      BY <3>2, <3>3, FS_AddElement
    <3>5. req[p].open # {} => req[p].epoch = epoch
      BY <2>4 DEF Serves
    <3>6. rest.trials = 0
      BY <1>5, <2>2
    <3>7. CASE rest.open = req[p].open /\ rest.epoch = req[p].epoch
      BY <2>3, <3>2, <3>5, <3>6, <3>7
    <3>8. CASE rest.open = req[p].open \union {n} /\ rest.epoch = epoch
      BY <2>3, <3>2, <3>4, <3>6, <3>8
    <3> QED BY <1>5, <3>7, <3>8
  <2>13. Serves(p, b, n)'
    BY <1>5, <2>9, <2>10, <2>11, <2>12 DEF Serves
  <2>14. req'[p].trials = 0
    BY <1>5, <2>2
  <2> QED BY <1>1, <1>5, <2>13, <2>14, FitsIrecv
<1>6. CASE SkipIgnored(p)
  <2>1. Looping(p) /\ Advance(p) /\ Ignored(p)
    BY <1>6 DEF SkipIgnored
  <2>2. CASE Executes(p, "irecv")
    <3> DEFINE s == [proc |-> Peer(p), rank |-> PeerRank(p)]
    <3>1. req' = [req EXCEPT ![p].source = Append(@, s)]
      BY <1>6, <2>2 DEF SkipIgnored
    <3>2. s \in [proc : Proc, rank : Nat]
      BY <1>1, <2>1, LoopIndex
    <3> HIDE DEF s
    <3>3. Append(req[p].source, s) \in Seq([proc : Proc, rank : Nat])
      BY <1>3, <3>2
    <3>4. /\ req'[p] \in Request /\ req'[p].trials = req[p].trials
          /\ req'[p].source = Append(req[p].source, s)
          /\ req'[p].open = req[p].open /\ req'[p].epoch = req[p].epoch
      BY <1>2, <3>1, <3>3 DEF Request
    <3>5. ASSUME NEW rest, rest = req'[p], NEW b, NEW n, b = ThisCall(p).peer, n = i[p]
          PROVE  RequestFits(p)'
      BY <1>5, <2>1, <2>2, <3>4, <3>5 DEF s
    <3> QED BY <3>5
  <2>3. CASE ~Executes(p, "irecv")
    <3>1. req' = req
      BY <1>6, <2>3 DEF SkipIgnored
    <3>2. ThisCall(p).call \in {"send", "recv"}
      BY <2>1, <2>3 DEF Looping, Executes
    <3> QED BY <1>4, <2>1, <3>1, <3>2
  <2> QED BY <2>2, <2>3
<1>7. CASE MPI_Send(p) \/ MPI_Recv(p)
  <2>1. /\ Executes(p, "send") \/ Executes(p, "recv")
        /\ Advance(p) /\ UNCHANGED req
    BY <1>7 DEF MPI_Send, MPI_Recv
  <2>2. Looping(p) /\ ThisCall(p).call \in {"send", "recv"}
    BY <2>1 DEF Looping, Executes
  <2> QED BY <1>4, <2>1, <2>2
<1>8. CASE MPI_Irecv(p)
  <2> DEFINE s == [proc |-> Peer(p), rank |-> PeerRank(p)]
             r == [epoch |-> epoch, source |-> Append(req[p].source, s),
                   open |-> req[p].open \union {i[p]}, trials |-> req[p].trials]
  <2>1. /\ Executes(p, "irecv")
        /\ \/ req' = [req EXCEPT ![p] = r] /\ Advance(p)
           \/ UNCHANGED <<req, at, i>>
    BY <1>8 DEF MPI_Irecv
  <2>2. CASE UNCHANGED <<req, at, i>>
    BY <1>1, <2>2, FitsStays
  <2>3. CASE req' = [req EXCEPT ![p] = r] /\ Advance(p)
    <3>1. s \in [proc : Proc, rank : Nat] /\ i[p] \in Nat
      BY <1>1, <1>2, <2>1, LoopIndex DEF Looping
    <3> HIDE DEF s
    <3>2. Append(req[p].source, s) \in Seq([proc : Proc, rank : Nat])
      BY <1>3, <3>1
    <3>3. req[p].open \union {i[p]} \in SUBSET Nat /\ req[p].trials \in 0..(WaitTrials + 1)
      BY <1>2, <3>1 DEF Request
    <3>4. r \in Request
      BY <1>2, <3>2, <3>3 DEF Request
    <3>5. /\ req'[p] \in Request /\ req'[p].trials = req[p].trials
          /\ req'[p].source = Append(req[p].source, s)
          /\ req'[p].open = req[p].open \union {i[p]} /\ req'[p].epoch = epoch
      BY <1>2, <2>3, <3>4
    <3>6. ASSUME NEW rest, rest = req'[p], NEW b, NEW n, b = ThisCall(p).peer, n = i[p]
          PROVE  RequestFits(p)'
      BY <1>5, <2>1, <2>3, <3>5, <3>6 DEF s
    <3> QED BY <3>6
  <2> QED BY <2>1, <2>2, <2>3
<1>9. CASE MPI_Wait(p)
  <2>1. Executes(p, "wait") /\ UNCHANGED <<mapVars, i>>
    BY <1>9, WaitShape
  <2>2. PICK done, failed : WaitStep(p, done, failed)
    BY <1>9, WaitShape
  <2>3. \/ dead' = dead \union {p}
        \/ /\ UNCHANGED at /\ Chosen(p, done, failed) = {}
           /\ req' = [req EXCEPT ![p].open = req[p].open \ (done \union failed),
                                 ![p].trials = @ + 1]
        \/ req' = [req EXCEPT ![p] = NoRequest] /\ at' = [at EXCEPT ![p] = @ + 1]
    BY <2>2 DEF WaitStep, AfterWaitall, free_agg_request
  <2>4. ~(dead' = dead \union {p})
    BY DEF Live
  <2>5. CASE /\ UNCHANGED at /\ Chosen(p, done, failed) = {}
             /\ req' = [req EXCEPT ![p].open = req[p].open \ (done \union failed),
                                   ![p].trials = @ + 1]
    <3>1. ASSUME NEW left, left = req[p].open \ (done \union failed) PROVE RequestFits(p)'
      BY <1>1, <2>1, <2>2, <2>5, <3>1, FitsRetry
    <3> QED BY <3>1
  <2>6. CASE req' = [req EXCEPT ![p] = NoRequest] /\ at' = [at EXCEPT ![p] = @ + 1]
    <3>1. /\ at[p] \in DOMAIN Program[JobOf[p]] /\ \A k : ~Spans(JobOf[p], k, at[p] + 1)
          /\ i[p] = 1
      BY <1>1, <2>1, AtWait DEF TypeInv, Local, InLoop, Executes
    <3>2. at'[p] = at[p] + 1 /\ i'[p] = 1 /\ req'[p] = NoRequest
          /\ at'[p] \in Nat /\ at'[p] > 0
      BY <1>2, <2>1, <2>6, <3>1
    <3> QED BY <3>1, <3>2, FitsAtStart
  <2> QED BY <2>3, <2>4, <2>5, <2>6
<1>10. CASE MPI_Comm_agree(p) \/ Crash(p)
  <2>1. UNCHANGED <<at, i, req>>
    BY <1>10 DEF MPI_Comm_agree, Crash, recvVars
  <2> QED BY <1>1, <2>1, FitsStays
<1> QED BY <1>6, <1>7, <1>8, <1>9, <1>10 DEF Step

\* A step of all live processes: an agreement or a shrink.
LEMMA JointStep ==
  ASSUME AgreeSucceeds \/ AgreeFails \/ Shrink,
         at \in [Proc -> Nat], Live \in SUBSET world
  PROVE  /\ \A p \in Live : Running(p) /\ phase[p] # "run"
         /\ dead' = dead /\ UNCHANGED <<i, req, net, buf, status, orphans, got>>
         /\ \A p \in Proc \ Live : phase'[p] \in {"run", phase[p]} /\ at'[p] = at[p]
         /\ \/ UNCHANGED at
            \/ AgreeSucceeds /\ \A p \in Live : at'[p] = at[p] + 1 /\ phase'[p] = "run"
<1>1. ASSUME NEW ph, phase' = [p \in Proc |-> IF p \in Live THEN ph ELSE phase[p]]
      PROVE  /\ \A p \in Proc \ Live : phase'[p] = phase[p]
             /\ \A p \in Live : phase'[p] = ph
  BY <1>1 DEF Live
<1>2. Live \in SUBSET Proc
  BY DEF Live
<1>3. CASE AgreeSucceeds
  <2>1. /\ \A p \in Live : Running(p) /\ phase[p] = "agree"
        /\ at' = [p \in Proc |-> IF p \in Live /\ flag0 \intersect world = {}
                                 THEN at[p] + 1 ELSE at[p]]
        /\ phase' = [p \in Proc |-> IF p \in world THEN "run" ELSE phase[p]]
        /\ UNCHANGED <<dead, i, net, recvVars>>
    BY <1>3 DEF AgreeSucceeds, AllIn
  <2>2. /\ \A p \in Proc : phase'[p] \in {"run", phase[p]}
        /\ \A p \in Live : phase'[p] = "run"
        /\ \A p \in Proc \ Live : at'[p] = at[p]
    BY <1>2, <2>1
  <2>3. CASE flag0 \intersect world = {}
    <3>1. \A p \in Live : at'[p] = at[p] + 1
      BY <1>2, <2>1, <2>3
    <3> QED BY <1>3, <2>1, <2>2, <3>1 DEF recvVars
  <2>4. CASE flag0 \intersect world # {}
    <3>1. at' = at
      BY <2>1, <2>4
    <3> QED BY <2>1, <2>2, <3>1 DEF recvVars
  <2> QED BY <2>3, <2>4
<1>4. CASE AgreeFails
  <2>1. /\ \A p \in Live : Running(p) /\ phase[p] = "agree"
        /\ phase' = [p \in Proc |-> IF p \in Live THEN "shrink" ELSE phase[p]]
        /\ UNCHANGED <<dead, at, i, net, recvVars>>
    BY <1>4 DEF AgreeFails, AllIn
  <2> QED BY <1>1, <1>2, <2>1 DEF recvVars
<1>5. CASE Shrink
  <2>1. /\ \A p \in Live : Running(p) /\ phase[p] = "shrink"
        /\ UNCHANGED <<dead, at, i, net, recvVars>>
    BY <1>5, Zenon DEF Shrink, AllIn
  <2>2. \/ phase' = phase
        \/ phase' = [p \in Proc |-> IF p \in Live THEN "agree" ELSE phase[p]]
    BY <1>5 DEF Shrink, HandlerReturns
  <2>3. CASE phase' = phase
    BY <2>1, <2>3 DEF recvVars
  <2>4. CASE phase' = [p \in Proc |-> IF p \in Live THEN "agree" ELSE phase[p]]
    BY <1>1, <1>2, <2>1, <2>4 DEF recvVars
  <2> QED BY <2>2, <2>3, <2>4
<1> QED BY <1>3, <1>4, <1>5

\* IgnoreInv is inductive.
LEMMA IgnoreInvStep ==
  ASSUME IgnoreInv, [Next]_vars
  PROVE  IgnoreInv'
<1>1. dead \in SUBSET Proc
  BY DEF IgnoreInv
<1> QED BY <1>1, StepShape, NoticeKeepsIgnore, ShrinkKeepsIgnore

\* At a collective call nothing is posted.
LEMMA NothingPosted ==
  ASSUME WaitsBetweenCollectives, TypeInv, NEW p \in Proc, RequestFits(p), InCollective(p),
         phase[p] # "run"
  PROVE  /\ req[p] = NoRequest /\ ~InIrecv(p) /\ \A k : ~Waiting(p, k)
         /\ at[p] \in DOMAIN Program[JobOf[p]] /\ ThisCall(p).call = "collective"
<1>1. /\ at[p] \in DOMAIN Program[JobOf[p]] /\ ThisCall(p).call = "collective"
      /\ JobOf[p] \in Job
  BY MapAssumption DEF InCollective
<1>2. ~InIrecv(p)
  BY <1>1 DEF InIrecv
<1>3. \A k : ~Waiting(p, k)
  BY <1>1, SpanEnds DEF Waiting, ThisCall
<1> QED BY <1>1, <1>2, <1>3 DEF RequestFits

\* RequestInv is inductive.
LEMMA RequestStep ==
  ASSUME WaitsBetweenCollectives, RequestInv, [Next]_vars
  PROVE  RequestInv'
<1>1. /\ TypeInv /\ IgnoreInv /\ Live \in SUBSET world /\ Live \in SUBSET Proc
      /\ \A p \in Proc : InCollective(p)
      /\ \A p \in Live : RequestFits(p)
      /\ dead \in SUBSET Proc /\ at \in [Proc -> Nat] /\ phase \in [Proc -> Phase]
  BY DEF RequestInv, Live, TypeInv, Local, Shared
<1>2. TypeInv' /\ IgnoreInv'
  BY <1>1, SharedStep, LocalStep, IgnoreInvStep DEF TypeInv
<1>3. Live' \in SUBSET Live /\ Live' \in SUBSET world'
  <2>1. dead \in SUBSET dead' /\ (UNCHANGED mapVars \/ UNCHANGED dead)
    BY <1>1, StepShape
  <2>2. Live' \in SUBSET Live
    BY <2>1 DEF Live
  <2>3. world' = world \/ \E F \in SUBSET dead : world' = world \ F
    <3>1. \/ UNCHANGED mapVars
          \/ \E F \in SUBSET (dead \intersect world) : update_job_list(world \ F)
      BY <1>1, StepShape
    <3> QED BY <3>1 DEF mapVars, update_job_list
  <2>4. CASE world' = world
    BY <1>1, <2>2, <2>4
  <2>5. ASSUME NEW F \in SUBSET dead, world' = world \ F PROVE Live' \in SUBSET world'
    BY <1>1, <2>2, <2>5 DEF Live
  <2> QED BY <2>2, <2>3, <2>4, <2>5
<1>4. ASSUME NEW r \in Proc, Step(r) \/ Crash(r)
      PROVE  (\A p \in Proc : InCollective(p)') /\ \A p \in Live' : RequestFits(p)'
  <2>1. /\ UNCHANGED mapVars
        /\ \A q \in Proc \ {r} : /\ at'[q] = at[q] /\ i'[q] = i[q]
                                 /\ req'[q] = req[q] /\ phase'[q] = phase[q]
    BY <1>1, <1>4, OthersStay
  <2>2. ASSUME NEW p \in Live' PROVE RequestFits(p)'
    <3>1. CASE p = r
      BY <1>4, <2>2, <3>1, FitsStep
    <3>2. CASE p # r
      <4>1. p \in Proc \ {r} /\ RequestFits(p) /\ ignore[p] \in SUBSET ignore'[p]
        BY <1>1, <1>3, <1>4, <3>2, IgnoreGrows
      <4> QED BY <2>1, <4>1, FitsStays
    <3> QED BY <3>1, <3>2
  <2>3. InCollective(r)'
    <3>1. CASE MPI_Comm_agree(r)
      <4>1. Executes(r, "collective") /\ UNCHANGED at
        BY <3>1 DEF MPI_Comm_agree
      <4>2. Running(r) /\ ThisCall(r).call = "collective"
        BY <4>1 DEF Executes
      <4>3. at[r] \in 1..Len(Program[JobOf[r]]) /\ Program[JobOf[r]] \in Seq(Call)
        BY <1>1, <4>2, CallType, ProgramType, MapAssumption
      <4> QED BY <4>1, <4>2, <4>3 DEF InCollective, ThisCall
    <3>2. CASE Crash(r)
      <4>1. UNCHANGED <<at, phase>>
        BY <3>2 DEF Crash
      <4> QED BY <1>1, <4>1 DEF InCollective, ThisCall
    <3>3. CASE SkipIgnored(r) \/ MPI_Send(r) \/ MPI_Recv(r) \/ MPI_Irecv(r) \/ MPI_Wait(r)
      <4>1. phase' = phase /\ phase[r] = "run"
        BY <3>3 DEF SkipIgnored, MPI_Send, MPI_Recv, MPI_Irecv, MPI_Wait, Looping, Executes
      <4> QED BY <4>1 DEF InCollective
    <3> QED BY <1>4, <3>1, <3>2, <3>3 DEF Step
  <2>4. \A p \in Proc \ {r} : InCollective(p)' <=> InCollective(p)
    BY <2>1 DEF InCollective, ThisCall
  <2> QED BY <1>1, <2>2, <2>3, <2>4
<1>5. ASSUME AgreeSucceeds \/ AgreeFails \/ Shrink
      PROVE  (\A p \in Proc : InCollective(p)') /\ \A p \in Live' : RequestFits(p)'
  <2>1. /\ \A p \in Live : Running(p) /\ phase[p] # "run"
        /\ dead' = dead /\ UNCHANGED <<i, req>>
        /\ \A p \in Proc \ Live : phase'[p] \in {"run", phase[p]} /\ at'[p] = at[p]
        /\ \/ UNCHANGED at
           \/ AgreeSucceeds /\ \A p \in Live : at'[p] = at[p] + 1 /\ phase'[p] = "run"
    BY <1>1, <1>5, JointStep
  <2>2. \A p \in Live : /\ req[p] = NoRequest /\ ~InIrecv(p) /\ \A k : ~Waiting(p, k)
                        /\ at[p] \in DOMAIN Program[JobOf[p]]
                        /\ ThisCall(p).call = "collective" /\ i[p] = 1
    <3> SUFFICES ASSUME NEW p \in Live
                 PROVE  /\ req[p] = NoRequest /\ ~InIrecv(p) /\ \A k : ~Waiting(p, k)
                        /\ at[p] \in DOMAIN Program[JobOf[p]]
                        /\ ThisCall(p).call = "collective" /\ i[p] = 1
      OBVIOUS
    <3>1. p \in Proc /\ RequestFits(p) /\ InCollective(p) /\ phase[p] # "run" /\ InLoop(p)
      BY <1>1, <2>1 DEF TypeInv, Local
    <3>2. i[p] = 1
      BY <3>1 DEF InLoop
    <3> QED BY <1>1, <3>1, <3>2, NothingPosted
  <2>3. CASE UNCHANGED at
    <3>1. ASSUME NEW p \in Proc PROVE InCollective(p)'
      BY <1>1, <2>1, <2>2, <2>3 DEF InCollective, ThisCall
    <3>2. ASSUME NEW p \in Live' PROVE RequestFits(p)'
      <4>1. p \in Live /\ at' = at /\ req' = req
        BY <1>3, <2>1, <2>3
      <4>2. ~InIrecv(p)' /\ (\A k : ~Waiting(p, k)') /\ req'[p] = NoRequest
        BY <2>2, <4>1 DEF InIrecv, ThisCall, Waiting, Spans
      <4> QED BY <4>2 DEF RequestFits
    <3> QED BY <3>1, <3>2
  <2>4. CASE AgreeSucceeds /\ \A p \in Live : at'[p] = at[p] + 1 /\ phase'[p] = "run"
    <3>1. ASSUME NEW p \in Proc PROVE InCollective(p)'
      BY <1>1, <2>1, <2>4 DEF InCollective, ThisCall
    <3>2. ASSUME NEW p \in Live' PROVE RequestFits(p)'
      <4>1. p \in Live /\ p \in Proc /\ RequestFits(p) /\ req'[p] = req[p]
        BY <1>1, <1>3, <2>1
      <4>2. UNCHANGED <<mapVars, ignore>>
        BY <2>4 DEF AgreeSucceeds, Unnoticed
      <4>3. i'[p] = 1 /\ at'[p] = at[p] + 1
        BY <2>1, <2>2, <2>4, <4>1
      <4> QED BY <2>2, <4>1, <4>2, <4>3, FitsNext
    <3> QED BY <3>1, <3>2
  <2> QED BY <2>1, <2>3, <2>4
<1>6. ASSUME Finished \/ UNCHANGED vars
      PROVE  (\A p \in Proc : InCollective(p)') /\ \A p \in Live' : RequestFits(p)'
  <2>1. UNCHANGED <<mapVars, dead, at, i, phase, req, ignore>>
    BY <1>6 DEF Finished, vars, recvVars
  <2>2. \A p \in Proc : InCollective(p)' <=> InCollective(p)
    BY <2>1 DEF InCollective, ThisCall
  <2>3. \A p \in Live : RequestFits(p)'
    BY <1>1, <2>1, FitsStays
  <2> QED BY <1>1, <1>3, <2>2, <2>3
<1>7. (\A p \in Proc : InCollective(p)') /\ \A p \in Live' : RequestFits(p)'
  BY <1>4, <1>5, <1>6 DEF Next
<1> QED BY <1>2, <1>3, <1>7 DEF RequestInv

\* RequestInv holds at the start: no call has been made.
LEMMA FirstRequests == Init => RequestInv
<1> SUFFICES ASSUME Init PROVE RequestInv
  OBVIOUS
<1>1. TypeInv
  BY FirstTypes
<1>2. IgnoreInv /\ Live \in SUBSET world
  BY DEF Init, IgnoreInv, IgnoredAwaitShrink, Live
<1>3. \A p \in Proc : InCollective(p)
  BY DEF Init, InCollective
<1>4. ASSUME NEW p \in Proc PROVE RequestFits(p)
  <2>1. at[p] = 1 /\ i[p] = 1 /\ req[p] = NoRequest
    BY DEF Init
  <2>2. /\ NoRequest.open = {} /\ NoRequest.trials = 0
        /\ NoRequest.source = <<>> /\ Len(NoRequest.source) = 0
    BY DEF NoRequest
  <2>3. \A b : Serves(p, b, 0)
    BY <2>1, <2>2 DEF Serves
  <2>4. i[p] - 1 = 0
    BY <2>1
  <2>5. \A k : ~Waiting(p, k)
    <3>1. DOMAIN Program[JobOf[p]] \in SUBSET (Nat \ {0})
      BY ProgramType, MapAssumption
    <3> QED BY <2>1, <3>1 DEF Waiting, Spans
  <2> QED BY <2>1, <2>2, <2>3, <2>4, <2>5 DEF RequestFits
<1>5. Live \in SUBSET Proc
  BY DEF Live
<1> QED BY <1>1, <1>2, <1>3, <1>4, <1>5 DEF RequestInv

\* In the attempt at which MPI_Wait gives up nothing is posted to any of at most
\* WaitTrials + 1 workers: all have failed.
LEMMA LastAttempt ==
  ASSUME WaitsBetweenCollectives, RequestInv, NEW p \in Live, Executes(p, "wait"), GivesUp(p),
         NEW b, b = ThisCall(p).peer, Cardinality(Map!Workers(b, Proc)) <= WaitTrials + 1
  PROVE  Map!Workers(b, Live) = {}
<1> DEFINE V == Map!Workers(b, world)
           n == Len(rank_list[b])
<1>1. /\ TypeInv /\ IgnoreInv /\ RequestFits(p) /\ Live \in SUBSET world
      /\ p \in Proc /\ ListInv /\ world \in SUBSET Proc
  BY DEF RequestInv, TypeInv, Shared, ListInv, Live
<1>2. b \in Job /\ Serves(p, b, n)
  BY <1>1, AtWait
<1>3. /\ n = Cardinality(V)
      /\ \A q \in V : rank_list[b][Place(b, world)[q]] = Map!Rank(q, world)
  BY <1>1, <1>2 DEF ListInv
<1>4. /\ V \in SUBSET world /\ Cardinality(V) \in Nat
      /\ Place(b, world) \in [V -> 1..Cardinality(V)]
  BY <1>1, Places
<1>5. n \in Nat /\ n <= WaitTrials + 1
  <2>1. V \in SUBSET Map!Workers(b, Proc) /\ IsFiniteSet(Map!Workers(b, Proc))
    <3>1. V \in SUBSET Map!Workers(b, Proc)
      BY <1>1 DEF Map!Workers
    <3>2. Proc \in SUBSET Proc
      OBVIOUS
    <3> QED BY <3>1, <3>2, Places
  <2>2. Cardinality(V) <= Cardinality(Map!Workers(b, Proc))
        /\ Cardinality(Map!Workers(b, Proc)) \in Nat
    BY <2>1, FS_Subset, FS_CardinalityType
  <2> HIDE DEF V
  <2> QED BY <1>3, <1>4, <2>2, TrialsType
<1> HIDE DEF n, V
<1>6. /\ Len(req[p].source) = n
      /\ \A m \in 1..n : m \notin req[p].open => rank_list[b][m] \in ignore[p]
      /\ req[p].open # {} => req[p].trials + Cardinality(req[p].open) <= n
  BY <1>2 DEF Serves
<1>7. req[p].open = {}
  <2>1. req[p].open \in SUBSET (1..n) /\ req[p].trials \in Nat /\ req[p].trials > WaitTrials
    BY <1>1, <1>6, RequestParts DEF GivesUp
  <2>2. IsFiniteSet(1..n)
    <3>1. 1 \in Int /\ n \in Int
      BY <1>5
    <3> QED BY <3>1, FS_Interval
  <2>3. IsFiniteSet(req[p].open)
    BY <2>1, <2>2, FS_Subset
  <2>4. Cardinality(req[p].open) \in Nat /\ (Cardinality(req[p].open) = 0 => req[p].open = {})
    BY <2>3, FS_EmptySet, FS_CardinalityType
  <2> QED BY <1>5, <1>6, <2>1, <2>4, TrialsType
<1>8. ASSUME NEW q \in V PROVE q \in dead
  <2>1. Place(b, world)[q] \in 1..n /\ q \in world
    BY <1>3, <1>4
  <2>2. Map!Rank(q, world) \in ignore[p]
    BY <1>3, <1>6, <1>7, <2>1
  <2>3. Map!Rank(q, world) < Cardinality(world) /\ ProcOf(Map!Rank(q, world)) = q
    BY <1>1, <2>1, Ranks, ProcOfRank
  <2>4. \A r \in ignore[p] : r < Cardinality(world) => ProcOf(r) \in dead
    BY <1>1 DEF IgnoreInv, IgnoredAwaitShrink
  <2> QED BY <2>2, <2>3, <2>4
<1> QED BY <1>1, <1>8 DEF Map!Workers, Live, V

\* Who has exited stays in its MPI_Wait, and no worker comes back.
LEMMA LostStep ==
  ASSUME WaitsBetweenCollectives, \A j \in Job : Cardinality(Map!Workers(j, Proc)) <= WaitTrials + 1,
         RequestInv, GivesUpOnlyIfLost, [Next]_vars
  PROVE  GivesUpOnlyIfLost'
<1>1. /\ TypeInv /\ dead \in SUBSET Proc /\ exited \in SUBSET dead /\ Live \in SUBSET Proc
      /\ at \in [Proc -> Nat] /\ Live \in SUBSET world
  BY DEF RequestInv, TypeInv, Shared, Local, Live
<1>2. Live' \in SUBSET Live /\ \A j : Map!Workers(j, Live) = {} => Map!Workers(j, Live)' = {}
  <2>1. dead \in SUBSET dead'
    BY <1>1, StepShape
  <2>2. Live' \in SUBSET Live
    BY <2>1 DEF Live
  <2> QED BY <2>2 DEF Map!Workers
<1>3. ASSUME NEW p \in Proc, at'[p] = at[p], NEW b, b = ThisCall(p).peer,
             Map!Workers(b, Live) = {}
      PROVE  ~JobAlive(ThisCall(p).peer)'
  <2>1. ThisCall(p)' = ThisCall(p)
    BY <1>3 DEF ThisCall
  <2>2. Map!Workers(b, Live)' = {}
    BY <1>2, <1>3
  <2>3. ASSUME NEW c, c = ThisCall(p)'.peer PROVE ~JobAlive(c)'
    BY <1>3, <2>1, <2>2, <2>3 DEF JobAlive
  <2> QED BY <2>3
<1>4. ASSUME NEW p \in exited, at'[p] = at[p] PROVE ~JobAlive(ThisCall(p).peer)'
  <2>1. ~JobAlive(ThisCall(p).peer) /\ p \in Proc
    BY <1>1 DEF GivesUpOnlyIfLost
  <2>2. ASSUME NEW b, b = ThisCall(p).peer PROVE ~JobAlive(ThisCall(p).peer)'
    BY <1>3, <1>4, <2>1, <2>2 DEF JobAlive
  <2> QED BY <2>2
<1>5. \A p \in exited : at'[p] = at[p]
  <2>1. ASSUME NEW r \in Proc, Step(r) \/ Crash(r) PROVE \A p \in exited : at'[p] = at[p]
    BY <1>1, <2>1, OthersStay DEF Live
  <2>2. ASSUME AgreeSucceeds \/ AgreeFails \/ Shrink PROVE \A p \in exited : at'[p] = at[p]
    BY <1>1, <2>2, JointStep DEF Live
  <2>3. ASSUME Finished \/ UNCHANGED vars PROVE \A p \in exited : at'[p] = at[p]
    BY <2>3 DEF Finished, vars
  <2> QED BY <2>1, <2>2, <2>3 DEF Next
<1>6. ASSUME NEW r \in Proc, MPI_Wait(r) PROVE GivesUpOnlyIfLost'
  <2>1. Executes(r, "wait") /\ r \in Live
    BY <1>6 DEF MPI_Wait, Executes, Running
  <2>2. PICK done, failed : AfterWaitall(r, done, failed)
    BY <1>6, Zenon DEF MPI_Wait
  <2>3. \/ GivesUp(r) /\ exited' = exited \union {r} /\ UNCHANGED at
        \/ UNCHANGED exited
    BY <2>2 DEF AfterWaitall
  <2>4. CASE UNCHANGED exited
    BY <1>4, <1>5, <2>4 DEF GivesUpOnlyIfLost
  <2>5. CASE GivesUp(r) /\ exited' = exited \union {r} /\ UNCHANGED at
    <3>1. ThisCall(r).peer \in Job
      BY <1>1, <2>1, CallType DEF Executes
    <3>2. ASSUME NEW b, b = ThisCall(r).peer PROVE Map!Workers(b, Live) = {}
      BY <2>1, <2>5, <3>1, <3>2, LastAttempt
    <3>3. ~JobAlive(ThisCall(r).peer)'
      <4>1. ASSUME NEW b, b = ThisCall(r).peer PROVE ~JobAlive(ThisCall(r).peer)'
        BY <1>3, <2>5, <3>2, <4>1
      <4> QED BY <4>1
    <3> QED BY <1>4, <1>5, <2>5, <3>3 DEF GivesUpOnlyIfLost
  <2> QED BY <2>3, <2>4, <2>5
<1>7. ASSUME UNCHANGED exited PROVE GivesUpOnlyIfLost'
  BY <1>4, <1>5, <1>7 DEF GivesUpOnlyIfLost
<1>8. \/ UNCHANGED exited
      \/ \E r \in Proc : MPI_Wait(r)
  <2>1. ASSUME NEW r \in Proc, Step(r) \/ Crash(r), ~MPI_Wait(r) PROVE UNCHANGED exited
    BY <2>1 DEF Step, Crash, SkipIgnored, MPI_Send, MPI_Recv, MPI_Irecv, MPI_Comm_agree
  <2>2. ASSUME AgreeSucceeds \/ AgreeFails \/ Shrink PROVE UNCHANGED exited
    BY <2>2 DEF AgreeSucceeds, AgreeFails, Shrink
  <2>3. ASSUME Finished \/ UNCHANGED vars PROVE UNCHANGED exited
    BY <2>3 DEF Finished, vars
  <2> QED BY <2>1, <2>2, <2>3 DEF Next
<1> QED BY <1>6, <1>7, <1>8

\* MPI_Wait gives up (exit 999) once more than WaitTrials attempts have failed.
\* With at most WaitTrials + 1 workers to a job (five, by the 4 in the code) that
\* is only when no worker of the source is left, however many processes fail and
\* whenever they do.
THEOREM GivesUpOnlyIfLostHolds ==
  ASSUME WaitsBetweenCollectives,
         \A j \in Job : Cardinality(Map!Workers(j, Proc)) <= WaitTrials + 1
  PROVE  Spec => []GivesUpOnlyIfLost
<1> DEFINE Inv == RequestInv /\ GivesUpOnlyIfLost
<1>1. Init => Inv
  BY FirstRequests DEF Init, GivesUpOnlyIfLost
<1>2. Inv /\ [Next]_vars => Inv'
  BY RequestStep, LostStep
<1>3. Inv => GivesUpOnlyIfLost
  OBVIOUS
<1> QED BY <1>1, <1>2, <1>3, PTL DEF Spec

-----------------------------------------------------------------------------
(* What is on its way from one process to another.                         *)

\* Which of the calls A to or from the worker in place c a process has made
\* that is at call a, worker l.
Done(a, l, c, A) == {x \in A : x < a \/ (x = a /\ c < l)}

\* The messages to p that q has sent, the receives from q that p has passed.
SentTo(q, p) ==
    Done(at[q], i[q], Place(JobOf[p], world)[p], Sends(JobOf[q], JobOf[p]))
ReceivedFrom(p, q) ==
    Done(at[p], i[p], Place(JobOf[q], world)[q], Receives(JobOf[p], JobOf[q]))

\* The n-th of A has the number n.  The members of X whose partner, the one
\* with the same number, is not in Y.
Nth(A) == [x \in A |-> Cardinality({l \in A : l <= x})]
Unmet(X, Y, f, g) == {x \in X : \A y \in Y : f[x] # g[y]}

\* Of a worker of job b that has made the sends X and a worker of job j that
\* has passed the receives Y: the messages M between them are the ones sent
\* and not asked for; the orphaned receives H are the ones given up before
\* the message was sent.
Balance(M, H, b, j, X, Y) ==
    LET f == Nth(Sends(b, j))
        g == Nth(Receives(j, b))
    IN  /\ {m.data : m \in M} = Unmet(X, Y, f, g)
        /\ {h.call : h \in H} = Unmet(Y, X, g, f)

Channel(q, p) ==
    Balance(Messages(q, p, epoch), Holes(q, p, epoch), JobOf[q], JobOf[p],
            SentTo(q, p), ReceivedFrom(p, q))

Message == [from : Proc, to : Proc, epoch : Nat, data : Nat]
Orphan == [from : Proc, to : Proc, epoch : Nat, call : Nat]
Outcome == {"unset", "success", "failed"}
Status == [source : Int, error : Outcome]
Result == [call : Nat, source : Job \union Int, error : Outcome, data : Int]
NetType ==
    /\ net \in SUBSET Message /\ \A m \in net : m.epoch <= epoch
    /\ orphans \in SUBSET Orphan /\ \A h \in orphans : h.epoch <= epoch
    /\ buf \in [Proc -> Int] /\ status \in [Proc -> Status]
    /\ got \in [Proc -> Seq(Result)]

\* The collective calls that a process has passed.
Passes(p) == Section(JobOf[p], at[p] - 1)

\* The processes that can be in a shrink have passed the same ones.
SameSection ==
    \A p \in Live, q \in world :
        q \in Live \/ phase[q] = "shrink" => Passes(q) = Passes(p)

\* MPI_Recv has its message as soon as a live worker has been asked.
BufferFits(p) ==
    at[p] <= Len(Program[JobOf[p]]) /\ ThisCall(p).call = "recv" =>
        \A q \in Map!Workers(ThisCall(p).peer, Live) :
            Place(JobOf[q], world)[q] < i[p] => buf[p] = Expected(JobOf[p], at[p])

\* The status is good only in an MPI_Recv that has its message.
StatusFits(p) ==
    status[p].error = "success" =>
        /\ at[p] <= Len(Program[JobOf[p]]) /\ ThisCall(p).call = "recv"
        /\ buf[p] = Expected(JobOf[p], at[p])

\* A process has a right channel from everyone it does not ignore.
Channels ==
    \A p \in Live, q \in world : Map!Rank(q, world) \notin ignore[p] => Channel(q, p)

ChannelInv ==
    /\ RequestInv /\ NetType /\ SameSection
    /\ \A p \in Live : BufferFits(p) /\ StatusFits(p)
    /\ Channels

-----------------------------------------------------------------------------
(* Sends and receives in the order of their programs.                      *)

\* X is a beginning of S.
Beginning(X, S) == X \in SUBSET S /\ \A x \in X, y \in S : y <= x => y \in X

\* Two sets of calls that have partners in each other, in the same order.
Aligned(S, R, f, g) ==
    /\ S \in SUBSET Nat /\ R \in SUBSET Nat /\ f \in [S -> Nat] /\ g \in [R -> Nat]
    /\ \A x, y \in S : x <= y <=> f[x] <= f[y]
    /\ \A x, y \in R : x <= y <=> g[x] <= g[y]
    /\ \A x \in S : \E y \in R : f[x] = g[y]
    /\ \A y \in R : \E x \in S : f[x] = g[y]

\* x is the first of S behind X.
NextOf(x, X, S) == x \in S \ X /\ \A y \in S : y < x => y \in X

\* What one more call x on one side changes: it takes the first call that
\* waits on the other side or, if none does, waits itself.
Takes(x, X, Y, f, g) ==
    \E y \in Unmet(Y, X, g, f) :
        /\ \A z \in Unmet(Y, X, g, f) : y <= z
        /\ f[x] = g[y]
        /\ Unmet(Y, X \union {x}, g, f) = Unmet(Y, X, g, f) \ {y}
        /\ Unmet(X \union {x}, Y, f, g) = Unmet(X, Y, f, g)
Waits(x, X, Y, f, g) ==
    /\ Unmet(Y, X \union {x}, g, f) = {}
    /\ Unmet(X \union {x}, Y, f, g) = Unmet(X, Y, f, g) \union {x}

\* Being aligned is symmetric.
LEMMA AlignedSwap ==
  ASSUME NEW S, NEW R, NEW f, NEW g, Aligned(S, R, f, g)
  PROVE  Aligned(R, S, g, f)
BY DEF Aligned

\* The next call on one side meets the first call of the other side that has
\* no partner yet, or has to wait for one.
LEMMA NextMet ==
  ASSUME NEW S, NEW R, NEW f, NEW g, Aligned(S, R, f, g),
         NEW X, NEW Y, Beginning(X, S), Beginning(Y, R), NEW x, NextOf(x, X, S)
  PROVE  /\ Unmet(Y, X, g, f) # {} => Takes(x, X, Y, f, g)
         /\ Unmet(Y, X, g, f) = {} => Waits(x, X, Y, f, g)
<1> DEFINE A == Unmet(Y, X, g, f)
           U == Unmet(X, Y, f, g)
           A1 == Unmet(Y, X \union {x}, g, f)
           U1 == Unmet(X \union {x}, Y, f, g)
<1>1. /\ S \in SUBSET Nat /\ R \in SUBSET Nat /\ f \in [S -> Nat] /\ g \in [R -> Nat]
      /\ \A y, z \in S : y <= z <=> f[y] <= f[z]
      /\ \A y, z \in R : y <= z <=> g[y] <= g[z]
  BY DEF Aligned
<1>2. PICK k \in R : f[x] = g[k]
  BY DEF Aligned, NextOf
<1>3. X \in SUBSET S /\ Y \in SUBSET R /\ x \in S /\ x \notin X
      /\ \A y \in S : y < x => y \in X
  BY DEF Beginning, NextOf
<1>4. ASSUME NEW y \in R, NEW z \in S, f[z] = g[y]
      PROVE  k <= y <=> x <= z
  <2>1. x \in Nat /\ z \in Nat /\ y \in Nat /\ k \in Nat
    BY <1>1, <1>3
  <2>2. /\ k <= y <=> g[k] <= g[y]
        /\ x <= z <=> f[x] <= f[z]
    BY <1>1, <1>3
  <2> QED BY <1>2, <1>4, <2>1, <2>2
<1>5. ASSUME NEW y \in A PROVE k <= y /\ k \in Y
  <2>1. y \in Y /\ y \in R /\ \A z \in X : g[y] # f[z]
    BY <1>3 DEF Unmet
  <2>2. PICK z \in S : f[z] = g[y]
    BY <2>1 DEF Aligned
  <2>3. z \notin X /\ ~(z < x)
    BY <1>3, <2>1, <2>2
  <2>4. x <= z
    BY <1>1, <1>3, <2>3
  <2>5. k <= y
    BY <1>4, <2>1, <2>2, <2>4
  <2> QED BY <2>1, <2>5 DEF Beginning
<1>6. \A z \in X : f[z] # f[x]
  <2>1. ASSUME NEW z \in X, f[z] = f[x] PROVE FALSE
    BY <1>1, <1>3, <2>1
  <2> QED BY <2>1
<1>7. \A y \in R : g[y] = f[x] <=> y = k
  <2>1. ASSUME NEW y \in R, g[y] = f[x] PROVE y = k
    BY <1>1, <1>2, <2>1
  <2> QED BY <1>2, <2>1
<1>8. A1 = {y \in A : y # k}
  BY <1>3, <1>7 DEF Unmet
<1>9. ASSUME k \in Y PROVE k \in A /\ U1 = U
  BY <1>2, <1>3, <1>6, <1>9 DEF Unmet
<1>10. ASSUME k \notin Y PROVE U1 = U \union {x}
  BY <1>3, <1>7, <1>10 DEF Unmet
<1>11. CASE A # {}
  <2>1. k \in Y
    BY <1>5, <1>11
  <2>2. k \in A /\ U1 = U /\ A1 = A \ {k} /\ \A z \in A : k <= z
    BY <1>5, <1>8, <1>9, <2>1
  <2> QED BY <1>2, <1>11, <2>2 DEF Takes
<1>12. CASE A = {}
  <2>1. k \notin Y
    BY <1>9, <1>12
  <2> QED BY <1>8, <1>10, <1>12, <2>1 DEF Waits
<1> QED BY <1>11, <1>12

\* The calls of a program, numbered in their order.
LEMMA NthOrder ==
  ASSUME NEW n \in Nat, NEW A \in SUBSET (1..n)
  PROVE  /\ A \in SUBSET Nat /\ Nth(A) \in [A -> Nat]
         /\ \A x, y \in A : x <= y <=> Nth(A)[x] <= Nth(A)[y]
         /\ \A x, y \in A : Nth(A)[x] = Nth(A)[y] => x = y
<1> DEFINE key == [x \in A |-> x]
<1>1. A \in SUBSET Nat /\ IsFiniteSet(A)
  <2>1. 1 \in Int /\ n \in Int /\ 1..n \in SUBSET Nat
    OBVIOUS
  <2>2. IsFiniteSet(1..n)
    BY <2>1, FS_Interval
  <2> QED BY <2>1, <2>2, FS_Subset
<1>2. (\A x \in A : key[x] \in Nat) /\ \A x, y \in A : key[x] = key[y] => x = y
  BY <1>1
<1>3. \A x \in A : key[x] = x
  OBVIOUS
<1>4. Nth(A) = Number(A, key)
  <2>1. ASSUME NEW x \in A PROVE {l \in A : l <= x} = Upto(A, key, x)
    BY <1>3 DEF Upto
  <2> HIDE DEF key
  <2> QED BY <2>1 DEF Nth, Number
<1> HIDE DEF key
<1>5. /\ \A x \in A : Number(A, key)[x] \in 1..Cardinality(A)
      /\ \A x, y \in A : key[x] < key[y] <=> Number(A, key)[x] < Number(A, key)[y]
      /\ \A x, y \in A : Number(A, key)[x] = Number(A, key)[y] => x = y
      /\ Cardinality(A) \in Nat
  BY <1>1, <1>2, NumberOrder
<1>6. Nth(A) \in [A -> Nat]
  <2>1. \A x \in A : Nth(A)[x] \in Nat
    BY <1>4, <1>5
  <2> QED BY <2>1 DEF Nth
<1> QED BY <1>1, <1>3, <1>4, <1>5, <1>6

\* In a program that keeps its messages between collective calls, the sends
\* and the receives of two jobs are aligned, and a receive expects the send
\* with its number.
LEMMA Alignment ==
  ASSUME MessagesBetweenCollectives, NEW b \in Job, NEW j \in Job
  PROVE  /\ Aligned(Sends(b, j), Receives(j, b), Nth(Sends(b, j)), Nth(Receives(j, b)))
         /\ \A k \in Receives(j, b), s \in Sends(b, j) :
               Nth(Sends(b, j))[s] = Nth(Receives(j, b))[k] =>
                   /\ Section(b, s) = Section(j, k)
                   /\ Expected(j, k) = s
<1> DEFINE S == Sends(b, j)
           R == Receives(j, b)
<1>1. Program[b] \in Seq(Call) /\ Program[j] \in Seq(Call)
  BY ProgramType
<1>2. /\ Len(Program[b]) \in Nat /\ S \in SUBSET (1..Len(Program[b]))
      /\ Len(Program[j]) \in Nat /\ R \in SUBSET (1..Len(Program[j]))
  BY <1>1 DEF Sends, Receives
<1>3. \A s \in S, k \in R : Matches(b, s, j, k) <=> Nth(S)[s] = Nth(R)[k]
  BY DEF Matches, Nth
<1>4. /\ \A s \in S : \E k \in R : Matches(b, s, j, k) /\ Section(b, s) = Section(j, k)
      /\ \A k \in R : \E s \in S : Matches(b, s, j, k) /\ Section(b, s) = Section(j, k)
  BY DEF MessagesBetweenCollectives
<1>5. \A k \in R : Program[j][k].peer = b
  BY DEF Receives
<1> HIDE DEF S, R
<1>6. /\ S \in SUBSET Nat /\ Nth(S) \in [S -> Nat]
      /\ \A x, y \in S : x <= y <=> Nth(S)[x] <= Nth(S)[y]
      /\ \A x, y \in S : Nth(S)[x] = Nth(S)[y] => x = y
  BY <1>2, NthOrder
<1>7. /\ R \in SUBSET Nat /\ Nth(R) \in [R -> Nat]
      /\ \A x, y \in R : x <= y <=> Nth(R)[x] <= Nth(R)[y]
      /\ \A x, y \in R : Nth(R)[x] = Nth(R)[y] => x = y
  BY <1>2, NthOrder
<1>8. Aligned(S, R, Nth(S), Nth(R))
  <2>1. /\ \A x \in S : \E y \in R : Nth(S)[x] = Nth(R)[y]
        /\ \A y \in R : \E x \in S : Nth(S)[x] = Nth(R)[y]
    BY <1>3, <1>4
  <2> QED BY <1>6, <1>7, <2>1 DEF Aligned
<1>9. ASSUME NEW k \in R, NEW s \in S, Nth(S)[s] = Nth(R)[k]
      PROVE  Section(b, s) = Section(j, k) /\ Expected(j, k) = s
  <2>1. Matches(b, s, j, k) /\ \A t \in S : Matches(b, t, j, k) => t = s
    BY <1>3, <1>6, <1>9
  <2>2. Section(b, s) = Section(j, k)
    BY <1>4, <2>1
  <2>3. Expected(j, k) = CHOOSE t \in S : Matches(b, t, j, k)
    BY <1>5 DEF Expected, S
  <2> QED BY <2>1, <2>2, <2>3
<1> QED BY <1>8, <1>9 DEF S, R

\* How the calls made grow from one worker to the next and from one call to
\* the next.
LEMMA DoneGrows ==
  ASSUME NEW A \in SUBSET Nat, NEW a \in Nat, NEW l \in Nat \ {0}, NEW c \in Nat \ {0}
  PROVE  /\ Beginning(Done(a, l, c, A), A)
         /\ a \notin A => /\ Done(a + 1, 1, c, A) = Done(a, l, c, A)
                          /\ \A m : Done(a, m, c, A) = Done(a, l, c, A)
         /\ a \in A /\ l <= c => /\ NextOf(a, Done(a, l, c, A), A)
                                 /\ Done(a + 1, 1, c, A) = Done(a, l, c, A) \union {a}
         /\ a \in A /\ l = c => Done(a, l + 1, c, A) = Done(a, l, c, A) \union {a}
         /\ l # c => Done(a, l + 1, c, A) = Done(a, l, c, A)
         /\ c < l => Done(a + 1, 1, c, A) = Done(a, l, c, A)
<1>1. \A x \in A : x \in Nat
  OBVIOUS
<1>2. Beginning(Done(a, l, c, A), A)
  BY <1>1 DEF Beginning, Done
<1>3. ASSUME a \notin A
      PROVE  /\ Done(a + 1, 1, c, A) = Done(a, l, c, A)
             /\ \A m : Done(a, m, c, A) = Done(a, l, c, A)
  <2>1. \A x \in A : x # a /\ (x < a + 1 <=> x < a) /\ ~(x = a + 1 /\ c < 1)
    BY <1>1, <1>3
  <2> QED BY <2>1 DEF Done
<1>4. ASSUME a \in A, l <= c
      PROVE  /\ NextOf(a, Done(a, l, c, A), A)
             /\ Done(a + 1, 1, c, A) = Done(a, l, c, A) \union {a}
  <2>1. \A x \in A : (x < a + 1 <=> (x < a \/ x = a)) /\ ~(x = a + 1 /\ c < 1) /\ ~(c < l)
                     /\ (x < a => x # a)
    BY <1>1, <1>4
  <2>2. Done(a + 1, 1, c, A) = Done(a, l, c, A) \union {a}
    BY <1>4, <2>1 DEF Done
  <2>3. a \notin Done(a, l, c, A)
    BY <1>4, <2>1 DEF Done
  <2> QED BY <1>4, <2>2, <2>3 DEF Done, NextOf
<1>5. ASSUME a \in A, l = c PROVE Done(a, l + 1, c, A) = Done(a, l, c, A) \union {a}
  <2>1. c < l + 1 /\ ~(c < l)
    BY <1>5
  <2> QED BY <1>5, <2>1 DEF Done
<1>6. ASSUME l # c PROVE Done(a, l + 1, c, A) = Done(a, l, c, A)
  <2>1. c < l + 1 <=> c < l
    BY <1>6
  <2> QED BY <2>1 DEF Done
<1>7. ASSUME c < l PROVE Done(a + 1, 1, c, A) = Done(a, l, c, A)
  <2>1. \A x \in A : (x < a + 1 <=> (x < a \/ x = a)) /\ ~(x = a + 1 /\ c < 1)
    BY <1>1
  <2> QED BY <1>7, <2>1 DEF Done
<1> QED BY <1>2, <1>3, <1>4, <1>5, <1>6, <1>7

\* The messages, and the orphaned receives, between two processes in one
\* communicator: no two have the same number.
LEMMA Distinct ==
  ASSUME NetType, NEW q, NEW p, NEW e
  PROVE  /\ \A m \in Messages(q, p, e) : m.data \in Nat
         /\ \A m, n \in Messages(q, p, e) : m.data = n.data => m = n
         /\ \A h \in Holes(q, p, e) : h.call \in Nat
         /\ \A h, g \in Holes(q, p, e) : h.call = g.call => h = g
<1>1. net \in SUBSET Message /\ orphans \in SUBSET Orphan
  BY DEF NetType
<1>2. ASSUME NEW m \in Messages(q, p, e)
      PROVE  m = [from |-> q, to |-> p, epoch |-> e, data |-> m.data] /\ m.data \in Nat
  BY <1>1 DEF Messages, Message
<1>3. ASSUME NEW h \in Holes(q, p, e)
      PROVE  h = [from |-> q, to |-> p, epoch |-> e, call |-> h.call] /\ h.call \in Nat
  BY <1>1 DEF Holes, Orphan
<1>4. \A m, n \in Messages(q, p, e) : m.data = n.data => m = n
  <2> SUFFICES ASSUME NEW m \in Messages(q, p, e), NEW n \in Messages(q, p, e), m.data = n.data
               PROVE  m = n
    OBVIOUS
  <2>1. ASSUME NEW d, d = m.data PROVE m = n
    <3>1. m = [from |-> q, to |-> p, epoch |-> e, data |-> d]
      BY <1>2, <2>1
    <3>2. n = [from |-> q, to |-> p, epoch |-> e, data |-> d]
      BY <1>2, <2>1
    <3> QED BY ONLY <3>1, <3>2
  <2> QED BY <2>1
<1>5. \A h, g \in Holes(q, p, e) : h.call = g.call => h = g
  <2> SUFFICES ASSUME NEW h \in Holes(q, p, e), NEW g \in Holes(q, p, e), h.call = g.call
               PROVE  h = g
    OBVIOUS
  <2>1. ASSUME NEW d, d = h.call PROVE h = g
    <3>1. h = [from |-> q, to |-> p, epoch |-> e, call |-> d]
      BY <1>3, <2>1
    <3>2. g = [from |-> q, to |-> p, epoch |-> e, call |-> d]
      BY <1>3, <2>1
    <3> QED BY ONLY <3>1, <3>2
  <2> QED BY <2>1
<1> QED BY <1>2, <1>3, <1>4, <1>5

\* The oldest message is the one with the least number.
LEMMA OldestOf ==
  ASSUME NEW M, \A m \in M : m.data \in Nat, \A m, n \in M : m.data = n.data => m = n,
         NEW d \in {m.data : m \in M}, \A x \in {m.data : m \in M} : d <= x
  PROVE  /\ Oldest(M) \in M /\ Oldest(M).data = d
         /\ {m.data : m \in M \ {Oldest(M)}} = {m.data : m \in M} \ {d}
<1>1. PICK o \in M : o.data = d
  OBVIOUS
<1>2. \A n \in M : o.data <= n.data
  BY <1>1
<1>3. Oldest(M) \in M /\ \A n \in M : Oldest(M).data <= n.data
  BY <1>2 DEF Oldest
<1>4. Oldest(M) = o
  <2>1. Oldest(M).data <= o.data /\ o.data <= Oldest(M).data
    BY <1>2, <1>3
  <2> QED BY <1>3, <2>1
<1>5. \A n \in M : n.data = d <=> n = o
  BY <1>1
<1> QED BY <1>1, <1>4, <1>5

\* The orphaned receive posted first is the one with the least number.
LEMMA FirstOf ==
  ASSUME NEW H, \A h \in H : h.call \in Nat, \A h, g \in H : h.call = g.call => h = g,
         NEW d \in {h.call : h \in H}, \A x \in {h.call : h \in H} : d <= x
  PROVE  /\ FirstPosted(H) \in H
         /\ {h.call : h \in H \ {FirstPosted(H)}} = {h.call : h \in H} \ {d}
<1>1. PICK o \in H : o.call = d
  OBVIOUS
<1>2. \A n \in H : o.call <= n.call
  BY <1>1
<1>3. FirstPosted(H) \in H /\ \A n \in H : FirstPosted(H).call <= n.call
  BY <1>2 DEF FirstPosted
<1>4. FirstPosted(H) = o
  <2>1. FirstPosted(H).call <= o.call /\ o.call <= FirstPosted(H).call
    BY <1>2, <1>3
  <2> QED BY <1>3, <2>1
<1>5. \A n \in H : n.call = d <=> n = o
  BY <1>1
<1> QED BY <1>1, <1>4, <1>5

\* A receive that finds a message takes the one it is for.
LEMMA TakesRight ==
  ASSUME MessagesBetweenCollectives, NEW b \in Job, NEW j \in Job, NEW M, NEW H, NEW X, NEW Y,
         \A m \in M : m.data \in Nat, \A m, n \in M : m.data = n.data => m = n,
         Balance(M, H, b, j, X, Y), Beginning(X, Sends(b, j)), Beginning(Y, Receives(j, b)),
         NEW k, NextOf(k, Y, Receives(j, b)), M # {}
  PROVE  /\ Oldest(M) \in M /\ Oldest(M).data = Expected(j, k)
         /\ Balance(M \ {Oldest(M)}, H, b, j, X, Y \union {k})
<1> DEFINE S == Sends(b, j)
           R == Receives(j, b)
           f == Nth(S)
           g == Nth(R)
<1>1. Aligned(R, S, g, f) /\ \A s \in S : f[s] = g[k] => Expected(j, k) = s
  BY Alignment, AlignedSwap DEF NextOf
<1>2. {m.data : m \in M} = Unmet(X, Y, f, g) /\ {h.call : h \in H} = Unmet(Y, X, g, f)
  BY DEF Balance
<1>3. Beginning(Y, R) /\ Beginning(X, S) /\ NextOf(k, Y, R)
  OBVIOUS
<1>4. Unmet(X, Y, f, g) # {}
  <2> HIDE DEF f, g
  <2> QED BY <1>2
<1> HIDE DEF f, g, S, R
<1>5. Takes(k, Y, X, g, f)
  BY <1>1, <1>3, <1>4, NextMet
<1>6. PICK s \in Unmet(X, Y, f, g) :
        /\ \A z \in Unmet(X, Y, f, g) : s <= z
        /\ g[k] = f[s]
        /\ Unmet(X, Y \union {k}, f, g) = Unmet(X, Y, f, g) \ {s}
        /\ Unmet(Y \union {k}, X, g, f) = Unmet(Y, X, g, f)
  BY <1>5 DEF Takes
<1>7. s \in S
  BY <1>3 DEF Beginning, Unmet
<1>8. Expected(j, k) = s
  BY <1>1, <1>6, <1>7
<1>9. s \in {m.data : m \in M} /\ \A x \in {m.data : m \in M} : s <= x
  BY <1>2, <1>6
<1>10. /\ Oldest(M) \in M /\ Oldest(M).data = s
       /\ {m.data : m \in M \ {Oldest(M)}} = {m.data : m \in M} \ {s}
  BY <1>9, OldestOf
<1>11. /\ {m.data : m \in M \ {Oldest(M)}} = Unmet(X, Y \union {k}, f, g)
       /\ {h.call : h \in H} = Unmet(Y \union {k}, X, g, f)
  BY <1>2, <1>6, <1>10
<1> QED BY <1>8, <1>10, <1>11 DEF Balance, f, g, S, R

\* A receive that is given up before its message was sent waits for it.
LEMMA GivenUp ==
  ASSUME MessagesBetweenCollectives, NEW b \in Job, NEW j \in Job, NEW H, NEW X, NEW Y,
         Balance({}, H, b, j, X, Y), Beginning(X, Sends(b, j)), Beginning(Y, Receives(j, b)),
         NEW k, NextOf(k, Y, Receives(j, b)),
         NEW h, h.call = k
  PROVE  Balance({}, H \union {h}, b, j, X, Y \union {k})
<1> DEFINE S == Sends(b, j)
           R == Receives(j, b)
           f == Nth(S)
           g == Nth(R)
<1>1. Aligned(R, S, g, f)
  BY Alignment, AlignedSwap
<1>2. {m.data : m \in {}} = Unmet(X, Y, f, g) /\ {o.call : o \in H} = Unmet(Y, X, g, f)
  BY DEF Balance
<1>3. Beginning(Y, R) /\ Beginning(X, S) /\ NextOf(k, Y, R)
  OBVIOUS
<1> HIDE DEF f, g, S, R
<1>4. Unmet(X, Y, f, g) = {}
  BY <1>2
<1>5. Waits(k, Y, X, g, f)
  BY <1>1, <1>3, <1>4, NextMet
<1>6. /\ Unmet(X, Y \union {k}, f, g) = {}
      /\ Unmet(Y \union {k}, X, g, f) = Unmet(Y, X, g, f) \union {k}
  BY <1>5 DEF Waits
<1>7. {o.call : o \in H \union {h}} = {o.call : o \in H} \union {k}
  OBVIOUS
<1>8. /\ {m.data : m \in {}} = Unmet(X, Y \union {k}, f, g)
      /\ {o.call : o \in H \union {h}} = Unmet(Y \union {k}, X, g, f)
  BY <1>2, <1>6, <1>7
<1> QED BY <1>8 DEF Balance, f, g, S, R

\* A message goes to the receive that was given up first or, if there is
\* none, is under way.
LEMMA SendsRight ==
  ASSUME MessagesBetweenCollectives, NEW b \in Job, NEW j \in Job, NEW M, NEW H, NEW X, NEW Y,
         \A h \in H : h.call \in Nat, \A h, g \in H : h.call = g.call => h = g,
         Balance(M, H, b, j, X, Y), Beginning(X, Sends(b, j)), Beginning(Y, Receives(j, b)),
         NEW s, NextOf(s, X, Sends(b, j)), NEW m, m.data = s
  PROVE  /\ H # {} => /\ FirstPosted(H) \in H
                      /\ Balance(M, H \ {FirstPosted(H)}, b, j, X \union {s}, Y)
         /\ H = {} => Balance(M \union {m}, H, b, j, X \union {s}, Y)
<1> DEFINE S == Sends(b, j)
           R == Receives(j, b)
           f == Nth(S)
           g == Nth(R)
<1>1. Aligned(S, R, f, g)
  BY Alignment
<1>2. {n.data : n \in M} = Unmet(X, Y, f, g) /\ {h.call : h \in H} = Unmet(Y, X, g, f)
  BY DEF Balance
<1>3. Beginning(Y, R) /\ Beginning(X, S) /\ NextOf(s, X, S)
  OBVIOUS
<1> HIDE DEF f, g, S, R
<1>4. CASE H # {}
  <2>1. Unmet(Y, X, g, f) # {}
    BY <1>2, <1>4
  <2>2. Takes(s, X, Y, f, g)
    BY <1>1, <1>3, <2>1, NextMet
  <2>3. PICK k \in Unmet(Y, X, g, f) :
          /\ \A z \in Unmet(Y, X, g, f) : k <= z
          /\ Unmet(Y, X \union {s}, g, f) = Unmet(Y, X, g, f) \ {k}
          /\ Unmet(X \union {s}, Y, f, g) = Unmet(X, Y, f, g)
    BY <2>2 DEF Takes
  <2>4. k \in {h.call : h \in H} /\ \A x \in {h.call : h \in H} : k <= x
    BY <1>2, <2>3
  <2>5. /\ FirstPosted(H) \in H
        /\ {h.call : h \in H \ {FirstPosted(H)}} = {h.call : h \in H} \ {k}
    BY <2>4, FirstOf
  <2>6. /\ {n.data : n \in M} = Unmet(X \union {s}, Y, f, g)
        /\ {h.call : h \in H \ {FirstPosted(H)}} = Unmet(Y, X \union {s}, g, f)
    BY <1>2, <2>3, <2>5
  <2> QED BY <1>4, <2>5, <2>6 DEF Balance, f, g, S, R
<1>5. CASE H = {}
  <2>1. Unmet(Y, X, g, f) = {}
    BY <1>2, <1>5
  <2>2. Waits(s, X, Y, f, g)
    BY <1>1, <1>3, <2>1, NextMet
  <2>3. /\ Unmet(Y, X \union {s}, g, f) = {}
        /\ Unmet(X \union {s}, Y, f, g) = Unmet(X, Y, f, g) \union {s}
    BY <2>2 DEF Waits
  <2>4. {n.data : n \in M \union {m}} = {n.data : n \in M} \union {s}
    OBVIOUS
  <2>5. /\ {n.data : n \in M \union {m}} = Unmet(X \union {s}, Y, f, g)
        /\ {h.call : h \in H} = Unmet(Y, X \union {s}, g, f)
    BY <1>2, <2>1, <2>3, <2>4
  <2> QED BY <1>5, <2>5 DEF Balance, f, g, S, R
<1> QED BY <1>4, <1>5

-----------------------------------------------------------------------------
(* The sections of a program, and the places of the workers.               *)

\* A collective call, and no other, begins a new section.
LEMMA SectionNext ==
  ASSUME NEW j, NEW a \in Nat \ {0}
  PROVE  /\ Section(j, a) \in Nat /\ Section(j, a - 1) \in Nat
         /\ Program[j][a].call = "collective" => Section(j, a) = Section(j, a - 1) + 1
         /\ Program[j][a].call # "collective" => Section(j, a) = Section(j, a - 1)
<1> DEFINE C(n) == {l \in 1..n : Program[j][l].call = "collective"}
<1>1. ASSUME NEW n \in Nat PROVE IsFiniteSet(C(n)) /\ Cardinality(C(n)) \in Nat
  <2>1. 1 \in Int /\ n \in Int /\ C(n) \in SUBSET (1..n)
    OBVIOUS
  <2>2. IsFiniteSet(1..n)
    BY <2>1, FS_Interval
  <2> QED BY <2>1, <2>2, FS_Subset, FS_CardinalityType
<1>2. a - 1 \in Nat /\ 1..a = 1..(a - 1) \union {a} /\ a \notin 1..(a - 1)
  OBVIOUS
<1>3. /\ Program[j][a].call = "collective" => C(a) = C(a - 1) \union {a}
      /\ Program[j][a].call # "collective" => C(a) = C(a - 1)
      /\ a \notin C(a - 1)
  BY <1>2
<1>4. Section(j, a) = Cardinality(C(a)) /\ Section(j, a - 1) = Cardinality(C(a - 1))
  BY DEF Section
<1> HIDE DEF C
<1> QED BY <1>1, <1>2, <1>3, <1>4, FS_AddElement

\* Later calls are in the same section or in a later one.
LEMMA SectionGrows ==
  ASSUME NEW j, NEW k \in Nat, NEW m \in Nat, k <= m
  PROVE  Section(j, k) \in Nat /\ Section(j, m) \in Nat /\ Section(j, k) <= Section(j, m)
<1> DEFINE C(n) == {l \in 1..n : Program[j][l].call = "collective"}
<1>1. IsFiniteSet(C(m))
  <2>1. 1 \in Int /\ m \in Int /\ C(m) \in SUBSET (1..m)
    OBVIOUS
  <2>2. IsFiniteSet(1..m)
    BY <2>1, FS_Interval
  <2> QED BY <2>1, <2>2, FS_Subset
<1>2. C(k) \in SUBSET C(m)
  OBVIOUS
<1>3. Section(j, k) = Cardinality(C(k)) /\ Section(j, m) = Cardinality(C(m))
  BY DEF Section
<1> HIDE DEF C
<1> QED BY <1>1, <1>2, <1>3, FS_Subset, FS_CardinalityType

\* A collective call separates the sections before it from the ones after.
LEMMA SectionSplit ==
  ASSUME NEW j, NEW a \in Nat \ {0}, Program[j][a].call = "collective",
         NEW x \in Nat, x # a
  PROVE  x < a <=> Section(j, x) <= Section(j, a - 1)
<1>1. /\ Section(j, a) \in Nat /\ Section(j, a - 1) \in Nat
      /\ Section(j, a) = Section(j, a - 1) + 1
  BY SectionNext
<1>2. CASE x < a
  <2>1. x <= a - 1 /\ a - 1 \in Nat
    BY <1>2
  <2> QED BY <1>2, <2>1, SectionGrows
<1>3. CASE a < x
  <2>1. Section(j, a) <= Section(j, x) /\ Section(j, x) \in Nat
    BY <1>3, SectionGrows
  <2> QED BY <1>1, <1>3, <2>1
<1> QED BY <1>2, <1>3

\* The place of a member of the world is that of its rank in the job list.
LEMMA PlaceOf ==
  ASSUME TypeInv, NEW q \in world
  PROVE  LET c == Place(JobOf[q], world)[q]
         IN  /\ q \in Proc /\ JobOf[q] \in Job
             /\ c \in Nat \ {0} /\ c <= Len(rank_list[JobOf[q]])
             /\ rank_list[JobOf[q]][c] = Map!Rank(q, world)
             /\ ProcOf(rank_list[JobOf[q]][c]) = q
<1> DEFINE j == JobOf[q]
           V == Map!Workers(j, world)
           c == Place(j, world)[q]
<1>1. ListInv /\ world \in SUBSET Proc /\ q \in Proc /\ j \in Job
  BY MapAssumption DEF TypeInv, Shared, ListInv
<1>2. q \in V
  BY DEF Map!Workers
<1>3. Cardinality(V) \in Nat /\ Place(j, world) \in [V -> 1..Cardinality(V)]
  BY <1>1, Places
<1>4. /\ Len(rank_list[j]) = Cardinality(V)
      /\ \A p \in V : rank_list[j][Place(j, world)[p]] = Map!Rank(p, world)
  BY <1>1 DEF ListInv
<1> HIDE DEF V
<1>5. c \in Nat \ {0} /\ c <= Len(rank_list[j]) /\ rank_list[j][c] = Map!Rank(q, world)
  BY <1>2, <1>3, <1>4
<1>6. ProcOf(Map!Rank(q, world)) = q
  BY <1>1, ProcOfRank
<1> QED BY <1>1, <1>5, <1>6

\* The worker that a loop is at.
LEMMA PeerOf ==
  ASSUME TypeInv, NEW r \in Proc, Looping(r)
  PROVE  /\ Peer(r) \in world /\ JobOf[Peer(r)] = ThisCall(r).peer
         /\ Place(JobOf[Peer(r)], world)[Peer(r)] = i[r]
         /\ Map!Rank(Peer(r), world) = PeerRank(r)
         /\ \A q \in world : JobOf[q] = ThisCall(r).peer /\ Place(JobOf[q], world)[q] = i[r]
                                 => q = Peer(r)
<1> DEFINE j == ThisCall(r).peer
           V == Map!Workers(j, world)
<1>1. Running(r) /\ i[r] \in 1..Len(rank_list[j])
  BY LoopIndex
<1>2. j \in Job /\ ListInv /\ world \in SUBSET Proc
  BY <1>1, CallType DEF TypeInv, Shared, ListInv
<1>3. /\ Len(rank_list[j]) = Cardinality(V)
      /\ \A p \in V : rank_list[j][Place(j, world)[p]] = Map!Rank(p, world)
  BY <1>2 DEF ListInv
<1>4. /\ V \in SUBSET world
      /\ \A p, q \in V : Place(j, world)[p] = Place(j, world)[q] => p = q
      /\ \A n \in 1..Cardinality(V) : \E p \in V : Place(j, world)[p] = n
  BY <1>2, Places
<1>5. \A p \in world : p \in V <=> JobOf[p] = j
  BY DEF Map!Workers
<1> HIDE DEF V
<1>6. PICK p \in V : Place(j, world)[p] = i[r]
  BY <1>1, <1>3, <1>4
<1>7. PeerRank(r) = Map!Rank(p, world) /\ p \in world /\ JobOf[p] = j
  BY <1>3, <1>4, <1>5, <1>6 DEF PeerRank
<1>8. Peer(r) = p
  BY <1>2, <1>7, ProcOfRank DEF Peer
<1>9. ASSUME NEW q \in world, JobOf[q] = j, Place(JobOf[q], world)[q] = i[r] PROVE q = p
  <2>1. q \in V /\ Place(j, world)[q] = Place(j, world)[p]
    BY <1>5, <1>6, <1>9
  <2> QED BY <1>4, <1>6, <2>1
<1> QED BY <1>6, <1>7, <1>8, <1>9

\* One iteration of a loop makes the call to, or from, the worker it is at.
LEMMA LoopDone ==
  ASSUME TypeInv, NEW r \in Proc, Looping(r), Advance(r), NEW q \in world,
         NEW A \in SUBSET Nat, at[r] \in A => JobOf[q] = ThisCall(r).peer,
         NEW c, c = Place(JobOf[q], world)[q], NEW D, D = Done(at[r], i[r], c, A)
  PROVE  /\ at[r] \in A /\ q = Peer(r) => /\ NextOf(at[r], D, A)
                                          /\ Done(at'[r], i'[r], c, A) = D \union {at[r]}
         /\ ~(at[r] \in A /\ q = Peer(r)) => Done(at'[r], i'[r], c, A) = D
<1> DEFINE n == Len(rank_list[ThisCall(r).peer])
<1>1. /\ i[r] \in 1..n /\ n \in 1..Cardinality(Proc) /\ Cardinality(Proc) \in Nat
      /\ at \in [Proc -> Nat] /\ i \in [Proc -> Nat]
  BY LoopIndex DEF TypeInv, Local
<1>2. /\ i' = [i EXCEPT ![r] = IF i[r] = n THEN 1 ELSE @ + 1]
      /\ at' = [at EXCEPT ![r] = IF i[r] = n THEN @ + 1 ELSE @]
  BY DEF Advance, LastWorker
<1>3. /\ c \in Nat \ {0}
      /\ at[r] \in A => c <= n
  BY PlaceOf
<1>4. at[r] \in A => (q = Peer(r) <=> c = i[r])
  BY PeerOf
<1> HIDE DEF n
<1>5. /\ i[r] = n => at'[r] = at[r] + 1 /\ i'[r] = 1
      /\ i[r] # n => at'[r] = at[r] /\ i'[r] = i[r] + 1
  BY <1>1, <1>2
<1>6. ASSUME NEW a, NEW l, a = at[r], l = i[r]
      PROVE  /\ a \in Nat /\ l \in Nat \ {0} /\ n \in Nat /\ l <= n
             /\ a \notin A => /\ Done(a + 1, 1, c, A) = Done(a, l, c, A)
                              /\ \A m : Done(a, m, c, A) = Done(a, l, c, A)
             /\ a \in A /\ l <= c => /\ NextOf(a, Done(a, l, c, A), A)
                                     /\ Done(a + 1, 1, c, A) = Done(a, l, c, A) \union {a}
             /\ a \in A /\ l = c => Done(a, l + 1, c, A) = Done(a, l, c, A) \union {a}
             /\ l # c => Done(a, l + 1, c, A) = Done(a, l, c, A)
             /\ c < l => Done(a + 1, 1, c, A) = Done(a, l, c, A)
  <2>1. a \in Nat /\ l \in Nat \ {0} /\ n \in Nat /\ l <= n
    BY <1>1, <1>6
  <2> QED BY ONLY <2>1, <1>3, DoneGrows, A \in SUBSET Nat
<1>7. CASE at[r] \notin A
  BY <1>5, <1>6, <1>7
<1>8. CASE at[r] \in A /\ q = Peer(r)
  BY <1>4, <1>5, <1>6, <1>8
<1>9. CASE at[r] \in A /\ q # Peer(r)
  <2>1. c # i[r] /\ c <= n /\ i[r] \in Nat
    BY <1>1, <1>3, <1>4, <1>9
  <2>2. i[r] = n => c < i[r]
    BY <1>3, <2>1
  <2> QED BY <1>5, <1>6, <1>9, <2>1, <2>2
<1> QED BY <1>7, <1>8, <1>9

\* The sends and the receives between two jobs are numbers of calls.
LEMMA CallSets ==
  ASSUME NEW b \in Job, NEW j \in Job
  PROVE  Sends(b, j) \in SUBSET (Nat \ {0}) /\ Receives(j, b) \in SUBSET (Nat \ {0})
<1>1. Program[b] \in Seq(Call) /\ Program[j] \in Seq(Call)
  BY ProgramType
<1> QED BY <1>1 DEF Sends, Receives

\* Which call a process is at decides what it can send or receive.
LEMMA CallKinds ==
  ASSUME TypeInv, NEW r \in Proc, Running(r), NEW j
  PROVE  /\ at[r] \in Sends(JobOf[r], j) <=> ThisCall(r).call = "send" /\ ThisCall(r).peer = j
         /\ at[r] \in Receives(JobOf[r], j) <=>
               ThisCall(r).call \in {"recv", "wait"} /\ ThisCall(r).peer = j
<1>1. /\ at[r] \in 1..Len(Program[JobOf[r]]) /\ Program[JobOf[r]] \in Seq(Call)
      /\ ThisCall(r) \in Call /\ ThisCall(r) = Program[JobOf[r]][at[r]]
  BY CallType, ProgramType, MapAssumption DEF ThisCall
<1>2. at[r] \in DOMAIN Program[JobOf[r]]
  BY <1>1
<1>3. ThisCall(r) = [call |-> ThisCall(r).call, peer |-> ThisCall(r).peer]
  BY <1>1 DEF Call
<1>4. ThisCall(r) = [call |-> "send", peer |-> j]
        <=> ThisCall(r).call = "send" /\ ThisCall(r).peer = j
  <2>1. ASSUME NEW x, NEW y
        PROVE  [call |-> x, peer |-> y] = [call |-> "send", peer |-> j]
                 <=> x = "send" /\ y = j
    BY ONLY TRUE
  <2> QED BY <1>3, <2>1
<1> QED BY <1>1, <1>2, <1>4 DEF Sends, Receives

\* What a process has sent and received is a beginning of its program.
LEMMA Beginnings ==
  ASSUME TypeInv, NEW q \in world, NEW p \in world
  PROVE  /\ JobOf[q] \in Job /\ JobOf[p] \in Job
         /\ Beginning(SentTo(q, p), Sends(JobOf[q], JobOf[p]))
         /\ Beginning(ReceivedFrom(p, q), Receives(JobOf[p], JobOf[q]))
<1>1. ASSUME NEW r \in Proc, NEW A \in SUBSET Nat, NEW c \in Nat \ {0}
      PROVE  Beginning(Done(at[r], i[r], c, A), A)
  <2>1. at[r] \in Nat /\ i[r] \in Nat \ {0}
    BY DEF TypeInv, Local, Bounded
  <2> QED BY <2>1, DoneGrows
<1>2. /\ p \in Proc /\ JobOf[p] \in Job /\ q \in Proc /\ JobOf[q] \in Job
      /\ Place(JobOf[q], world)[q] \in Nat \ {0} /\ Place(JobOf[p], world)[p] \in Nat \ {0}
  BY PlaceOf
<1>3. Sends(JobOf[q], JobOf[p]) \in SUBSET Nat /\ Receives(JobOf[p], JobOf[q]) \in SUBSET Nat
  BY <1>2, CallSets
<1> QED BY <1>1, <1>2, <1>3 DEF SentTo, ReceivedFrom

\* One iteration of MPI_Send sends to one worker, one of another loop to none.
LEMMA LoopSent ==
  ASSUME TypeInv, NEW r \in Proc, Looping(r), Advance(r), UNCHANGED world, NEW p \in world
  PROVE  /\ Executes(r, "send") /\ p = Peer(r) =>
               /\ NextOf(at[r], SentTo(r, p), Sends(JobOf[r], JobOf[p]))
               /\ SentTo(r, p)' = SentTo(r, p) \union {at[r]}
         /\ ~(Executes(r, "send") /\ p = Peer(r)) => SentTo(r, p)' = SentTo(r, p)
<1>1. /\ Running(r) /\ phase[r] = "run" /\ JobOf[Peer(r)] = ThisCall(r).peer
      /\ JobOf[r] \in Job /\ JobOf[p] \in Job
  BY LoopIndex, PeerOf, PlaceOf, MapAssumption
<1>2. at[r] \in Sends(JobOf[r], JobOf[p])
        <=> ThisCall(r).call = "send" /\ ThisCall(r).peer = JobOf[p]
  BY <1>1, CallKinds
<1>3. Executes(r, "send") <=> ThisCall(r).call = "send"
  BY <1>1 DEF Executes
<1>4. ASSUME NEW c, c = Place(JobOf[p], world)[p], NEW A, A = Sends(JobOf[r], JobOf[p]),
             NEW D, D = Done(at[r], i[r], c, A)
      PROVE  /\ at[r] \in A /\ p = Peer(r) => /\ NextOf(at[r], D, A)
                                              /\ Done(at'[r], i'[r], c, A) = D \union {at[r]}
             /\ ~(at[r] \in A /\ p = Peer(r)) => Done(at'[r], i'[r], c, A) = D
  <2>1. A \in SUBSET Nat /\ (at[r] \in A => JobOf[p] = ThisCall(r).peer)
    BY <1>1, <1>2, <1>4, CallSets
  <2> QED BY <1>4, <2>1, LoopDone
<1>5. SentTo(r, p)' = Done(at'[r], i'[r], Place(JobOf[p], world)[p], Sends(JobOf[r], JobOf[p]))
  BY DEF SentTo, Place
<1>6. SentTo(r, p) = Done(at[r], i[r], Place(JobOf[p], world)[p], Sends(JobOf[r], JobOf[p]))
  BY DEF SentTo
<1> QED BY <1>1, <1>2, <1>3, <1>4, <1>5, <1>6

\* One iteration of MPI_Recv receives from one worker, one of another loop
\* from none.
LEMMA LoopReceived ==
  ASSUME TypeInv, NEW r \in Proc, Looping(r), Advance(r), UNCHANGED world, NEW q \in world
  PROVE  /\ Executes(r, "recv") /\ q = Peer(r) =>
               /\ NextOf(at[r], ReceivedFrom(r, q), Receives(JobOf[r], JobOf[q]))
               /\ ReceivedFrom(r, q)' = ReceivedFrom(r, q) \union {at[r]}
         /\ ~(Executes(r, "recv") /\ q = Peer(r)) => ReceivedFrom(r, q)' = ReceivedFrom(r, q)
<1>1. /\ Running(r) /\ phase[r] = "run" /\ JobOf[Peer(r)] = ThisCall(r).peer
      /\ ThisCall(r).call \in {"send", "recv", "irecv"}
      /\ JobOf[r] \in Job /\ JobOf[q] \in Job
  BY LoopIndex, PeerOf, PlaceOf, MapAssumption
<1>2. at[r] \in Receives(JobOf[r], JobOf[q])
        <=> ThisCall(r).call = "recv" /\ ThisCall(r).peer = JobOf[q]
  BY <1>1, CallKinds
<1>3. Executes(r, "recv") <=> ThisCall(r).call = "recv"
  BY <1>1 DEF Executes
<1>4. ASSUME NEW c, c = Place(JobOf[q], world)[q], NEW A, A = Receives(JobOf[r], JobOf[q]),
             NEW D, D = Done(at[r], i[r], c, A)
      PROVE  /\ at[r] \in A /\ q = Peer(r) => /\ NextOf(at[r], D, A)
                                              /\ Done(at'[r], i'[r], c, A) = D \union {at[r]}
             /\ ~(at[r] \in A /\ q = Peer(r)) => Done(at'[r], i'[r], c, A) = D
  <2>1. A \in SUBSET Nat /\ (at[r] \in A => JobOf[q] = ThisCall(r).peer)
    BY <1>1, <1>2, <1>4, CallSets
  <2> QED BY <1>4, <2>1, LoopDone
<1>5. ReceivedFrom(r, q)' =
        Done(at'[r], i'[r], Place(JobOf[q], world)[q], Receives(JobOf[r], JobOf[q]))
  BY DEF ReceivedFrom, Place
<1>6. ReceivedFrom(r, q) =
        Done(at[r], i[r], Place(JobOf[q], world)[q], Receives(JobOf[r], JobOf[q]))
  BY DEF ReceivedFrom
<1> QED BY <1>1, <1>2, <1>3, <1>4, <1>5, <1>6

\* A process that stays where it is sends and receives nothing.
LEMMA StaysDone ==
  ASSUME UNCHANGED world, NEW r, at'[r] = at[r], i'[r] = i[r], NEW q
  PROVE  SentTo(r, q)' = SentTo(r, q) /\ ReceivedFrom(r, q)' = ReceivedFrom(r, q)
BY DEF SentTo, ReceivedFrom, Place

\* A channel on which nothing happens.
LEMMA ChannelStays ==
  ASSUME NEW q, NEW p, Channel(q, p),
         Messages(q, p, epoch)' = Messages(q, p, epoch), Holes(q, p, epoch)' = Holes(q, p, epoch),
         SentTo(q, p)' = SentTo(q, p), ReceivedFrom(p, q)' = ReceivedFrom(p, q)
  PROVE  Channel(q, p)'
BY DEF Channel

\* What ChannelInv gives for a channel that a step leaves to a live process.
LEMMA ChannelBefore ==
  ASSUME ChannelInv, NEW r \in Proc, Step(r) \/ Crash(r)
  PROVE  /\ TypeInv /\ IgnoreInv /\ NetType /\ RequestInv /\ Channels
         /\ Live \in SUBSET world /\ Live \in SUBSET Proc /\ Live' \in SUBSET Live
         /\ UNCHANGED mapVars /\ world' = world /\ epoch' = epoch
         /\ world \in SUBSET Proc /\ r \in Live /\ RequestFits(r)
         /\ \A q \in Proc \ {r} : at'[q] = at[q] /\ i'[q] = i[q]
         /\ \A p \in Live', q \in world :
               Map!Rank(q, world) \notin ignore'[p] =>
                   /\ Map!Rank(q, world) \notin ignore[p]
                   /\ p \in world /\ p \in Live /\ Channel(q, p)
<1>1. RequestInv /\ NetType /\ Channels
  BY DEF ChannelInv
<1>2. TypeInv /\ IgnoreInv /\ Live \in SUBSET world
  BY <1>1 DEF RequestInv
<1>3. dead \in SUBSET Proc /\ world \in SUBSET Proc
  BY <1>2 DEF IgnoreInv
<1>4. [Next]_vars
  BY DEF Next
<1>5. dead \in SUBSET dead'
  BY <1>3, <1>4, StepShape
<1>6. Live \in SUBSET Proc /\ Live' \in SUBSET Live
  BY <1>5 DEF Live
<1>7. UNCHANGED mapVars /\ r \in Live /\ \A q \in Proc \ {r} : at'[q] = at[q] /\ i'[q] = i[q]
  BY <1>2, OthersStay
<1>8. world' = world /\ epoch' = epoch
  BY <1>7 DEF mapVars
<1>9. RequestFits(r)
  BY <1>1, <1>7 DEF RequestInv
<1>10. \A p \in Proc : ignore[p] \in SUBSET ignore'[p]
  BY <1>2, IgnoreGrows
<1>11. ASSUME NEW p \in Live', NEW q \in world, Map!Rank(q, world) \notin ignore'[p]
       PROVE  /\ Map!Rank(q, world) \notin ignore[p]
              /\ p \in world /\ p \in Live /\ Channel(q, p)
  BY <1>1, <1>2, <1>6, <1>10, <1>11 DEF Channels
<1> QED BY <1>1, <1>2, <1>3, <1>6, <1>7, <1>8, <1>9, <1>11

\* The rank of an ignored worker is that of a dead process.
LEMMA IgnoredDead ==
  ASSUME IgnoreInv, NEW p \in Live, NEW q \in world, Map!Rank(q, world) \in ignore[p]
  PROVE  q \in dead
<1>1. world \in SUBSET Proc
  BY DEF IgnoreInv
<1>2. Map!Rank(q, world) < Cardinality(world) /\ ProcOf(Map!Rank(q, world)) = q
  BY <1>1, Ranks, ProcOfRank
<1> QED BY <1>2 DEF IgnoreInv, IgnoredAwaitShrink

\* An ignored worker is passed over: to it nothing has to be sent, and from it
\* nothing is expected.
LEMMA SkipChannels ==
  ASSUME ChannelInv, NEW r \in Proc, SkipIgnored(r)
  PROVE  Channels'
<1>1. Step(r)
  BY DEF Step
<1>2. /\ TypeInv /\ IgnoreInv /\ Live' \in SUBSET Live /\ Live \in SUBSET Proc
      /\ world' = world /\ epoch' = epoch /\ r \in Live /\ r \in world
      /\ \A q \in Proc \ {r} : at'[q] = at[q] /\ i'[q] = i[q]
      /\ \A p \in Live', q \in world :
            Map!Rank(q, world) \notin ignore'[p] =>
                /\ Map!Rank(q, world) \notin ignore[p]
                /\ p \in world /\ p \in Live /\ Channel(q, p)
      /\ world \in SUBSET Proc
  BY <1>1, ChannelBefore
<1>3. /\ Looping(r) /\ Ignored(r) /\ Advance(r) /\ UNCHANGED <<net, orphans>>
  BY DEF SkipIgnored
<1>4. Peer(r) \in dead /\ Map!Rank(Peer(r), world) \in ignore[r]
  <2>1. Peer(r) \in world /\ Map!Rank(Peer(r), world) \in ignore[r]
    BY <1>2, <1>3, PeerOf DEF Ignored
  <2> QED BY <1>2, <2>1, IgnoredDead
<1>5. ASSUME NEW p \in Live', NEW q \in world, Map!Rank(q, world) \notin ignore'[p]
      PROVE  Channel(q, p)'
  <2>1. /\ p \in world /\ p \in Live /\ p \in Proc /\ q \in Proc
        /\ Channel(q, p) /\ Map!Rank(q, world) \notin ignore[p]
    BY <1>2, <1>5
  <2>2. SentTo(q, p)' = SentTo(q, p)
    <3>1. CASE q = r
      <4>1. p # Peer(r)
        BY <1>4, <2>1 DEF Live
      <4> QED BY <1>2, <1>3, <2>1, <3>1, <4>1, LoopSent
    <3>2. CASE q # r
      BY <1>2, <2>1, <3>2, StaysDone
    <3> QED BY <3>1, <3>2
  <2>3. ReceivedFrom(p, q)' = ReceivedFrom(p, q)
    <3>1. CASE p = r
      <4>1. q # Peer(r)
        BY <1>4, <2>1, <3>1
      <4> QED BY <1>2, <1>3, <2>1, <3>1, <4>1, LoopReceived
    <3>2. CASE p # r
      BY <1>2, <2>1, <3>2, StaysDone
    <3> QED BY <3>1, <3>2
  <2>4. /\ Messages(q, p, epoch)' = Messages(q, p, epoch)
        /\ Holes(q, p, epoch)' = Holes(q, p, epoch)
    BY <1>2, <1>3 DEF Messages, Holes
  <2> QED BY <2>1, <2>2, <2>3, <2>4, ChannelStays
<1> QED BY <1>2, <1>5 DEF Channels

\* A step that sends, receives and posts nothing.
LEMMA QuietChannels ==
  ASSUME ChannelInv, NEW r \in Proc, MPI_Irecv(r) \/ MPI_Comm_agree(r) \/ Crash(r)
  PROVE  Channels'
<1>1. Step(r) \/ Crash(r)
  BY DEF Step
<1>2. /\ TypeInv /\ Live' \in SUBSET Live /\ Live \in SUBSET Proc
      /\ world' = world /\ epoch' = epoch /\ r \in Live /\ r \in world
      /\ \A q \in Proc \ {r} : at'[q] = at[q] /\ i'[q] = i[q]
      /\ \A p \in Live', q \in world :
            Map!Rank(q, world) \notin ignore'[p] =>
                /\ Map!Rank(q, world) \notin ignore[p]
                /\ p \in world /\ p \in Live /\ Channel(q, p)
      /\ world \in SUBSET Proc
  BY <1>1, ChannelBefore
<1>3. /\ UNCHANGED <<net, orphans>>
      /\ \/ Executes(r, "irecv") /\ Advance(r)
         \/ UNCHANGED <<at, i>>
  BY DEF MPI_Irecv, MPI_Comm_agree, Crash, recvVars
<1>4. ASSUME NEW q \in world
      PROVE  SentTo(r, q)' = SentTo(r, q) /\ ReceivedFrom(r, q)' = ReceivedFrom(r, q)
  <2>1. CASE UNCHANGED <<at, i>>
    BY <1>2, <2>1, StaysDone
  <2>2. CASE Executes(r, "irecv") /\ Advance(r)
    <3>1. Looping(r) /\ ~Executes(r, "send") /\ ~Executes(r, "recv")
      BY <2>2 DEF Looping, Executes
    <3> QED BY <1>2, <2>2, <3>1, LoopSent, LoopReceived
  <2> QED BY <1>3, <2>1, <2>2
<1>5. ASSUME NEW p \in Live', NEW q \in world, Map!Rank(q, world) \notin ignore'[p]
      PROVE  Channel(q, p)'
  <2>1. p \in world /\ p \in Live /\ p \in Proc /\ q \in Proc /\ Channel(q, p)
    BY <1>2, <1>5
  <2>2. SentTo(q, p)' = SentTo(q, p) /\ ReceivedFrom(p, q)' = ReceivedFrom(p, q)
    BY <1>2, <1>4, <2>1, StaysDone
  <2>3. /\ Messages(q, p, epoch)' = Messages(q, p, epoch)
        /\ Holes(q, p, epoch)' = Holes(q, p, epoch)
    BY <1>2, <1>3 DEF Messages, Holes
  <2> QED BY <2>1, <2>2, <2>3, ChannelStays
<1> QED BY <1>2, <1>5 DEF Channels

\* A message is sent to the worker the loop is at; only a dead one does not
\* get it.
LEMMA SendChannels ==
  ASSUME MessagesBetweenCollectives, ChannelInv, NEW r \in Proc, MPI_Send(r)
  PROVE  Channels'
<1> SUFFICES ASSUME NEW d, d = Peer(r) PROVE Channels'
  OBVIOUS
<1> DEFINE H == Holes(r, d, epoch)
           m == [from |-> r, to |-> d, epoch |-> epoch, data |-> at[r]]
<1>1. Step(r)
  BY DEF Step
<1>2. /\ TypeInv /\ NetType /\ Live' \in SUBSET Live /\ Live \in SUBSET Proc
      /\ world' = world /\ epoch' = epoch /\ r \in Live /\ r \in world
      /\ \A q \in Proc \ {r} : at'[q] = at[q] /\ i'[q] = i[q]
      /\ \A p \in Live', q \in world :
            Map!Rank(q, world) \notin ignore'[p] =>
                /\ Map!Rank(q, world) \notin ignore[p]
                /\ p \in world /\ p \in Live /\ Channel(q, p)
      /\ world \in SUBSET Proc
  BY <1>1, ChannelBefore
<1>3. /\ Executes(r, "send") /\ Advance(r)
      /\ \/ H # {} /\ orphans' = orphans \ {FirstPosted(H)} /\ net' = net
         \/ H = {} /\ orphans' = orphans /\ net' = net \union {m}
         \/ d \in dead /\ UNCHANGED <<net, orphans>>
  BY DEF MPI_Send
<1>4. Looping(r) /\ ~Executes(r, "recv")
  BY <1>3 DEF Looping, Executes
<1>5. d \in world
  BY <1>2, <1>4, PeerOf
<1>6. \A h \in H : h.from = r /\ h.to = d
  BY DEF Holes
<1>7. m.from = r /\ m.to = d /\ m.epoch = epoch /\ m.data = at[r]
  OBVIOUS
<1>8. H # {} => FirstPosted(H) \in H
  <2> SUFFICES ASSUME H # {} PROVE FirstPosted(H) \in H
    OBVIOUS
  <2>1. \A h \in H : h.call \in Nat
    BY <1>2, Distinct
  <2> DEFINE N == {h.call : h \in H}
  <2>2. N \in SUBSET Nat /\ N # {}
    BY <2>1
  <2>3. PICK x \in N : \A y \in N : x <= y
    <3> HIDE DEF N
    <3> QED BY <2>2, LeastNumber
  <2>4. \E h \in H : \A g \in H : h.call <= g.call
    BY <2>3
  <2> HIDE DEF H
  <2> QED BY <2>4 DEF FirstPosted
<1> HIDE DEF m, H
<1>9. ASSUME NEW p \in Live', NEW q \in world, Map!Rank(q, world) \notin ignore'[p]
      PROVE  Channel(q, p)'
  <2>1. p \in world /\ p \in Live /\ p \in Proc /\ q \in Proc /\ Channel(q, p)
    BY <1>2, <1>9
  <2>2. ReceivedFrom(p, q)' = ReceivedFrom(p, q)
    <3>1. CASE p = r
      BY <1>2, <1>3, <1>4, <2>1, <3>1, LoopReceived
    <3>2. CASE p # r
      BY <1>2, <2>1, <3>2, StaysDone
    <3> QED BY <3>1, <3>2
  <2>3. CASE ~(q = r /\ p = d)
    <3>1. SentTo(q, p)' = SentTo(q, p)
      <4>1. CASE q = r
        BY <1>2, <1>3, <1>4, <2>1, <2>3, <4>1, LoopSent
      <4>2. CASE q # r
        BY <1>2, <2>1, <4>2, StaysDone
      <4> QED BY <4>1, <4>2
    <3>2. Messages(q, p, epoch)' = Messages(q, p, epoch)
      BY <1>2, <1>3, <1>7, <2>3 DEF Messages
    <3>3. Holes(q, p, epoch)' = Holes(q, p, epoch)
      BY <1>2, <1>3, <1>6, <1>8, <2>3 DEF Holes
    <3> QED BY <2>1, <2>2, <3>1, <3>2, <3>3, ChannelStays
  <2>4. CASE q = r /\ p = d
    <3> DEFINE M == Messages(r, d, epoch)
               X == SentTo(r, d)
               Y == ReceivedFrom(d, r)
               b == JobOf[r]
               j == JobOf[d]
    <3>1. /\ NextOf(at[r], X, Sends(b, j))
          /\ SentTo(r, d)' = X \union {at[r]}
      BY <1>2, <1>3, <1>4, <1>5, LoopSent
    <3>2. /\ b \in Job /\ j \in Job
          /\ Beginning(X, Sends(b, j)) /\ Beginning(Y, Receives(j, b))
      BY <1>2, <1>5, Beginnings
    <3>3. Balance(M, H, b, j, X, Y)
      BY <2>1, <2>4 DEF Channel, H
    <3>4. (\A h \in H : h.call \in Nat) /\ \A h, g \in H : h.call = g.call => h = g
      BY <1>2, Distinct DEF H
    <3>5. d \notin dead
      BY <2>1, <2>4 DEF Live
    <3>6. ReceivedFrom(d, r)' = Y
      BY <2>2, <2>4
    <3>7. \/ H # {} /\ Messages(r, d, epoch)' = M /\ Holes(r, d, epoch)' = H \ {FirstPosted(H)}
          \/ H = {} /\ Messages(r, d, epoch)' = M \union {m} /\ Holes(r, d, epoch)' = H
      <4>1. CASE H # {} /\ orphans' = orphans \ {FirstPosted(H)} /\ net' = net
        <5>1. Messages(r, d, epoch)' = M
          BY <1>2, <4>1 DEF Messages
        <5>2. Holes(r, d, epoch)' = H \ {FirstPosted(H)}
          BY <1>2, <4>1 DEF Holes, H
        <5> QED BY <4>1, <5>1, <5>2
      <4>2. CASE H = {} /\ orphans' = orphans /\ net' = net \union {m}
        <5>1. Messages(r, d, epoch)' = M \union {m}
          BY <1>2, <1>7, <4>2 DEF Messages
        <5>2. Holes(r, d, epoch)' = H
          BY <1>2, <4>2 DEF Holes, H
        <5> QED BY <4>2, <5>1, <5>2
      <4> QED BY <1>3, <3>5, <4>1, <4>2
    <3> HIDE DEF M, X, Y, b, j
    <3>8. /\ H # {} => Balance(M, H \ {FirstPosted(H)}, b, j, X \union {at[r]}, Y)
          /\ H = {} => Balance(M \union {m}, H, b, j, X \union {at[r]}, Y)
      BY <1>7, <3>1, <3>2, <3>3, <3>4, SendsRight
    <3>9. Balance(Messages(r, d, epoch)', Holes(r, d, epoch)', b, j,
                  SentTo(r, d)', ReceivedFrom(d, r)')
      BY <3>1, <3>6, <3>7, <3>8
    <3> QED BY <2>4, <3>9 DEF Channel, b, j
  <2> QED BY <2>3, <2>4
<1> QED BY <1>2, <1>9 DEF Channels

\* A message that MPI_Recv finds is the one it is for.
LEMMA RecvTakes ==
  ASSUME MessagesBetweenCollectives, ChannelInv, NEW r \in Proc, MPI_Recv(r),
         NEW q, q = Peer(r), NEW M, M = Messages(q, r, epoch), M # {}
  PROVE  /\ Oldest(M) \in M /\ Oldest(M).data = Expected(JobOf[r], at[r])
         /\ Balance(M \ {Oldest(M)}, Holes(q, r, epoch), JobOf[q], JobOf[r],
                    SentTo(q, r), ReceivedFrom(r, q) \union {at[r]})
<1>1. Step(r) \/ Crash(r)
  BY DEF Step
<1>2. /\ TypeInv /\ NetType /\ Channels /\ world' = world /\ r \in Live /\ r \in world
  BY <1>1, ChannelBefore
<1>3. Executes(r, "recv") /\ Advance(r) /\ ~Ignored(r)
  BY DEF MPI_Recv
<1>4. Looping(r)
  BY <1>3 DEF Looping
<1>5. q \in world /\ Map!Rank(q, world) \notin ignore[r]
  BY <1>2, <1>3, <1>4, PeerOf DEF Ignored
<1>6. Channel(q, r)
  BY <1>2, <1>5 DEF Channels
<1>7. Balance(M, Holes(q, r, epoch), JobOf[q], JobOf[r], SentTo(q, r), ReceivedFrom(r, q))
  BY <1>6 DEF Channel
<1>8. /\ JobOf[q] \in Job /\ JobOf[r] \in Job
      /\ Beginning(SentTo(q, r), Sends(JobOf[q], JobOf[r]))
      /\ Beginning(ReceivedFrom(r, q), Receives(JobOf[r], JobOf[q]))
  BY <1>2, <1>5, Beginnings
<1>9. NextOf(at[r], ReceivedFrom(r, q), Receives(JobOf[r], JobOf[q]))
  BY <1>2, <1>3, <1>4, <1>5, LoopReceived
<1>10. (\A m \in M : m.data \in Nat) /\ \A m, n \in M : m.data = n.data => m = n
  BY <1>2, Distinct
<1>11. M # {} /\ MessagesBetweenCollectives
  OBVIOUS
<1> QED BY ONLY <1>7, <1>8, <1>9, <1>10, <1>11, TakesRight

\* A receive takes its message from the worker the loop is at, or the worker
\* has failed and is ignored from then on.
LEMMA RecvChannels ==
  ASSUME MessagesBetweenCollectives, ChannelInv, NEW r \in Proc, MPI_Recv(r)
  PROVE  Channels'
<1> SUFFICES ASSUME NEW d, d = Peer(r) PROVE Channels'
  OBVIOUS
<1> DEFINE M == Messages(d, r, epoch)
<1>1. Step(r)
  BY DEF Step
<1>2. /\ TypeInv /\ NetType /\ Live' \in SUBSET Live /\ Live \in SUBSET Proc
      /\ world' = world /\ epoch' = epoch /\ r \in Live /\ r \in world
      /\ \A q \in Proc \ {r} : at'[q] = at[q] /\ i'[q] = i[q]
      /\ \A p \in Live', q \in world :
            Map!Rank(q, world) \notin ignore'[p] =>
                /\ Map!Rank(q, world) \notin ignore[p]
                /\ p \in world /\ p \in Live /\ Channel(q, p)
      /\ world \in SUBSET Proc
  BY <1>1, ChannelBefore
<1>3. /\ Executes(r, "recv") /\ Advance(r) /\ UNCHANGED orphans
      /\ \/ M # {} /\ net' = net \ {Oldest(M)}
         \/ Notice(r, {d}) /\ UNCHANGED net
  BY DEF MPI_Recv
<1>4. Looping(r) /\ ~Executes(r, "send")
  BY <1>3 DEF Looping, Executes
<1>5. d \in world /\ ignore \in [Proc -> SUBSET AnyRank]
  BY <1>2, <1>4, PeerOf DEF TypeInv, Shared
<1>6. Notice(r, {d}) => Map!Rank(d, world) \in ignore'[r]
  BY <1>5 DEF Notice
<1>7. M # {} => Oldest(M) \in M
  BY RecvTakes
<1>8. \A m \in M : m.from = d /\ m.to = r /\ m.epoch = epoch
  BY DEF Messages
<1> HIDE DEF M
<1>9. ASSUME NEW p \in Live', NEW q \in world, Map!Rank(q, world) \notin ignore'[p]
      PROVE  Channel(q, p)'
  <2>1. p \in world /\ p \in Live /\ p \in Proc /\ q \in Proc /\ Channel(q, p)
    BY <1>2, <1>9
  <2>2. SentTo(q, p)' = SentTo(q, p)
    <3>1. CASE q = r
      BY <1>2, <1>3, <1>4, <2>1, <3>1, LoopSent
    <3>2. CASE q # r
      BY <1>2, <2>1, <3>2, StaysDone
    <3> QED BY <3>1, <3>2
  <2>3. Holes(q, p, epoch)' = Holes(q, p, epoch)
    BY <1>2, <1>3 DEF Holes
  <2>4. CASE ~(q = d /\ p = r)
    <3>1. ReceivedFrom(p, q)' = ReceivedFrom(p, q)
      <4>1. CASE p = r
        BY <1>2, <1>3, <1>4, <2>1, <2>4, <4>1, LoopReceived
      <4>2. CASE p # r
        BY <1>2, <2>1, <4>2, StaysDone
      <4> QED BY <4>1, <4>2
    <3>2. Messages(q, p, epoch)' = Messages(q, p, epoch)
      BY <1>2, <1>3, <1>7, <1>8, <2>4 DEF Messages
    <3> QED BY <2>1, <2>2, <2>3, <3>1, <3>2, ChannelStays
  <2>5. CASE q = d /\ p = r
    <3>1. M # {} /\ net' = net \ {Oldest(M)}
      BY <1>3, <1>6, <1>9, <2>5
    <3>2. Balance(M \ {Oldest(M)}, Holes(d, r, epoch), JobOf[d], JobOf[r],
                  SentTo(d, r), ReceivedFrom(r, d) \union {at[r]})
      BY <3>1, RecvTakes DEF M
    <3>3. ReceivedFrom(r, d)' = ReceivedFrom(r, d) \union {at[r]}
      BY <1>2, <1>3, <1>4, <1>5, LoopReceived
    <3>4. Messages(d, r, epoch)' = M \ {Oldest(M)}
      BY <1>2, <3>1 DEF Messages, M
    <3>5. Balance(Messages(d, r, epoch)', Holes(d, r, epoch)', JobOf[d], JobOf[r],
                  SentTo(d, r)', ReceivedFrom(r, d)')
      BY <2>2, <2>3, <2>5, <3>2, <3>3, <3>4
    <3> QED BY <2>5, <3>5 DEF Channel
  <2> QED BY <2>4, <2>5
<1> QED BY <1>2, <1>9 DEF Channels

\* A return from MPI_Wait makes the receive from all workers of the peer.
LEMMA WaitDone ==
  ASSUME TypeInv, NEW r \in Proc, Executes(r, "wait"), UNCHANGED world, NEW q \in world
  PROVE  /\ i[r] = 1
         /\ JobOf[q] = ThisCall(r).peer =>
               NextOf(at[r], ReceivedFrom(r, q), Receives(JobOf[r], JobOf[q]))
         /\ at'[r] = at[r] + 1 /\ i'[r] = i[r] =>
               /\ SentTo(r, q)' = SentTo(r, q)
               /\ JobOf[q] = ThisCall(r).peer =>
                     ReceivedFrom(r, q)' = ReceivedFrom(r, q) \union {at[r]}
               /\ JobOf[q] # ThisCall(r).peer => ReceivedFrom(r, q)' = ReceivedFrom(r, q)
<1> DEFINE e == Place(JobOf[q], world)[q]
           S == Sends(JobOf[r], JobOf[q])
           R == Receives(JobOf[r], JobOf[q])
<1>1. Running(r) /\ ThisCall(r).call = "wait" /\ r \in Live
  BY DEF Executes, Running
<1>2. at[r] \notin S /\ (at[r] \in R <=> JobOf[q] = ThisCall(r).peer)
  BY <1>1, CallKinds
<1>3. S \in SUBSET Nat /\ R \in SUBSET Nat /\ e \in Nat \ {0}
  BY PlaceOf, CallSets, MapAssumption
<1>4. at[r] \in Nat /\ i[r] = 1
  BY <1>1 DEF TypeInv, Local, InLoop
<1>5. /\ SentTo(r, q) = Done(at[r], 1, e, S) /\ ReceivedFrom(r, q) = Done(at[r], 1, e, R)
      /\ at'[r] = at[r] + 1 /\ i'[r] = i[r] =>
            /\ SentTo(r, q)' = Done(at[r] + 1, 1, e, S)
            /\ ReceivedFrom(r, q)' = Done(at[r] + 1, 1, e, R)
  BY <1>4 DEF SentTo, ReceivedFrom, Place
<1> HIDE DEF e, S, R
<1>7. ASSUME NEW a \in Nat, NEW A \in SUBSET Nat
      PROVE  /\ a \notin A => Done(a + 1, 1, e, A) = Done(a, 1, e, A)
             /\ a \in A => /\ NextOf(a, Done(a, 1, e, A), A)
                           /\ Done(a + 1, 1, e, A) = Done(a, 1, e, A) \union {a}
  <2>1. ~(e < 1) /\ \A x \in A : (x < a + 1 <=> (x < a \/ x = a)) /\ (x < a => x # a)
    BY <1>3
  <2>2. Done(a, 1, e, A) = {x \in A : x < a} /\ Done(a + 1, 1, e, A) = {x \in A : x < a + 1}
    BY <2>1 DEF Done
  <2>3. a \notin {x \in A : x < a}
    BY <2>1
  <2> QED BY <2>1, <2>2, <2>3 DEF NextOf
<1>8. /\ Done(at[r] + 1, 1, e, S) = Done(at[r], 1, e, S)
      /\ at[r] \in R => /\ NextOf(at[r], Done(at[r], 1, e, R), R)
                        /\ Done(at[r] + 1, 1, e, R) = Done(at[r], 1, e, R) \union {at[r]}
      /\ at[r] \notin R => Done(at[r] + 1, 1, e, R) = Done(at[r], 1, e, R)
  BY ONLY <1>2, <1>3, <1>4, <1>7
<1> QED BY <1>2, <1>4, <1>5, <1>8 DEF R

\* In MPI_Wait: an open receive is from a worker of the peer, and every worker
\* that is not ignored has one.
LEMMA WaitSources ==
  ASSUME WaitsBetweenCollectives, ChannelInv, NEW r \in Live, Executes(r, "wait")
  PROVE  /\ req[r].open \in SUBSET Nat
         /\ req[r].open # {} => req[r].epoch = epoch
         /\ \A k \in req[r].open :
               /\ Source(r, k).proc \in world /\ JobOf[Source(r, k).proc] = ThisCall(r).peer
               /\ Source(r, k).rank = Map!Rank(Source(r, k).proc, world)
               /\ Place(ThisCall(r).peer, world)[Source(r, k).proc] = k
         /\ \A q \in world :
               JobOf[q] = ThisCall(r).peer /\ Map!Rank(q, world) \notin ignore[r] =>
                   \E k \in req[r].open : Source(r, k).proc = q
<1> DEFINE b == ThisCall(r).peer
           n == Len(rank_list[b])
<1>1. /\ TypeInv /\ RequestFits(r) /\ r \in Proc
  BY DEF ChannelInv, RequestInv, Live
<1>2. ListInv
  BY <1>1 DEF TypeInv, Shared
<1>3. b \in Job /\ Serves(r, b, n)
  BY <1>1, AtWait
<1>4. n \in Nat
  BY <1>2, <1>3, LineRanks
<1> HIDE DEF n, b
<1>5. /\ Len(req[r].source) = n
      /\ \A m \in 1..n : m \notin req[r].open => rank_list[b][m] \in ignore[r]
      /\ \A m \in 1..n : req[r].source[m].proc = ProcOf(rank_list[b][m])
      /\ req[r].open # {} => req[r].epoch = epoch
  BY <1>3 DEF Serves
<1>6. req[r].open \in SUBSET (1..n)
  BY <1>1, <1>5, RequestParts
<1>7. ASSUME NEW k \in req[r].open
      PROVE  /\ Source(r, k).proc \in world /\ JobOf[Source(r, k).proc] = b
             /\ Source(r, k).rank = Map!Rank(Source(r, k).proc, world)
             /\ Place(b, world)[Source(r, k).proc] = k
  <2>1. k \in 1..n /\ n \in 0..Len(rank_list[b])
    BY <1>4, <1>6 DEF n
  <2>2. /\ Source(r, k).proc \in Map!Workers(b, world) /\ Source(r, k).proc \in world
        /\ Source(r, k).rank = Map!Rank(Source(r, k).proc, world)
        /\ Place(b, world)[Source(r, k).proc] = k
    BY <1>2, <1>3, <2>1, ServedWorker DEF Source
  <2> QED BY <2>2 DEF Map!Workers
<1>8. ASSUME NEW q \in world, JobOf[q] = b, Map!Rank(q, world) \notin ignore[r]
      PROVE  \E k \in req[r].open : Source(r, k).proc = q
  <2>1. ASSUME NEW c, c = Place(JobOf[q], world)[q]
        PROVE  c \in 1..n /\ rank_list[b][c] = Map!Rank(q, world) /\ ProcOf(rank_list[b][c]) = q
    BY <1>1, <1>4, <1>8, <2>1, PlaceOf DEF n
  <2> QED BY <1>5, <1>8, <2>1 DEF Source
<1> QED BY <1>4, <1>5, <1>6, <1>7, <1>8 DEF b

\* There is an oldest message.
LEMMA OldestIn ==
  ASSUME NEW M, M # {}, \A m \in M : m.data \in Nat
  PROVE  Oldest(M) \in M
<1> DEFINE N == {m.data : m \in M}
<1>1. N \in SUBSET Nat /\ N # {}
  OBVIOUS
<1>2. PICK x \in N : \A y \in N : x <= y
  <2> HIDE DEF N
  <2> QED BY <1>1, LeastNumber
<1>3. \E m \in M : \A n \in M : m.data <= n.data
  BY <1>2
<1> QED BY <1>3 DEF Oldest

\* What MPI_Wait removes from the network: the oldest message of each of the
\* receives G.
LEMMA WaitRemoves ==
  ASSUME WaitsBetweenCollectives, ChannelInv, NEW r \in Live, Executes(r, "wait"),
         epoch' = epoch, NEW G \in SUBSET Arrived(r),
         net' = net \ {Oldest(Inbox(r, k)) : k \in G}, NEW q, NEW p
  PROVE  /\ ~(p = r /\ \E k \in G : Source(r, k).proc = q) =>
               Messages(q, p, epoch)' = Messages(q, p, epoch)
         /\ \A k \in G : Source(r, k).proc = q =>
               Messages(q, r, epoch)' = Messages(q, r, epoch) \ {Oldest(Messages(q, r, epoch))}
<1> DEFINE T == {Oldest(Inbox(r, k)) : k \in G}
<1>1. NetType
  BY DEF ChannelInv
<1>2. /\ req[r].open # {} => req[r].epoch = epoch
      /\ \A k \in req[r].open : Place(ThisCall(r).peer, world)[Source(r, k).proc] = k
  BY WaitSources
<1>3. \A k \in G : k \in req[r].open /\ Inbox(r, k) # {}
  BY DEF Arrived
<1>4. \A k \in G : Inbox(r, k) = Messages(Source(r, k).proc, r, epoch)
  BY <1>2, <1>3 DEF Inbox
<1>5. ASSUME NEW k \in G PROVE Oldest(Inbox(r, k)) \in Messages(Source(r, k).proc, r, epoch)
  <2>1. \A m \in Messages(Source(r, k).proc, r, epoch) : m.data \in Nat
    BY <1>1, Distinct
  <2> QED BY <1>3, <1>4, <2>1, OldestIn
<1>6. \A k \in G : /\ Oldest(Inbox(r, k)).from = Source(r, k).proc
                   /\ Oldest(Inbox(r, k)).to = r
  BY <1>5 DEF Messages
<1>7. Messages(q, p, epoch)' = Messages(q, p, epoch) \ T
      /\ Messages(q, r, epoch)' = Messages(q, r, epoch) \ T
  BY DEF Messages
<1>8. ASSUME ~(p = r /\ \E k \in G : Source(r, k).proc = q)
      PROVE  Messages(q, p, epoch)' = Messages(q, p, epoch)
  <2>1. \A m \in Messages(q, p, epoch) : m.from = q /\ m.to = p
    BY DEF Messages
  <2>2. \A m \in Messages(q, p, epoch) : m \notin T
    BY <1>6, <1>8, <2>1
  <2> QED BY <1>7, <2>2
<1>9. ASSUME NEW k \in G, Source(r, k).proc = q
      PROVE  Messages(q, r, epoch)' = Messages(q, r, epoch) \ {Oldest(Messages(q, r, epoch))}
  <2>1. Oldest(Inbox(r, k)) = Oldest(Messages(q, r, epoch))
    BY <1>4, <1>9
  <2>2. \A l \in G : Source(r, l).proc = q => l = k
    BY <1>2, <1>3, <1>9
  <2>3. \A m \in Messages(q, r, epoch) : m.from = q
    BY DEF Messages
  <2>4. \A m \in Messages(q, r, epoch) : m \in T <=> m = Oldest(Inbox(r, k))
    BY <1>6, <2>2, <2>3
  <2> QED BY <1>7, <2>1, <2>4
<1> QED BY <1>8, <1>9

\* A message that MPI_Wait finds is the one it is for.
LEMMA WaitTakes ==
  ASSUME WaitsBetweenCollectives, MessagesBetweenCollectives, ChannelInv,
         NEW r \in Live, Executes(r, "wait"), world' = world,
         NEW k \in req[r].open, NEW q, q = Source(r, k).proc,
         Map!Rank(q, world) \notin ignore[r],
         NEW M, M = Messages(q, r, epoch), M # {}
  PROVE  /\ Oldest(M) \in M /\ Oldest(M).data = Expected(JobOf[r], at[r])
         /\ Inbox(r, k) = M
         /\ Balance(M \ {Oldest(M)}, Holes(q, r, epoch), JobOf[q], JobOf[r],
                    SentTo(q, r), ReceivedFrom(r, q) \union {at[r]})
<1>1. /\ TypeInv /\ NetType /\ Channels /\ r \in world /\ r \in Proc
  BY DEF ChannelInv, RequestInv, Live
<1>2. q \in world /\ JobOf[q] = ThisCall(r).peer /\ req[r].epoch = epoch
  BY WaitSources
<1>3. Inbox(r, k) = M
  BY <1>2 DEF Inbox
<1>4. Channel(q, r)
  BY <1>1, <1>2 DEF Channels
<1>5. Balance(M, Holes(q, r, epoch), JobOf[q], JobOf[r], SentTo(q, r), ReceivedFrom(r, q))
  BY <1>4 DEF Channel
<1>6. /\ JobOf[q] \in Job /\ JobOf[r] \in Job
      /\ Beginning(SentTo(q, r), Sends(JobOf[q], JobOf[r]))
      /\ Beginning(ReceivedFrom(r, q), Receives(JobOf[r], JobOf[q]))
  BY <1>1, <1>2, Beginnings
<1>7. NextOf(at[r], ReceivedFrom(r, q), Receives(JobOf[r], JobOf[q]))
  BY <1>1, <1>2, WaitDone
<1>8. (\A m \in M : m.data \in Nat) /\ \A m, n \in M : m.data = n.data => m = n
  BY <1>1, Distinct
<1>9. M # {} /\ MessagesBetweenCollectives
  OBVIOUS
<1>10. /\ Oldest(M) \in M /\ Oldest(M).data = Expected(JobOf[r], at[r])
       /\ Balance(M \ {Oldest(M)}, Holes(q, r, epoch), JobOf[q], JobOf[r],
                  SentTo(q, r), ReceivedFrom(r, q) \union {at[r]})
  BY ONLY <1>5, <1>6, <1>7, <1>8, <1>9, TakesRight
<1> QED BY <1>3, <1>10

\* What a return of PMPI_Waitall leads to, in parts: giving up, another
\* attempt, or a return with the receive k, when the receives late are taken
\* too and the receives posted are orphaned.
WaitRetries(r, done, failed) ==
    /\ Chosen(r, done, failed) = {}
    /\ net' = net \ {Oldest(Inbox(r, k)) : k \in done}
    /\ UNCHANGED <<dead, at, orphans, got>>
WaitReturns(r, done, failed, late, posted, k) ==
    /\ k \in done /\ Source(r, k).rank \notin ignore'[r]
    /\ late \in SUBSET Arrived(r)
    /\ posted = (req[r].open \ (done \union failed)) \ late
    /\ late = (req[r].open \ (done \union failed)) \intersect Arrived(r)
    /\ net' = net \ {Oldest(Inbox(r, l)) : l \in done \union late}
    /\ orphans' = orphans \union {[from |-> Source(r, l).proc, to |-> r,
                                   epoch |-> req[r].epoch, call |-> at[r]] : l \in posted}
    /\ got' = [got EXCEPT ![r] = Append(@, [call |-> at[r],
                                            source |-> rank_2_job[Source(r, k).rank],
                                            error |-> "success",
                                            data |-> Oldest(Inbox(r, k)).data])]
    /\ at' = [at EXCEPT ![r] = @ + 1]
    /\ UNCHANGED dead

\* What MPI_Wait can do: give up, try again, or return.
LEMMA WaitOutcome ==
  ASSUME NEW r, NEW done, NEW failed, WaitStep(r, done, failed), req[r].open \in SUBSET Nat
  PROVE  \/ dead' = dead \union {r} /\ UNCHANGED <<at, net, orphans, got>>
         \/ WaitRetries(r, done, failed)
         \/ \E late, posted, k : WaitReturns(r, done, failed, late, posted, k)
<1> DEFINE left == req[r].open \ (done \union failed)
           late == left \intersect Arrived(r)
           choice == Chosen(r, done, failed)
           k == CHOOSE c \in choice : TRUE
           taken == {Oldest(Inbox(r, l)) : l \in done}
           Data(l) == IF Inbox(r, l) = {} THEN Nothing ELSE Oldest(Inbox(r, l)).data
<1>1. AfterWaitall(r, done, failed) /\ done \in SUBSET Arrived(r)
  BY DEF WaitStep
<1>2. done \in SUBSET Nat
  BY <1>1 DEF Arrived
<1>3. CASE GivesUp(r)
  BY <1>1, <1>3 DEF AfterWaitall
<1>4. CASE ~GivesUp(r) /\ choice = {}
  <2>1. net' = net \ taken /\ UNCHANGED <<dead, at, orphans, got>>
    BY <1>1, <1>4 DEF AfterWaitall
  <2> QED BY <1>4, <2>1 DEF WaitRetries
<1>5. CASE ~GivesUp(r) /\ choice # {}
  <2>1. /\ Return(r, rank_2_job[Source(r, k).rank], "success", Data(k))
        /\ net' = net \ (taken \union {Oldest(Inbox(r, l)) : l \in late})
        /\ free_agg_request(r, left \ late)
        /\ at' = [at EXCEPT ![r] = @ + 1] /\ UNCHANGED dead
    BY <1>1, <1>5 DEF AfterWaitall
  <2>2. k \in choice
    BY <1>5
  <2>3. k \in done /\ Source(r, k).rank \notin ignore'[r]
    BY <1>2, <2>2, ChosenOf
  <2>4. Data(k) = Oldest(Inbox(r, k)).data
    BY <1>1, <2>3 DEF Arrived
  <2>5. got' = [got EXCEPT ![r] = Append(@, [call |-> at[r],
                                             source |-> rank_2_job[Source(r, k).rank],
                                             error |-> "success",
                                             data |-> Oldest(Inbox(r, k)).data])]
    BY <2>1, <2>4 DEF Return
  <2>6. orphans' = orphans \union {[from |-> Source(r, l).proc, to |-> r,
                                    epoch |-> req[r].epoch, call |-> at[r]] : l \in left \ late}
    BY <2>1 DEF free_agg_request
  <2>7. taken \union {Oldest(Inbox(r, l)) : l \in late}
          = {Oldest(Inbox(r, l)) : l \in done \union late}
    OBVIOUS
  <2>8. late \in SUBSET Arrived(r)
    OBVIOUS
  <2> HIDE DEF k
  <2>9. WaitReturns(r, done, failed, late, left \ late, k)
    BY <2>1, <2>3, <2>5, <2>6, <2>7, <2>8 DEF WaitReturns
  <2> QED BY <2>9
<1> QED BY <1>3, <1>4, <1>5

\* MPI_Wait takes what has arrived, orphans what has not, and ignores from
\* then on the workers whose receives have failed.
LEMMA WaitChannels ==
  ASSUME WaitsBetweenCollectives, MessagesBetweenCollectives, ChannelInv,
         NEW r \in Proc, MPI_Wait(r)
  PROVE  Channels'
<1>1. Step(r)
  BY DEF Step
<1>2. /\ TypeInv /\ NetType /\ Live' \in SUBSET Live /\ Live \in SUBSET Proc
      /\ world' = world /\ epoch' = epoch /\ r \in Live /\ r \in world
      /\ \A q \in Proc \ {r} : at'[q] = at[q] /\ i'[q] = i[q]
      /\ \A p \in Live', q \in world :
            Map!Rank(q, world) \notin ignore'[p] =>
                /\ Map!Rank(q, world) \notin ignore[p]
                /\ p \in world /\ p \in Live /\ Channel(q, p)
      /\ world \in SUBSET Proc
  BY <1>1, ChannelBefore
<1>3. Executes(r, "wait") /\ UNCHANGED i
  BY WaitShape
<1>4. PICK done, failed : WaitStep(r, done, failed)
  BY WaitShape
<1>5. /\ req[r].open \in SUBSET Nat
      /\ req[r].open # {} => req[r].epoch = epoch
      /\ \A k \in req[r].open :
            /\ Source(r, k).proc \in world /\ JobOf[Source(r, k).proc] = ThisCall(r).peer
            /\ Source(r, k).rank = Map!Rank(Source(r, k).proc, world)
            /\ Place(ThisCall(r).peer, world)[Source(r, k).proc] = k
      /\ \A q \in world :
            JobOf[q] = ThisCall(r).peer /\ Map!Rank(q, world) \notin ignore[r] =>
                \E k \in req[r].open : Source(r, k).proc = q
  BY <1>2, <1>3, WaitSources
<1>6. done \in SUBSET Arrived(r) /\ done \in SUBSET req[r].open /\ done \in SUBSET Nat
      /\ failed \in SUBSET req[r].open
  BY <1>4, <1>5 DEF WaitStep, Arrived
<1>7. CASE UNCHANGED <<at, net, orphans>>
  <2>1. ASSUME NEW p \in Live', NEW q \in world, Map!Rank(q, world) \notin ignore'[p]
        PROVE  Channel(q, p)'
    <3>1. Channel(q, p)
      BY <1>2, <2>1
    <3>2. /\ SentTo(q, p)' = SentTo(q, p) /\ ReceivedFrom(p, q)' = ReceivedFrom(p, q)
          /\ Messages(q, p, epoch)' = Messages(q, p, epoch)
          /\ Holes(q, p, epoch)' = Holes(q, p, epoch)
      BY <1>2, <1>3, <1>7, StaysDone DEF Messages, Holes
    <3> QED BY <3>1, <3>2, ChannelStays
  <2> QED BY <1>2, <2>1 DEF Channels
<1>8. CASE WaitRetries(r, done, failed)
  <2>1. /\ UNCHANGED <<at, orphans>> /\ Chosen(r, done, failed) = {}
        /\ net' = net \ {Oldest(Inbox(r, k)) : k \in done}
    BY <1>8 DEF WaitRetries
  <2>2. \A k \in done : Source(r, k).rank \in ignore'[r]
    BY <1>6, <2>1, ChosenOf
  <2>3. ASSUME NEW p \in Live', NEW q \in world, Map!Rank(q, world) \notin ignore'[p]
        PROVE  Channel(q, p)'
    <3>1. Channel(q, p)
      BY <1>2, <2>3
    <3>2. ~(p = r /\ \E k \in done : Source(r, k).proc = q)
      BY <1>5, <1>6, <2>2, <2>3
    <3>3. Messages(q, p, epoch)' = Messages(q, p, epoch)
      <4>1. r \in Live /\ Executes(r, "wait") /\ epoch' = epoch /\ done \in SUBSET Arrived(r)
        BY <1>2, <1>3, <1>6
      <4> QED BY <2>1, <3>2, <4>1, WaitRemoves, SMTT(60)
    <3>4. /\ SentTo(q, p)' = SentTo(q, p) /\ ReceivedFrom(p, q)' = ReceivedFrom(p, q)
          /\ Holes(q, p, epoch)' = Holes(q, p, epoch)
      BY <1>2, <1>3, <2>1, StaysDone DEF Holes
    <3> QED BY <3>1, <3>3, <3>4, ChannelStays
  <2> QED BY <1>2, <2>3 DEF Channels
<1>9. ASSUME NEW late, NEW posted, NEW c, WaitReturns(r, done, failed, late, posted, c)
      PROVE  Channels'
  <2> DEFINE G == done \union late
             b == ThisCall(r).peer
             Hole(l) == [from |-> Source(r, l).proc, to |-> r,
                         epoch |-> req[r].epoch, call |-> at[r]]
  <2>1. /\ late \in SUBSET Arrived(r)
        /\ posted = (req[r].open \ (done \union failed)) \ late
        /\ late = (req[r].open \ (done \union failed)) \intersect Arrived(r)
        /\ net' = net \ {Oldest(Inbox(r, l)) : l \in G}
        /\ orphans' = orphans \union {Hole(l) : l \in posted}
        /\ at' = [at EXCEPT ![r] = @ + 1]
    BY <1>9 DEF WaitReturns
  <2>2. G \in SUBSET Arrived(r) /\ G \in SUBSET req[r].open /\ posted \in SUBSET req[r].open
    BY <1>6, <2>1 DEF Arrived
  <2>3. at'[r] = at[r] + 1 /\ i'[r] = i[r]
    BY <1>2, <1>3, <2>1 DEF TypeInv, Local
  <2>4. \A l : Hole(l).to = r /\ Hole(l).from = Source(r, l).proc /\ Hole(l).call = at[r]
               /\ Hole(l).epoch = req[r].epoch
    OBVIOUS
  <2> HIDE DEF Hole
  <2>5. ASSUME NEW q \in world
        PROVE  /\ SentTo(r, q)' = SentTo(r, q)
               /\ JobOf[q] = b => ReceivedFrom(r, q)' = ReceivedFrom(r, q) \union {at[r]}
               /\ JobOf[q] # b => ReceivedFrom(r, q)' = ReceivedFrom(r, q)
    BY <1>2, <1>3, <2>3, WaitDone
  <2>6. ASSUME NEW q, NEW p
        PROVE  /\ ~(p = r /\ \E k \in G : Source(r, k).proc = q) =>
                     Messages(q, p, epoch)' = Messages(q, p, epoch)
               /\ \A k \in G : Source(r, k).proc = q =>
                     Messages(q, r, epoch)' =
                         Messages(q, r, epoch) \ {Oldest(Messages(q, r, epoch))}
    <3> HIDE DEF G
    <3> QED BY <1>2, <1>3, <2>1, <2>2, WaitRemoves
  <2>7. ASSUME NEW p \in Live', NEW q \in world, Map!Rank(q, world) \notin ignore'[p]
        PROVE  Channel(q, p)'
    <3>1. /\ p \in world /\ p \in Proc /\ q \in Proc /\ Channel(q, p)
          /\ Map!Rank(q, world) \notin ignore[p]
      BY <1>2, <2>7
    <3>2. SentTo(q, p)' = SentTo(q, p)
      <4>1. CASE q = r
        BY <2>5, <3>1, <4>1
      <4>2. CASE q # r
        BY <1>2, <3>1, <4>2, StaysDone
      <4> QED BY <4>1, <4>2
    <3>3. CASE ~(p = r /\ JobOf[q] = b)
      <4>1. ReceivedFrom(p, q)' = ReceivedFrom(p, q)
        <5>1. CASE p = r
          BY <2>5, <3>3, <5>1
        <5>2. CASE p # r
          BY <1>2, <3>1, <5>2, StaysDone
        <5> QED BY <5>1, <5>2
      <4>2. ~(p = r /\ \E k \in G : Source(r, k).proc = q)
            /\ ~(p = r /\ \E k \in posted : Source(r, k).proc = q)
        BY <1>5, <2>2, <3>3
      <4>3. Messages(q, p, epoch)' = Messages(q, p, epoch)
        BY <2>6, <4>2
      <4>4. Holes(q, p, epoch)' = Holes(q, p, epoch)
        BY <1>2, <2>1, <2>4, <4>2 DEF Holes
      <4> QED BY <3>1, <3>2, <4>1, <4>3, <4>4, ChannelStays
    <3>4. CASE p = r /\ JobOf[q] = b
      <4> DEFINE M == Messages(q, r, epoch)
                 H == Holes(q, r, epoch)
                 X == SentTo(q, r)
                 Y == ReceivedFrom(r, q)
      <4>1. ReceivedFrom(r, q)' = Y \union {at[r]}
        BY <2>5, <3>4
      <4>2. PICK k \in req[r].open : Source(r, k).proc = q
        BY <1>5, <3>1, <3>4
      <4>3. req[r].epoch = epoch /\ Inbox(r, k) = M
        BY <1>5, <4>2 DEF Inbox
      <4>4. k \notin failed
        <5>1. ASSUME k \in failed PROVE FALSE
          <6>1. Notice(r, {Source(r, l).proc : l \in failed})
            BY <1>4, <4>3, <5>1 DEF WaitStep
          <6>2. ignore \in [Proc -> SUBSET AnyRank]
            BY <1>2 DEF TypeInv, Shared
          <6>3. Map!Rank(Source(r, k).proc, world) \in ignore'[r]
            BY <5>1, <6>1, <6>2 DEF Notice
          <6> QED BY <2>7, <3>4, <4>2, <6>3
        <5> QED BY <5>1
      <4>5. \A l \in req[r].open : Source(r, l).proc = q => l = k
        BY <1>5, <4>2
      <4>6. \A h \in H : h.from = q /\ h.to = r /\ h.epoch = epoch
        BY DEF Holes
      <4>7. Holes(q, r, epoch)' = H \union {Hole(l) : l \in {n \in posted : n = k}}
        <5>1. \A l \in posted : (Hole(l).from = q /\ Hole(l).to = r /\ Hole(l).epoch = epoch)
                                  <=> l = k
          BY <2>2, <2>4, <4>2, <4>3, <4>5
        <5>2. Holes(q, r, epoch)' = H \union
                {h \in {Hole(l) : l \in posted} : h.from = q /\ h.to = r /\ h.epoch = epoch}
          BY <1>2, <2>1 DEF Holes
        <5> QED BY <5>1, <5>2
      <4>8. CASE M # {}
        <5>1. k \in G /\ k \notin posted
          BY <2>1, <4>2, <4>3, <4>4, <4>8 DEF Arrived
        <5>2. Messages(q, r, epoch)' = M \ {Oldest(M)}
          BY <2>6, <4>2, <5>1
        <5>3. Holes(q, r, epoch)' = H
          BY <4>7, <5>1
        <5>4. Balance(M \ {Oldest(M)}, H, JobOf[q], JobOf[r], X, Y \union {at[r]})
          <6>1. Map!Rank(q, world) \notin ignore[r]
            BY <3>1, <3>4
          <6> QED BY <1>2, <1>3, <4>2, <4>8, <6>1, WaitTakes
        <5>5. Balance(Messages(q, r, epoch)', Holes(q, r, epoch)', JobOf[q], JobOf[r],
                      SentTo(q, r)', ReceivedFrom(r, q)')
          BY <3>2, <3>4, <4>1, <5>2, <5>3, <5>4
        <5> QED BY <3>4, <5>5 DEF Channel
      <4>9. CASE M = {}
        <5>1. k \in posted /\ ~\E l \in G : Source(r, l).proc = q
          BY <2>1, <2>2, <4>2, <4>3, <4>4, <4>5, <4>9 DEF Arrived
        <5>2. Messages(q, r, epoch)' = M
          BY <2>6, <5>1
        <5>3. Holes(q, r, epoch)' = H \union {Hole(k)}
          BY <4>7, <5>1
        <5>4. Balance({}, H, JobOf[q], JobOf[r], X, Y)
          BY <3>1, <3>4, <4>9 DEF Channel
        <5>5. /\ JobOf[q] \in Job /\ JobOf[r] \in Job
              /\ Beginning(X, Sends(JobOf[q], JobOf[r]))
              /\ Beginning(Y, Receives(JobOf[r], JobOf[q]))
          BY <1>2, Beginnings
        <5>6. NextOf(at[r], Y, Receives(JobOf[r], JobOf[q]))
          BY <1>2, <1>3, <3>4, WaitDone
        <5>7. Hole(k).call = at[r] /\ MessagesBetweenCollectives
          BY <2>4
        <5>8. Balance({}, H \union {Hole(k)}, JobOf[q], JobOf[r], X, Y \union {at[r]})
          BY ONLY <5>4, <5>5, <5>6, <5>7, GivenUp
        <5>9. Balance(Messages(q, r, epoch)', Holes(q, r, epoch)', JobOf[q], JobOf[r],
                      SentTo(q, r)', ReceivedFrom(r, q)')
          BY <3>2, <3>4, <4>1, <4>9, <5>2, <5>3, <5>8
        <5> QED BY <3>4, <5>9 DEF Channel
      <4> QED BY <4>8, <4>9
    <3> QED BY <3>3, <3>4
  <2> QED BY <1>2, <2>7 DEF Channels
<1> QED BY <1>4, <1>5, <1>7, <1>8, <1>9, WaitOutcome

\* The calls A that come before call a.
Before(A, a) == {x \in A : x < a}

\* At a collective call a process has made the sends and receives before it,
\* whichever index its loop has been left with.
LEMMA CollectiveCall ==
  ASSUME NEW r \in Proc, at[r] \in DOMAIN Program[JobOf[r]], ThisCall(r).call = "collective",
         NEW j \in Job
  PROVE  /\ at[r] \in Nat \ {0}
         /\ at[r] \notin Sends(JobOf[r], j) /\ Sends(JobOf[r], j) \in SUBSET Nat
         /\ at[r] \notin Receives(JobOf[r], j) /\ Receives(JobOf[r], j) \in SUBSET Nat
<1>1. JobOf[r] \in Job /\ Program[JobOf[r]] \in Seq(Call)
  BY ProgramType, MapAssumption
<1>2. at[r] \in Nat \ {0}
  BY <1>1
<1>3. at[r] \notin Sends(JobOf[r], j) /\ at[r] \notin Receives(JobOf[r], j)
  BY DEF ThisCall, Sends, Receives
<1>4. Sends(JobOf[r], j) \in SUBSET Nat /\ Receives(JobOf[r], j) \in SUBSET Nat
  BY <1>1, CallSets
<1> QED BY <1>2, <1>3, <1>4

\* A call that is not in A adds nothing to what has been done of A.
LEMMA CollectiveDone ==
  ASSUME NEW A \in SUBSET Nat, NEW a \in Nat, a \notin A, NEW c \in Nat \ {0}, NEW l
  PROVE  Done(a, l, c, A) = Before(A, a) /\ Done(a + 1, 1, c, A) = Before(A, a)
<1>1. ~(c < 1) /\ \A x \in A : x # a /\ (x < a + 1 <=> x < a)
  OBVIOUS
<1> QED BY <1>1 DEF Done, Before

\* An agreement, and a shrink that aborts the program, change no channel.
LEMMA AgreeChannels ==
  ASSUME ChannelInv, AgreeSucceeds \/ AgreeFails \/ Shrink, UNCHANGED <<mapVars, ignore>>
  PROVE  Channels'
<1>1. /\ TypeInv /\ Channels /\ Live \in SUBSET world /\ \A p \in Proc : InCollective(p)
      /\ at \in [Proc -> Nat]
  BY DEF ChannelInv, RequestInv, TypeInv, Local
<1>2. /\ \A p \in Live : Running(p) /\ phase[p] # "run"
      /\ dead' = dead /\ UNCHANGED <<i, net, orphans>>
      /\ \A p \in Proc \ Live : at'[p] = at[p]
      /\ UNCHANGED at \/ \A p \in Live : at'[p] = at[p] + 1
  BY <1>1, JointStep
<1>3. world' = world /\ epoch' = epoch /\ Live' = Live /\ ignore' = ignore
      /\ world \in SUBSET Proc /\ Live \in SUBSET Proc
  BY <1>1, <1>2 DEF mapVars, Live, TypeInv, Shared, ListInv
<1>4. ASSUME NEW r \in world, NEW q \in world
      PROVE  SentTo(r, q)' = SentTo(r, q) /\ ReceivedFrom(r, q)' = ReceivedFrom(r, q)
  <2>1. CASE at'[r] = at[r]
    BY <1>2, <1>3, <2>1, StaysDone
  <2>2. CASE r \in Live /\ at'[r] = at[r] + 1
    <3> DEFINE e == Place(JobOf[q], world)[q]
    <3>1. at[r] \in DOMAIN Program[JobOf[r]] /\ ThisCall(r).call = "collective" /\ i[r] = 1
      BY <1>1, <1>2, <1>3, <2>2 DEF InCollective, TypeInv, Local, InLoop
    <3>2. e \in Nat \ {0} /\ JobOf[q] \in Job /\ r \in Proc
      BY <1>1, <1>3, PlaceOf
    <3>3. /\ SentTo(r, q)' = Done(at[r] + 1, 1, e, Sends(JobOf[r], JobOf[q]))
          /\ ReceivedFrom(r, q)' = Done(at[r] + 1, 1, e, Receives(JobOf[r], JobOf[q]))
          /\ SentTo(r, q) = Done(at[r], 1, e, Sends(JobOf[r], JobOf[q]))
          /\ ReceivedFrom(r, q) = Done(at[r], 1, e, Receives(JobOf[r], JobOf[q]))
      BY <1>2, <1>3, <2>2, <3>1 DEF SentTo, ReceivedFrom, Place
    <3> HIDE DEF e
    <3>4. /\ at[r] \in Nat /\ Sends(JobOf[r], JobOf[q]) \in SUBSET Nat
          /\ at[r] \notin Sends(JobOf[r], JobOf[q])
          /\ at[r] \notin Receives(JobOf[r], JobOf[q])
          /\ Receives(JobOf[r], JobOf[q]) \in SUBSET Nat
      BY <3>1, <3>2, CollectiveCall
    <3>5. Done(at[r] + 1, 1, e, Sends(JobOf[r], JobOf[q]))
            = Done(at[r], 1, e, Sends(JobOf[r], JobOf[q]))
      BY ONLY <3>2, <3>4, CollectiveDone
    <3>6. Done(at[r] + 1, 1, e, Receives(JobOf[r], JobOf[q]))
            = Done(at[r], 1, e, Receives(JobOf[r], JobOf[q]))
      BY ONLY <3>2, <3>4, CollectiveDone
    <3> QED BY <3>3, <3>5, <3>6
  <2> QED BY <1>2, <1>3, <2>1, <2>2
<1>5. ASSUME NEW p \in Live', NEW q \in world, Map!Rank(q, world) \notin ignore'[p]
      PROVE  Channel(q, p)'
  <2>1. Channel(q, p) /\ p \in world
    BY <1>1, <1>3, <1>5 DEF Channels
  <2>2. SentTo(q, p)' = SentTo(q, p) /\ ReceivedFrom(p, q)' = ReceivedFrom(p, q)
    BY <1>4, <2>1
  <2>3. /\ Messages(q, p, epoch)' = Messages(q, p, epoch)
        /\ Holes(q, p, epoch)' = Holes(q, p, epoch)
    BY <1>2, <1>3 DEF Messages, Holes
  <2> QED BY <2>1, <2>2, <2>3, ChannelStays
<1> QED BY <1>3, <1>5 DEF Channels

\* Two workers at the same collective call have nothing between them.
LEMMA SectionsMet ==
  ASSUME MessagesBetweenCollectives, NEW b \in Job, NEW j \in Job,
         NEW a \in Nat \ {0}, NEW e \in Nat \ {0},
         Program[b][a].call = "collective", Program[j][e].call = "collective",
         Section(b, a - 1) = Section(j, e - 1), a \notin Sends(b, j), e \notin Receives(j, b)
  PROVE  Balance({}, {}, b, j, Before(Sends(b, j), a), Before(Receives(j, b), e))
<1> DEFINE S == Sends(b, j)
           R == Receives(j, b)
           f == Nth(S)
           g == Nth(R)
           X == Before(S, a)
           Y == Before(R, e)
<1>1. S \in SUBSET Nat /\ R \in SUBSET Nat
  BY CallSets
<1>2. Aligned(S, R, f, g) /\ \A s \in S, k \in R : f[s] = g[k] => Section(b, s) = Section(j, k)
  BY Alignment
<1>3. \A s \in S : s < a <=> Section(b, s) <= Section(b, a - 1)
  BY <1>1, SectionSplit
<1>4. \A k \in R : k < e <=> Section(j, k) <= Section(j, e - 1)
  BY <1>1, SectionSplit
<1> HIDE DEF f, g, S, R
<1>5. \A s \in S : \E k \in R : f[s] = g[k]
  BY <1>2 DEF Aligned
<1>6. \A k \in R : \E s \in S : f[s] = g[k]
  BY <1>2 DEF Aligned
<1>7. ASSUME NEW s \in X PROVE \E k \in Y : f[s] = g[k]
  <2> USE DEF Before
  <2>1. PICK k \in R : f[s] = g[k]
    BY <1>5
  <2>2. k < e
    BY <1>2, <1>3, <1>4, <2>1
  <2> QED BY <2>1, <2>2
<1>8. ASSUME NEW k \in Y PROVE \E s \in X : f[s] = g[k]
  <2> USE DEF Before
  <2>1. PICK s \in S : f[s] = g[k]
    BY <1>6
  <2>2. s < a
    BY <1>2, <1>3, <1>4, <2>1
  <2> QED BY <2>1, <2>2
<1> HIDE DEF X, Y
<1>9. Unmet(X, Y, f, g) = {} /\ Unmet(Y, X, g, f) = {}
  BY <1>7, <1>8 DEF Unmet
<1>10. {m.data : m \in {}} = Unmet(X, Y, f, g) /\ {h.call : h \in {}} = Unmet(Y, X, g, f)
  BY <1>9
<1> QED BY <1>10 DEF Balance, f, g, S, R, X, Y

\* In the new communicator nothing is under way and nothing is posted, and
\* its members have exchanged all messages of the sections before.
LEMMA ShrinkChannels ==
  ASSUME MessagesBetweenCollectives, ChannelInv, Shrink, ~UNCHANGED mapVars, TypeInv'
  PROVE  Channels'
<1>1. /\ TypeInv /\ NetType /\ SameSection /\ Live \in SUBSET world
      /\ \A p \in Proc : InCollective(p)
  BY DEF ChannelInv, RequestInv
<1>2. PICK F \in SUBSET (dead \intersect world) :
        /\ \A q \in (dead \intersect world) \ F : phase[q] = "shrink"
        /\ update_job_list(world \ F)
  BY DEF Shrink
<1>3. world' = world \ F /\ epoch' = epoch + 1
  BY <1>2 DEF update_job_list
<1>4. UNCHANGED <<dead, at, i, net, orphans>> /\ \A p \in Live : phase[p] = "shrink"
  BY DEF Shrink, AllIn, recvVars
<1>5. Live' = Live /\ Live \in SUBSET Proc /\ world \in SUBSET Proc /\ epoch \in Nat
  BY <1>1, <1>4 DEF Live, TypeInv, Shared, ListInv
<1>6. ASSUME NEW p \in Live', NEW q \in world' PROVE Channel(q, p)'
  <2>1. /\ p \in Live /\ p \in Proc /\ q \in Proc /\ q \in world /\ p \in world'
        /\ q \in Live \/ phase[q] = "shrink"
        /\ phase[p] = "shrink" /\ phase[q] = "shrink"
    BY <1>1, <1>2, <1>3, <1>4, <1>5 DEF Live
  <2>2. /\ at[p] \in DOMAIN Program[JobOf[p]] /\ ThisCall(p).call = "collective"
        /\ at[q] \in DOMAIN Program[JobOf[q]] /\ ThisCall(q).call = "collective"
    BY <1>1, <2>1 DEF InCollective
  <2>3. Passes(q) = Passes(p)
    BY <1>1, <2>1 DEF SameSection
  <2>4. JobOf[p] \in Job /\ JobOf[q] \in Job
    BY <2>1, MapAssumption
  <2>5. ASSUME NEW r \in world', NEW e, e = Place(JobOf[r], world')[r] PROVE e \in Nat \ {0}
    <3>1. \A x \in world : Place(JobOf[x], world)[x] \in Nat \ {0}
      BY <1>1, PlaceOf
    <3> DEFINE V == Map!Workers(JobOf[r], world')
    <3>2. r \in V /\ world' \in SUBSET Proc
      BY <1>3, <1>5 DEF Map!Workers
    <3>3. Cardinality(V) \in Nat /\ Place(JobOf[r], world') \in [V -> 1..Cardinality(V)]
      BY <3>2, Places
    <3> HIDE DEF V
    <3> QED BY <2>5, <3>2, <3>3
  <2> DEFINE S == Sends(JobOf[q], JobOf[p])
             R == Receives(JobOf[p], JobOf[q])
             X == Before(S, at[q])
             Y == Before(R, at[p])
  <2>6. SentTo(q, p)' = X /\ at[q] \in Nat \ {0} /\ at[q] \notin S
    <3>1. SentTo(q, p)' = Done(at[q], i[q], Place(JobOf[p], world')[p], S)
      BY <1>4 DEF SentTo, Place
    <3>2. at[q] \in Nat \ {0} /\ at[q] \notin S /\ S \in SUBSET Nat
      BY <2>1, <2>2, <2>4, CollectiveCall
    <3>3. ASSUME NEW e \in Nat \ {0}, NEW l PROVE Done(at[q], l, e, S) = X
      <4> HIDE DEF S
      <4> QED BY ONLY <3>2, <3>3, CollectiveDone DEF X
    <3>4. Place(JobOf[p], world')[p] \in Nat \ {0}
      BY <2>1, <2>5
    <3> QED BY <3>1, <3>2, <3>3, <3>4
  <2>7. ReceivedFrom(p, q)' = Y /\ at[p] \in Nat \ {0} /\ at[p] \notin R
    <3>1. ReceivedFrom(p, q)' = Done(at[p], i[p], Place(JobOf[q], world')[q], R)
      BY <1>4 DEF ReceivedFrom, Place
    <3>2. at[p] \in Nat \ {0} /\ at[p] \notin R /\ R \in SUBSET Nat
      BY <2>1, <2>2, <2>4, CollectiveCall
    <3>3. ASSUME NEW e \in Nat \ {0}, NEW l PROVE Done(at[p], l, e, R) = Y
      <4> HIDE DEF R
      <4> QED BY ONLY <3>2, <3>3, CollectiveDone DEF Y
    <3>4. Place(JobOf[q], world')[q] \in Nat \ {0}
      BY <2>1, <2>5
    <3> QED BY <3>1, <3>2, <3>3, <3>4
  <2>8. /\ Program[JobOf[q]][at[q]].call = "collective"
        /\ Program[JobOf[p]][at[p]].call = "collective"
        /\ Section(JobOf[q], at[q] - 1) = Section(JobOf[p], at[p] - 1)
    BY <2>2, <2>3 DEF ThisCall, Passes
  <2>9. Balance({}, {}, JobOf[q], JobOf[p], X, Y)
    BY <2>4, <2>6, <2>7, <2>8, SectionsMet
  <2>10. Messages(q, p, epoch)' = {} /\ Holes(q, p, epoch)' = {}
    <3>1. /\ \A m \in net : m.epoch \in Nat /\ m.epoch <= epoch
          /\ \A h \in orphans : h.epoch \in Nat /\ h.epoch <= epoch
      BY <1>1 DEF NetType, Message, Orphan
    <3>2. (\A m \in net : m.epoch # epoch') /\ \A h \in orphans : h.epoch # epoch'
      BY <1>3, <1>5, <3>1
    <3> QED BY <1>4, <3>2 DEF Messages, Holes
  <2>11. Balance(Messages(q, p, epoch)', Holes(q, p, epoch)', JobOf[q], JobOf[p],
                 SentTo(q, p)', ReceivedFrom(p, q)')
    BY <2>6, <2>7, <2>9, <2>10
  <2> QED BY <2>11 DEF Channel
<1> QED BY <1>6 DEF Channels

\* Channels is preserved, in the company of ChannelInv.
LEMMA ChannelsStep ==
  ASSUME WaitsBetweenCollectives, MessagesBetweenCollectives, ChannelInv, [Next]_vars
  PROVE  Channels'
<1>1. RequestInv /\ Channels
  BY DEF ChannelInv
<1>2. TypeInv'
  <2>1. RequestInv'
    BY <1>1, RequestStep
  <2> QED BY <2>1 DEF RequestInv
<1>3. ASSUME NEW r \in Proc, Step(r) PROVE Channels'
  BY <1>3, SkipChannels, SendChannels, RecvChannels, QuietChannels, WaitChannels DEF Step
<1>4. ASSUME NEW r \in Proc, Crash(r) PROVE Channels'
  BY <1>4, QuietChannels
<1>5. CASE AgreeSucceeds \/ AgreeFails
  <2>1. UNCHANGED <<mapVars, ignore>>
    BY <1>5 DEF AgreeSucceeds, AgreeFails, Unnoticed
  <2> QED BY <1>5, <2>1, AgreeChannels
<1>6. CASE Shrink
  <2>1. PICK F \in SUBSET (dead \intersect world) : update_job_list(world \ F)
    BY <1>6 DEF Shrink
  <2>2. \/ UNCHANGED <<mapVars, ignore>>
        \/ epoch' = epoch + 1
    BY <2>1 DEF update_job_list
  <2>3. CASE UNCHANGED <<mapVars, ignore>>
    BY <1>6, <2>3, AgreeChannels
  <2>4. CASE epoch' = epoch + 1
    <3>1. epoch \in Nat
      BY <1>1 DEF RequestInv, TypeInv, Shared
    <3>2. ~UNCHANGED mapVars
      BY <2>4, <3>1 DEF mapVars
    <3> QED BY <1>2, <1>6, <3>2, ShrinkChannels
  <2> QED BY <2>2, <2>3, <2>4
<1>7. CASE Finished \/ UNCHANGED vars
  <2>1. UNCHANGED vars
    BY <1>7 DEF Finished
  <2>2. UNCHANGED <<dead, world, epoch, ignore, at, i, net, orphans>>
    BY <2>1 DEF vars, mapVars, recvVars
  <2>3. Live' = Live
    BY <2>2 DEF Live
  <2>4. ASSUME NEW p \in Live, NEW q \in world, Channel(q, p) PROVE Channel(q, p)'
    <3>1. SentTo(q, p)' = SentTo(q, p) /\ ReceivedFrom(p, q)' = ReceivedFrom(p, q)
      BY <2>2, StaysDone
    <3>2. Messages(q, p, epoch)' = Messages(q, p, epoch)
          /\ Holes(q, p, epoch)' = Holes(q, p, epoch)
      BY <2>2 DEF Messages, Holes
    <3> QED BY <2>4, <3>1, <3>2, ChannelStays
  <2> QED BY <1>1, <2>2, <2>3, <2>4 DEF Channels
<1> QED BY <1>3, <1>4, <1>5, <1>6, <1>7 DEF Next

-----------------------------------------------------------------------------
(* The collective calls that the processes have passed.                    *)

\* A step of one process takes it past no collective call.
LEMMA StepPasses ==
  ASSUME TypeInv, NEW r \in Proc, Step(r) \/ Crash(r)
  PROVE  \/ at'[r] = at[r]
         \/ /\ at'[r] = at[r] + 1 /\ Running(r) /\ ThisCall(r).call # "collective"
            /\ at[r] \in Nat \ {0}
<1>1. at \in [Proc -> Nat] /\ at[r] \in Nat \ {0}
  BY DEF TypeInv, Local, Bounded
<1> DEFINE Goal == \/ at'[r] = at[r]
                   \/ at'[r] = at[r] + 1 /\ Running(r) /\ ThisCall(r).call # "collective"
<1>2. ASSUME Looping(r), Advance(r) PROVE Goal
  <2>1. Running(r) /\ ThisCall(r).call \in {"send", "recv", "irecv"}
    BY <1>2 DEF Looping, Executes
  <2> QED BY <1>1, <1>2, <2>1 DEF Advance
<1>3. ASSUME SkipIgnored(r) PROVE Goal
  BY <1>2, <1>3 DEF SkipIgnored
<1>4. ASSUME MPI_Send(r) \/ MPI_Recv(r) PROVE Goal
  BY <1>2, <1>4 DEF MPI_Send, MPI_Recv, Looping
<1>5. ASSUME MPI_Irecv(r) PROVE Goal
  BY <1>2, <1>5 DEF MPI_Irecv, Looping
<1>6. ASSUME MPI_Wait(r) PROVE Goal
  <2>1. Running(r) /\ ThisCall(r).call = "wait"
    BY <1>6 DEF MPI_Wait, Executes
  <2>2. PICK done, failed : AfterWaitall(r, done, failed)
    BY <1>6, Zenon DEF MPI_Wait
  <2>3. UNCHANGED at \/ at' = [at EXCEPT ![r] = @ + 1]
    BY <2>2 DEF AfterWaitall
  <2> QED BY <1>1, <2>1, <2>3
<1>7. ASSUME MPI_Comm_agree(r) \/ Crash(r) PROVE Goal
  BY <1>7 DEF MPI_Comm_agree, Crash
<1> HIDE DEF Goal
<1>8. Goal
  BY <1>3, <1>4, <1>5, <1>6, <1>7 DEF Step
<1> QED BY <1>1, <1>8 DEF Goal

\* The processes that can shrink together keep to the same section.
LEMMA SectionStep ==
  ASSUME RequestInv, SameSection, [Next]_vars
  PROVE  SameSection'
<1>1. /\ TypeInv /\ Live \in SUBSET world /\ Live \in SUBSET Proc /\ world \in SUBSET Proc
      /\ \A p \in Proc : InCollective(p)
      /\ dead \in SUBSET Proc /\ at \in [Proc -> Nat]
  BY DEF RequestInv, Live, IgnoreInv, TypeInv, Local
<1>2. dead \in SUBSET dead' /\ Live' \in SUBSET Live
  <2>1. dead \in SUBSET dead'
    BY <1>1, StepShape
  <2> QED BY <2>1 DEF Live
<1>3. ASSUME NEW r \in Proc, Step(r) \/ Crash(r) PROVE SameSection'
  <2>1. /\ world' = world /\ r \in Live
        /\ \A q \in Proc \ {r} : at'[q] = at[q] /\ phase'[q] = phase[q]
    BY <1>1, <1>3, OthersStay DEF mapVars
  <2>2. Passes(r)' = Passes(r)
    <3>1. CASE at'[r] = at[r]
      BY <3>1 DEF Passes
    <3>2. CASE /\ at'[r] = at[r] + 1 /\ ThisCall(r).call # "collective"
               /\ at[r] \in Nat \ {0}
      <4>1. at'[r] - 1 = at[r]
        BY <3>2
      <4>2. Section(JobOf[r], at[r]) = Section(JobOf[r], at[r] - 1)
        BY <3>2, SectionNext DEF ThisCall
      <4>3. Passes(r)' = Section(JobOf[r], at'[r] - 1)
        BY DEF Passes, Section
      <4> QED BY <4>1, <4>2, <4>3 DEF Passes
    <3> QED BY <1>1, <1>3, <3>1, <3>2, StepPasses
  <2>3. \A q \in Proc : Passes(q)' = Passes(q)
    BY <2>1, <2>2 DEF Passes
  <2>4. \A q \in Proc : q \in Live' \/ phase'[q] = "shrink" => q \in Live \/ phase[q] = "shrink"
    BY <1>2, <2>1
  <2> QED BY <1>1, <1>2, <2>1, <2>3, <2>4 DEF SameSection
<1>4. ASSUME AgreeSucceeds \/ AgreeFails \/ Shrink PROVE SameSection'
  <2>1. /\ \A p \in Live : Running(p) /\ phase[p] # "run"
        /\ dead' = dead
        /\ \A p \in Proc \ Live : phase'[p] \in {"run", phase[p]} /\ at'[p] = at[p]
        /\ \/ UNCHANGED at
           \/ AgreeSucceeds /\ \A p \in Live : at'[p] = at[p] + 1 /\ phase'[p] = "run"
    BY <1>1, <1>4, JointStep
  <2>2. Live' = Live /\ world' \in SUBSET world
    <3>1. \/ UNCHANGED mapVars
          \/ \E F \in SUBSET (dead \intersect world) : update_job_list(world \ F)
      BY <1>1, StepShape
    <3>2. world' = world \/ \E F : world' = world \ F
      BY <3>1 DEF mapVars, update_job_list
    <3> QED BY <2>1, <3>2 DEF Live
  <2>3. CASE UNCHANGED at
    <3>1. \A q \in Proc : Passes(q)' = Passes(q)
      BY <2>3 DEF Passes
    <3>2. \A q \in Proc : q \in Live' \/ phase'[q] = "shrink" => q \in Live \/ phase[q] = "shrink"
      BY <2>1, <2>2
    <3> QED BY <1>1, <2>2, <3>1, <3>2 DEF SameSection
  <2>4. CASE AgreeSucceeds /\ \A p \in Live : at'[p] = at[p] + 1 /\ phase'[p] = "run"
    <3>1. ASSUME NEW p \in Live
          PROVE  Passes(p)' = Passes(p) + 1
      <4>1. Program[JobOf[p]][at[p]].call = "collective" /\ at[p] \in Nat \ {0}
        BY <1>1, <2>1 DEF InCollective, ThisCall, TypeInv, Local, Bounded
      <4>2. Section(JobOf[p], at[p]) = Section(JobOf[p], at[p] - 1) + 1
        BY <4>1, SectionNext
      <4>3. Passes(p)' = Section(JobOf[p], at'[p] - 1) /\ at'[p] - 1 = at[p]
        BY <2>4, <4>1 DEF Passes, Section
      <4> QED BY <4>2, <4>3 DEF Passes
    <3>2. \A q \in world : phase[q] = "agree"
      <4>1. /\ Live # {} /\ \A q \in world, p \in Live : phase[q] = "agree"
        BY <2>4 DEF AgreeSucceeds, AllIn
      <4> QED BY <4>1
    <3>3. \A q \in world : q \in Live' \/ phase'[q] = "shrink" => q \in Live
      BY <1>1, <2>1, <2>2, <3>2
    <3>4. \A p, q \in Live : Passes(q) = Passes(p)
      BY <1>1 DEF SameSection
    <3>5. \A p, q \in Live : Passes(q)' = Passes(p)'
      BY <3>1, <3>4
    <3> QED BY <2>2, <3>3, <3>5 DEF SameSection
  <2> QED BY <2>1, <2>3, <2>4
<1>5. CASE Finished \/ UNCHANGED vars
  BY <1>5 DEF Finished, vars, mapVars, SameSection, Passes, Live
<1> QED BY <1>3, <1>4, <1>5 DEF Next

-----------------------------------------------------------------------------
(* What the receives return.                                               *)

\* One receive has returned with e.
Returned(r, e) == got' = [got EXCEPT ![r] = Append(@, e)]

\* A result is added to the results.
LEMMA ReturnedType ==
  ASSUME got \in [Proc -> Seq(Result)], NEW r \in Proc, NEW e \in Result, Returned(r, e)
  PROVE  got' \in [Proc -> Seq(Result)]
<1>1. Append(got[r], e) \in Seq(Result)
  OBVIOUS
<1> QED BY <1>1 DEF Returned

\* At the end of an iteration with d in the buffer and st in the status: MPI_Recv
\* returns with them behind the last worker.
LEMMA IterationEnds ==
  ASSUME TypeInv, NetType, NEW r \in Proc, Looping(r), NEW d \in Int, NEW st \in Status,
         RecvEnds(r, d, st),
         NEW e, e = [call |-> at[r], source |-> st.source, error |-> st.error, data |-> d]
  PROVE  /\ e \in Result
         /\ \/ /\ Executes(r, "recv") /\ LastWorker(r) /\ Returned(r, e)
               /\ buf' = [buf EXCEPT ![r] = Nothing]
               /\ status' = [status EXCEPT ![r] = NoStatus]
            \/ /\ ~(Executes(r, "recv") /\ LastWorker(r)) /\ UNCHANGED got
               /\ buf' = [buf EXCEPT ![r] = d]
               /\ status' = [status EXCEPT ![r] = st]
         /\ buf' \in [Proc -> Int] /\ status' \in [Proc -> Status]
         /\ got' \in [Proc -> Seq(Result)]
         /\ \A q \in Proc \ {r} : buf'[q] = buf[q] /\ status'[q] = status[q]
<1>1. Running(r)
  BY LoopIndex
<1>2. at[r] \in Nat /\ st.source \in Int /\ st.error \in Outcome
  BY <1>1, CallType DEF TypeInv, Local, Status
<1>3. e \in Result
  BY <1>2 DEF Result
<1>4. \/ /\ Executes(r, "recv") /\ LastWorker(r) /\ Returned(r, e)
         /\ buf' = [buf EXCEPT ![r] = Nothing]
         /\ status' = [status EXCEPT ![r] = NoStatus]
      \/ /\ ~(Executes(r, "recv") /\ LastWorker(r)) /\ UNCHANGED got
         /\ buf' = [buf EXCEPT ![r] = d]
         /\ status' = [status EXCEPT ![r] = st]
  <2>1. \/ /\ Executes(r, "recv") /\ LastWorker(r) /\ Return(r, st.source, st.error, d)
           /\ buf' = [buf EXCEPT ![r] = Nothing]
           /\ status' = [status EXCEPT ![r] = NoStatus]
        \/ /\ ~(Executes(r, "recv") /\ LastWorker(r)) /\ UNCHANGED got
           /\ buf' = [buf EXCEPT ![r] = d]
           /\ status' = [status EXCEPT ![r] = st]
    BY Zenon DEF RecvEnds
  <2>2. Return(r, st.source, st.error, d) => Returned(r, e)
    BY Zenon DEF Return, Returned
  <2> QED BY <2>1, <2>2
<1>5. /\ buf \in [Proc -> Int] /\ got \in [Proc -> Seq(Result)] /\ Nothing \in Int
      /\ status \in [Proc -> Status]
  BY DEF NetType, Nothing
<1>6. buf' \in [Proc -> Int] /\ \A q \in Proc \ {r} : buf'[q] = buf[q]
  BY <1>4, <1>5
<1>7. status' \in [Proc -> Status] /\ \A q \in Proc \ {r} : status'[q] = status[q]
  <2>1. NoStatus \in Status
    BY DEF NoStatus, Status, Outcome
  <2> QED BY <1>4, <1>5, <2>1
<1>8. got' \in [Proc -> Seq(Result)]
  BY <1>3, <1>4, <1>5, ReturnedType
<1> QED BY <1>3, <1>4, <1>6, <1>7, <1>8

\* What an iteration of MPI_Recv, or of a loop that passes an ignored worker,
\* leaves in the buffer: the message it is for, as soon as a live worker has
\* been asked.
Filled(r, d) ==
    \A q \in Map!Workers(ThisCall(r).peer, Live) :
        Place(JobOf[q], world)[q] <= i[r] => d = Expected(JobOf[r], at[r])

\* A good status comes with the message.
Vouched(r, d, st) ==
    st.error = "success" => Executes(r, "recv") /\ d = Expected(JobOf[r], at[r])

\* An iteration of MPI_Recv ends with the right message in the buffer if the
\* worker asked is alive, or if the status says so.
LEMMA RecvFills ==
  ASSUME MessagesBetweenCollectives, ChannelInv, NEW r \in Proc,
         SkipIgnored(r) \/ MPI_Recv(r)
  PROVE  \E d \in Int, st \in Status :
            /\ RecvEnds(r, d, st) /\ Vouched(r, d, st)
            /\ Executes(r, "recv") => Filled(r, d)
<1>1. Step(r) \/ Crash(r)
  BY DEF Step
<1>2. /\ TypeInv /\ IgnoreInv /\ NetType /\ r \in Live /\ Live \in SUBSET world
      /\ world \in SUBSET Proc
  BY <1>1, ChannelBefore
<1>3. BufferFits(r) /\ StatusFits(r) /\ buf[r] \in Int /\ status[r] \in Status
  BY <1>2 DEF ChannelInv, NetType
<1>4. Looping(r)
  BY DEF SkipIgnored, MPI_Recv, Looping
<1> DEFINE s == Peer(r)
           M == Messages(s, r, epoch)
           b == ThisCall(r).peer
           x == Expected(JobOf[r], at[r])
<1>5. /\ s \in world /\ Map!Rank(s, world) = PeerRank(r)
      /\ \A q \in world : JobOf[q] = b /\ Place(JobOf[q], world)[q] = i[r] => q = s
  BY <1>2, <1>4, PeerOf
<1>6. Executes(r, "recv") =>
        \A q \in Map!Workers(b, Live) : Place(JobOf[q], world)[q] < i[r] => buf[r] = x
  <2>1. Executes(r, "recv") => at[r] <= Len(Program[JobOf[r]]) /\ ThisCall(r).call = "recv"
    BY DEF Executes, Running
  <2> QED BY <1>3, <2>1 DEF BufferFits
<1>7. \A q \in Map!Workers(b, Live) :
        /\ q \in world /\ q \notin dead /\ JobOf[q] = b
        /\ Place(JobOf[q], world)[q] \in Nat /\ i[r] \in Nat
  <2>1. \A q \in world : Place(JobOf[q], world)[q] \in Nat
    BY <1>2, PlaceOf
  <2>2. i[r] \in Nat
    BY <1>2 DEF TypeInv, Local
  <2> QED BY <1>2, <2>1, <2>2 DEF Map!Workers, Live
<1>8. ASSUME s \in dead, Executes(r, "recv"), NEW q \in Map!Workers(b, Live),
             Place(JobOf[q], world)[q] <= i[r]
      PROVE  buf[r] = x
  <2>1. q # s
    BY <1>7, <1>8
  <2>2. Place(JobOf[q], world)[q] # i[r]
    BY <1>5, <1>7, <2>1
  <2>3. Place(JobOf[q], world)[q] < i[r]
    BY <1>7, <1>8, <2>2
  <2> QED BY <1>6, <1>8, <2>3
<1>9. s \in dead => (Executes(r, "recv") => Filled(r, buf[r]))
  BY <1>8 DEF Filled
<1>10. CASE SkipIgnored(r)
  <2>1. Ignored(r) /\ RecvEnds(r, buf[r], status[r])
    BY <1>10 DEF SkipIgnored
  <2>2. s \in dead
    <3>1. Map!Rank(s, world) \in ignore[r]
      BY <1>5, <2>1 DEF Ignored
    <3> QED BY <1>2, <1>5, <3>1, IgnoredDead
  <2>3. Vouched(r, buf[r], status[r])
    <3>1. phase[r] = "run" /\ Running(r)
      BY <1>4 DEF Looping, Executes
    <3> QED BY <1>3, <3>1 DEF StatusFits, Vouched, Executes
  <2> QED BY <1>3, <1>9, <2>1, <2>2, <2>3
<1>11. CASE MPI_Recv(r)
  <2> DEFINE good == Asked(r, "success")
             bad == Asked(r, "failed")
  <2>1. \/ M # {} /\ RecvEnds(r, Oldest(M).data, good)
        \/ s \in dead /\ RecvEnds(r, buf[r], bad)
        \/ s \in dead /\ M # {} /\ buf[r] # Oldest(M).data /\ RecvEnds(r, Torn, bad)
    BY <1>11, Zenon DEF MPI_Recv
  <2>0. /\ good \in Status /\ bad \in Status /\ Executes(r, "recv")
        /\ \A d : Vouched(r, d, bad)
        /\ Vouched(r, x, good)
    <3>1. PeerRank(r) \in Int
      BY <1>2, <1>4, LoopIndex
    <3>2. good \in Status /\ bad \in Status /\ bad.error = "failed"
      BY <3>1 DEF Asked, Status, Outcome
    <3>3. Executes(r, "recv")
      BY <1>11 DEF MPI_Recv
    <3> QED BY <3>2, <3>3 DEF Vouched
  <2>2. M # {} => Oldest(M).data = x /\ Oldest(M).data \in Int
    <3>1. \A m \in M : m.data \in Nat
      BY <1>2, Distinct
    <3>2. ASSUME M # {} PROVE Oldest(M) \in M /\ Oldest(M).data = x
      BY <1>11, <3>2, RecvTakes
    <3> QED BY <3>1, <3>2
  <2> HIDE DEF good, bad
  <2>3. CASE M # {} /\ RecvEnds(r, Oldest(M).data, good)
    <3>1. Filled(r, Oldest(M).data)
      BY <2>2, <2>3 DEF Filled
    <3> QED BY <2>0, <2>2, <2>3, <3>1
  <2>4. CASE s \in dead /\ RecvEnds(r, buf[r], bad)
    BY <1>3, <1>9, <2>0, <2>4
  <2>5. CASE s \in dead /\ M # {} /\ buf[r] # Oldest(M).data /\ RecvEnds(r, Torn, bad)
    <3>1. Executes(r, "recv") => Filled(r, Torn)
      BY <1>8, <2>2, <2>5 DEF Filled
    <3>2. Torn \in Int
      BY DEF Torn
    <3> QED BY <2>0, <2>5, <3>1, <3>2
  <2> QED BY <2>1, <2>3, <2>4, <2>5
<1> QED BY <1>10, <1>11

\* RightMessage for one result.
Right(p, e) ==
    LET c == Program[JobOf[p]][e.call]
    IN  /\ e.error = "success" \/ JobAlive(c.peer) => e.data = Expected(JobOf[p], e.call)
        /\ c.call = "wait" => e.source = c.peer

\* Before the first worker has been asked the buffer need not hold anything.
LEMMA BufferAtFirst ==
  ASSUME world' \in SUBSET Proc, Live' \in SUBSET world', NEW p, i'[p] = 1
  PROVE  BufferFits(p)'
<1>1. ASSUME NEW W \in SUBSET Proc, NEW q \in W PROVE Place(JobOf[q], W)[q] \in Nat \ {0}
  <2> DEFINE V == Map!Workers(JobOf[q], W)
  <2>1. q \in V /\ JobOf[q] \in Job
    BY MapAssumption DEF Map!Workers
  <2>2. Cardinality(V) \in Nat /\ Place(JobOf[q], W) \in [V -> 1..Cardinality(V)]
    BY <2>1, Places
  <2> HIDE DEF V
  <2> QED BY <2>1, <2>2
<1>2. \A b : \A q \in Map!Workers(b, Live') : ~(Place(JobOf[q], world')[q] < 1)
  <2>1. \A b : Map!Workers(b, Live') \in SUBSET world'
    BY DEF Map!Workers
  <2> QED BY <1>1, <2>1
<1> QED BY <1>2 DEF BufferFits, Place

\* Outside of MPI_Recv nothing is said of the buffer.
LEMMA BufferAtOther ==
  ASSUME NEW p, at'[p] = at[p], ThisCall(p).call # "recv"
  PROVE  BufferFits(p)'
BY DEF BufferFits, ThisCall

\* When MPI_Recv returns all workers of the peer have been asked.
LEMMA RecvRight ==
  ASSUME TypeInv, Live \in SUBSET world, NEW r \in Proc, Looping(r), LastWorker(r),
         Executes(r, "recv"), NEW d, NEW st, Filled(r, d), Vouched(r, d, st), NEW e,
         e = [call |-> at[r], source |-> st.source, error |-> st.error, data |-> d]
  PROVE  Right(r, e)
<1> DEFINE b == ThisCall(r).peer
<1>1. /\ e.call = at[r] /\ e.error = st.error /\ e.data = d
      /\ Program[JobOf[r]][e.call].peer = b /\ Program[JobOf[r]][e.call].call = "recv"
  BY DEF ThisCall, Executes
<1>2. ASSUME NEW q \in Map!Workers(b, Live) PROVE d = Expected(JobOf[r], at[r])
  <2>1. q \in world /\ JobOf[q] = b
    BY DEF Map!Workers
  <2>2. Place(JobOf[q], world)[q] <= Len(rank_list[b])
    BY <2>1, PlaceOf
  <2> QED BY <2>2 DEF Filled, LastWorker
<1>3. JobAlive(b) => \E q : q \in Map!Workers(b, Live)
  BY DEF JobAlive
<1>4. e.error = "success" => d = Expected(JobOf[r], at[r])
  BY <1>1 DEF Vouched
<1> HIDE DEF b
<1> QED BY <1>1, <1>2, <1>3, <1>4 DEF Right

\* An iteration of a loop: what it returns and what it leaves in the buffer.
LEMMA LoopReturns ==
  ASSUME MessagesBetweenCollectives, ChannelInv, NEW r \in Proc, SkipIgnored(r) \/ MPI_Recv(r)
  PROVE  /\ buf' \in [Proc -> Int] /\ status' \in [Proc -> Status]
         /\ got' \in [Proc -> Seq(Result)]
         /\ \A q \in Proc \ {r} : buf'[q] = buf[q] /\ status'[q] = status[q]
         /\ UNCHANGED got \/ \E e \in Result : Returned(r, e) /\ Right(r, e)
         /\ BufferFits(r)' /\ StatusFits(r)'
<1>1. Step(r) \/ Crash(r)
  BY DEF Step
<1>2. /\ TypeInv /\ NetType /\ r \in Live /\ Live \in SUBSET world
      /\ world \in SUBSET Proc /\ world' = world /\ Live' \in SUBSET Live
  BY <1>1, ChannelBefore
<1>3. Looping(r) /\ Advance(r)
  BY DEF SkipIgnored, MPI_Recv, Looping
<1>4. UNCHANGED dead
  BY DEF SkipIgnored, MPI_Recv
<1>5. PICK d \in Int, st \in Status :
         /\ RecvEnds(r, d, st) /\ Vouched(r, d, st)
         /\ Executes(r, "recv") => Filled(r, d)
  BY RecvFills
<1> DEFINE e == [call |-> at[r], source |-> st.source, error |-> st.error, data |-> d]
<1>6. /\ e \in Result
      /\ \/ /\ Executes(r, "recv") /\ LastWorker(r) /\ Returned(r, e)
            /\ buf' = [buf EXCEPT ![r] = Nothing]
            /\ status' = [status EXCEPT ![r] = NoStatus]
         \/ /\ ~(Executes(r, "recv") /\ LastWorker(r)) /\ UNCHANGED got
            /\ buf' = [buf EXCEPT ![r] = d]
            /\ status' = [status EXCEPT ![r] = st]
      /\ buf' \in [Proc -> Int] /\ status' \in [Proc -> Status]
      /\ got' \in [Proc -> Seq(Result)]
      /\ \A q \in Proc \ {r} : buf'[q] = buf[q] /\ status'[q] = status[q]
  BY <1>2, <1>3, <1>5, IterationEnds
<1>7. Executes(r, "recv") /\ LastWorker(r) => Right(r, e)
  BY <1>2, <1>3, <1>5, RecvRight
<1> HIDE DEF e
<1>8. /\ LastWorker(r) => i'[r] = 1
      /\ ~LastWorker(r) => i'[r] = i[r] + 1 /\ at'[r] = at[r]
  BY <1>2, <1>3 DEF Advance, TypeInv, Local
<1>9. BufferFits(r)'
  <2>1. CASE LastWorker(r)
    BY <1>2, <1>8, <2>1, BufferAtFirst
  <2>2. CASE ~LastWorker(r) /\ ~Executes(r, "recv")
    <3>1. ThisCall(r).call # "recv"
      BY <1>2, <1>3, <2>2, LoopIndex DEF Executes
    <3> QED BY <1>8, <2>2, <3>1, BufferAtOther
  <2>3. CASE ~LastWorker(r) /\ Executes(r, "recv")
    <3>1. Filled(r, d) /\ buf'[r] = d
      BY <1>2, <1>5, <1>6, <2>3 DEF NetType
    <3>2. Live' = Live /\ ThisCall(r)' = ThisCall(r)
      BY <1>4, <1>8, <2>3 DEF Live, ThisCall
    <3>3. \A q \in world : Place(JobOf[q], world)[q] \in Nat /\ i[r] \in Nat
      BY <1>2, PlaceOf DEF TypeInv, Local
    <3>4. ASSUME NEW q \in Map!Workers(ThisCall(r).peer, Live), Place(JobOf[q], world)[q] < i[r] + 1
          PROVE  d = Expected(JobOf[r], at[r])
      <4>1. q \in world
        BY <1>2 DEF Map!Workers
      <4>2. Place(JobOf[q], world)[q] <= i[r]
        BY <3>3, <3>4, <4>1
      <4> QED BY <3>1, <4>2 DEF Filled
    <3>5. ASSUME NEW q \in Map!Workers(ThisCall(r)'.peer, Live'),
                 Place(JobOf[q], world')[q] < i'[r]
          PROVE  buf'[r] = Expected(JobOf[r], at'[r])
      BY <1>2, <1>8, <2>3, <3>1, <3>2, <3>4, <3>5
    <3> QED BY <3>5 DEF BufferFits, Place
  <2> QED BY <2>1, <2>2, <2>3
<1>10. StatusFits(r)'
  <2>1. buf \in [Proc -> Int] /\ status \in [Proc -> Status]
    BY <1>2 DEF NetType
  <2>2. CASE Executes(r, "recv") /\ LastWorker(r)
    <3>1. status'[r] = NoStatus
      BY <1>6, <2>1, <2>2
    <3> QED BY <3>1 DEF StatusFits, NoStatus
  <2>3. CASE ~(Executes(r, "recv") /\ LastWorker(r))
    <3>1. status'[r] = st /\ buf'[r] = d
      BY <1>6, <2>1, <2>3
    <3>2. ASSUME st.error = "success"
          PROVE  /\ at'[r] = at[r] /\ at[r] <= Len(Program[JobOf[r]])
                 /\ ThisCall(r).call = "recv" /\ d = Expected(JobOf[r], at[r])
      BY <1>5, <1>8, <2>3, <3>2 DEF Vouched, Executes, Running
    <3>3. ASSUME status'[r].error = "success"
          PROVE  /\ at'[r] <= Len(Program[JobOf[r]])
                 /\ Program[JobOf[r]][at'[r]].call = "recv"
                 /\ buf'[r] = Expected(JobOf[r], at'[r])
      BY <3>1, <3>2, <3>3 DEF ThisCall
    <3> QED BY <3>3 DEF StatusFits, ThisCall
  <2> QED BY <2>2, <2>3
<1> QED BY <1>6, <1>7, <1>9, <1>10

\* Outside of MPI_Recv the status is not good, and stays so.
LEMMA StatusAtOther ==
  ASSUME NEW p, StatusFits(p), ThisCall(p).call # "recv", status'[p] = status[p]
  PROVE  StatusFits(p)'
BY DEF StatusFits

\* A return from MPI_Wait: the message is the one it is for.
LEMMA WaitReturned ==
  ASSUME WaitsBetweenCollectives, MessagesBetweenCollectives, ChannelInv,
         NEW r \in Proc, MPI_Wait(r)
  PROVE  /\ UNCHANGED <<buf, status>> /\ UNCHANGED i /\ i[r] = 1
         /\ ThisCall(r).call # "recv"
         /\ net' \in SUBSET net
         /\ orphans' \in SUBSET Orphan /\ \A h \in orphans' : h.epoch <= epoch
         /\ UNCHANGED got \/ \E e \in Result : Returned(r, e) /\ Right(r, e)
<1>1. Step(r)
  BY DEF Step
<1>2. /\ TypeInv /\ NetType /\ Live \in SUBSET world /\ world \in SUBSET Proc
      /\ world' = world /\ r \in Live /\ r \in world
  BY <1>1, ChannelBefore
<1>3. /\ Executes(r, "wait") /\ UNCHANGED <<i, buf, status>>
      /\ ThisCall(r).call = "wait"
  BY WaitShape DEF Executes
<1>4. PICK done, failed : WaitStep(r, done, failed)
  BY WaitShape
<1>5. /\ req[r].open \in SUBSET Nat
      /\ req[r].open # {} => req[r].epoch = epoch
      /\ \A k \in req[r].open :
            /\ Source(r, k).proc \in world /\ JobOf[Source(r, k).proc] = ThisCall(r).peer
            /\ Source(r, k).rank = Map!Rank(Source(r, k).proc, world)
  BY <1>2, <1>3, WaitSources
<1>6. i[r] = 1
  BY <1>2, <1>3, WaitDone
<1>7. at[r] \in Nat /\ epoch \in Nat /\ ThisCall(r).peer \in Job
      /\ orphans \in SUBSET Orphan /\ \A h \in orphans : h.epoch <= epoch
  BY <1>2, <1>3, CallType DEF TypeInv, Local, Shared, NetType, Executes
<1>8. done \in SUBSET Arrived(r)
  BY <1>4 DEF WaitStep
<1>9. CASE UNCHANGED <<net, orphans, got>>
  BY <1>3, <1>6, <1>7, <1>9
<1>10. CASE WaitRetries(r, done, failed)
  <2>1. net' \in SUBSET net /\ UNCHANGED <<orphans, got>>
    BY <1>10 DEF WaitRetries
  <2> QED BY <1>3, <1>6, <1>7, <2>1
<1>11. ASSUME NEW late, NEW posted, NEW k, WaitReturns(r, done, failed, late, posted, k)
       PROVE  /\ net' \in SUBSET net
              /\ orphans' \in SUBSET Orphan /\ \A h \in orphans' : h.epoch <= epoch
              /\ \E e \in Result : Returned(r, e) /\ Right(r, e)
  <2> DEFINE Hole(l) == [from |-> Source(r, l).proc, to |-> r,
                         epoch |-> req[r].epoch, call |-> at[r]]
  <2>1. net' \in SUBSET net /\ orphans' = orphans \union {Hole(l) : l \in posted}
    BY <1>11 DEF WaitReturns
  <2>2. posted \in SUBSET req[r].open
    BY <1>11 DEF WaitReturns
  <2>3. \A l \in posted : Hole(l) \in Orphan /\ Hole(l).epoch = epoch
    BY <1>2, <1>5, <1>7, <2>2 DEF Orphan
  <2> HIDE DEF Hole
  <2>4. orphans' \in SUBSET Orphan /\ \A h \in orphans' : h.epoch <= epoch
    BY <1>7, <2>1, <2>3
  <2> DEFINE q == Source(r, k).proc
             M == Messages(q, r, epoch)
             e == [call |-> at[r], source |-> rank_2_job[Source(r, k).rank],
                   error |-> "success", data |-> Oldest(Inbox(r, k)).data]
  <2>5. Returned(r, e)
    BY <1>11 DEF WaitReturns, Returned
  <2>6. k \in req[r].open /\ Inbox(r, k) # {}
    BY <1>8, <1>11 DEF WaitReturns, Arrived
  <2>7. q \in world /\ JobOf[q] = ThisCall(r).peer /\ Source(r, k).rank = Map!Rank(q, world)
        /\ M # {}
    BY <1>5, <2>6 DEF Inbox
  <2>8. Map!Rank(q, world) \notin ignore[r]
    <3>1. Source(r, k).rank \notin ignore'[r]
      BY <1>11 DEF WaitReturns
    <3>2. ignore[r] \in SUBSET ignore'[r]
      BY <1>1, <1>2, IgnoreGrows
    <3> QED BY <2>7, <3>1, <3>2
  <2>9. rank_2_job[Source(r, k).rank] = ThisCall(r).peer
    BY <1>2, <2>7 DEF TypeInv, Shared, ListInv
  <2>10. Oldest(M) \in M /\ Oldest(M).data = Expected(JobOf[r], at[r]) /\ Inbox(r, k) = M
    <3>1. r \in Live /\ Executes(r, "wait") /\ world' = world /\ k \in req[r].open
      BY <1>2, <1>3, <2>6
    <3>2. ASSUME NEW x, x = q, NEW N, N = M
          PROVE  Oldest(N) \in N /\ Oldest(N).data = Expected(JobOf[r], at[r])
                 /\ Inbox(r, k) = N
      <4>1. /\ x = Source(r, k).proc /\ Map!Rank(x, world) \notin ignore[r]
            /\ N = Messages(x, r, epoch) /\ N # {}
        BY <2>7, <2>8, <3>2
      <4> QED BY <3>1, <4>1, WaitTakes, Zenon
    <3> QED BY <3>2
  <2>11. Oldest(M).data \in Nat
    BY <1>2, <2>10, Distinct
  <2>12. e.call = at[r] /\ e.source = ThisCall(r).peer /\ e.data = Expected(JobOf[r], at[r])
    BY <2>9, <2>10
  <2>13. e \in Result
    BY <1>7, <2>9, <2>10, <2>11 DEF Result, Outcome
  <2> HIDE DEF e
  <2>14. Right(r, e)
    BY <2>12 DEF Right, ThisCall
  <2> QED BY <2>1, <2>4, <2>5, <2>13, <2>14
<1> QED BY <1>3, <1>4, <1>5, <1>6, <1>9, <1>10, <1>11, WaitOutcome

\* A step of one process: what its receives return, and its buffer.
LEMMA StepReturns ==
  ASSUME WaitsBetweenCollectives, MessagesBetweenCollectives, ChannelInv,
         NEW r \in Proc, Step(r) \/ Crash(r)
  PROVE  /\ buf' \in [Proc -> Int] /\ status' \in [Proc -> Status]
         /\ got' \in [Proc -> Seq(Result)]
         /\ \A q \in Proc \ {r} : buf'[q] = buf[q] /\ status'[q] = status[q]
         /\ UNCHANGED got \/ \E e \in Result : Returned(r, e) /\ Right(r, e)
         /\ r \in Live' => BufferFits(r)' /\ StatusFits(r)'
<1>1. /\ TypeInv /\ NetType /\ Live \in SUBSET world /\ world \in SUBSET Proc
      /\ world' = world /\ Live' \in SUBSET world'
  <2>1. /\ TypeInv /\ NetType /\ Live \in SUBSET world /\ world \in SUBSET Proc
        /\ world' = world /\ Live' \in SUBSET Live
    BY ChannelBefore
  <2> QED BY <2>1
<1>2. /\ buf \in [Proc -> Int] /\ status \in [Proc -> Status]
      /\ got \in [Proc -> Seq(Result)]
  BY <1>1 DEF NetType
<1> DEFINE Goal == /\ buf' \in [Proc -> Int] /\ status' \in [Proc -> Status]
                   /\ got' \in [Proc -> Seq(Result)]
                   /\ \A q \in Proc \ {r} : buf'[q] = buf[q] /\ status'[q] = status[q]
                   /\ UNCHANGED got \/ \E e \in Result : Returned(r, e) /\ Right(r, e)
                   /\ r \in Live' => BufferFits(r)' /\ StatusFits(r)'
<1>10. StatusFits(r)
  <2>1. r \in Live
    BY ChannelBefore
  <2> QED BY <2>1 DEF ChannelInv
<1>3. ASSUME UNCHANGED <<buf, status, got>>, r \in Live' => BufferFits(r)' /\ StatusFits(r)'
      PROVE  Goal
  BY <1>2, <1>3
<1>4. ASSUME SkipIgnored(r) \/ MPI_Recv(r) PROVE Goal
  BY <1>4, LoopReturns
<1>5. ASSUME MPI_Send(r) \/ MPI_Irecv(r) PROVE Goal
  <2>1. Looping(r) /\ ThisCall(r).call # "recv" /\ UNCHANGED <<buf, status, got>>
    BY <1>5 DEF MPI_Send, MPI_Irecv, Looping, Executes
  <2>2. Advance(r) \/ UNCHANGED at
    BY <1>5 DEF MPI_Send, MPI_Irecv
  <2>3. i'[r] = 1 \/ at'[r] = at[r]
    BY <1>1, <2>2 DEF Advance, TypeInv, Local
  <2>4. BufferFits(r)'
    BY <1>1, <2>1, <2>3, BufferAtFirst, BufferAtOther
  <2>5. StatusFits(r)'
    BY <1>10, <2>1, StatusAtOther
  <2> QED BY <1>3, <2>1, <2>4, <2>5
<1>6. ASSUME MPI_Wait(r) PROVE Goal
  <2>1. /\ UNCHANGED <<buf, status>> /\ UNCHANGED i /\ i[r] = 1
        /\ ThisCall(r).call # "recv"
        /\ UNCHANGED got \/ \E e \in Result : Returned(r, e) /\ Right(r, e)
    BY <1>6, WaitReturned
  <2>2. BufferFits(r)'
    BY <1>1, <2>1, BufferAtFirst
  <2>3. got' \in [Proc -> Seq(Result)]
    BY <1>2, <2>1, ReturnedType
  <2>4. StatusFits(r)'
    BY <1>10, <2>1, StatusAtOther
  <2> QED BY <1>2, <2>1, <2>2, <2>3, <2>4
<1>7. ASSUME MPI_Comm_agree(r) PROVE Goal
  <2>1. UNCHANGED <<at, buf, status, got>> /\ ThisCall(r).call # "recv"
    BY <1>7 DEF MPI_Comm_agree, recvVars, Executes
  <2>2. BufferFits(r)' /\ StatusFits(r)'
    BY <1>10, <2>1, BufferAtOther, StatusAtOther
  <2> QED BY <1>3, <2>1, <2>2
<1>8. ASSUME Crash(r) PROVE Goal
  <2>1. UNCHANGED <<buf, status, got>> /\ r \notin Live'
    BY <1>8 DEF Crash, recvVars, Live
  <2> QED BY <1>3, <2>1
<1> HIDE DEF Goal
<1>9. Goal
  BY <1>4, <1>5, <1>6, <1>7, <1>8 DEF Step
<1> QED BY <1>9 DEF Goal

\* A step of one process: what is on its way keeps its type.
LEMMA StepNet ==
  ASSUME WaitsBetweenCollectives, MessagesBetweenCollectives, ChannelInv,
         NEW r \in Proc, Step(r) \/ Crash(r)
  PROVE  /\ net' \in SUBSET Message /\ \A m \in net' : m.epoch <= epoch
         /\ orphans' \in SUBSET Orphan /\ \A h \in orphans' : h.epoch <= epoch
<1>1. /\ TypeInv /\ world \in SUBSET Proc /\ NetType
  BY ChannelBefore
<1>2. /\ net \in SUBSET Message /\ \A m \in net : m.epoch <= epoch
      /\ orphans \in SUBSET Orphan /\ \A h \in orphans : h.epoch <= epoch
  BY <1>1 DEF NetType
<1> DEFINE Goal == /\ net' \in SUBSET Message /\ \A m \in net' : m.epoch <= epoch
                   /\ orphans' \in SUBSET Orphan /\ \A h \in orphans' : h.epoch <= epoch
<1>3. ASSUME net' \in SUBSET net, orphans' \in SUBSET orphans PROVE Goal
  BY <1>2, <1>3
<1>4. ASSUME MPI_Send(r) PROVE Goal
  <2> DEFINE m == [from |-> r, to |-> Peer(r), epoch |-> epoch, data |-> at[r]]
  <2>1. Looping(r)
    BY <1>4 DEF MPI_Send, Looping
  <2>2. Peer(r) \in Proc /\ at[r] \in Nat /\ epoch \in Nat
    BY <1>1, <2>1, LoopIndex DEF TypeInv, Local, Shared
  <2>3. m \in Message /\ m.epoch <= epoch
    BY <2>2 DEF Message
  <2>4. orphans' \in SUBSET orphans /\ (net' = net \/ net' = net \union {m})
    <3>1. \/ \E h : orphans' = orphans \ {h} /\ UNCHANGED net
          \/ net' = net \union {m} /\ UNCHANGED orphans
          \/ UNCHANGED <<net, orphans>>
      BY <1>4, Zenon DEF MPI_Send
    <3> QED BY <3>1
  <2> HIDE DEF m
  <2> QED BY <1>2, <2>3, <2>4
<1>5. ASSUME MPI_Wait(r) PROVE Goal
  BY <1>2, <1>5, WaitReturned
<1>6. ASSUME MPI_Recv(r) PROVE Goal
  <2>1. UNCHANGED orphans /\ ((\E m : net' = net \ {m}) \/ UNCHANGED net)
    BY <1>6, Zenon DEF MPI_Recv
  <2> QED BY <1>3, <2>1
<1>7. ASSUME SkipIgnored(r) \/ MPI_Irecv(r) \/ MPI_Comm_agree(r) \/ Crash(r) PROVE Goal
  <2>1. UNCHANGED <<net, orphans>>
    BY <1>7 DEF SkipIgnored, MPI_Irecv, MPI_Comm_agree, Crash, recvVars
  <2> QED BY <1>3, <2>1
<1> HIDE DEF Goal
<1>8. Goal
  BY <1>4, <1>5, <1>6, <1>7 DEF Step
<1> QED BY <1>8 DEF Goal

\* What the receives have returned stays right: no process comes back.
LEMMA RightStays ==
  ASSUME got \in [Proc -> Seq(Result)], RightMessage, Live \in SUBSET Proc, Live' \in SUBSET Live,
         UNCHANGED got \/ \E r \in Proc, e \in Result : Returned(r, e) /\ Right(r, e)
  PROVE  RightMessage'
<1>1. \A p \in Live : \A n \in DOMAIN got[p] : Right(p, got[p][n])
  BY DEF RightMessage, Right
<1>2. ASSUME NEW p, NEW e, Right(p, e) PROVE Right(p, e)'
  <2>1. ASSUME NEW j, JobAlive(j)' PROVE JobAlive(j)
    BY <2>1 DEF JobAlive, Map!Workers
  <2> QED BY <1>2, <2>1 DEF Right
<1>3. ASSUME NEW p \in Live', NEW n \in DOMAIN got'[p], NEW x, x = got'[p][n]
      PROVE  Right(p, x)'
  <2>1. (n \in DOMAIN got[p] /\ got'[p][n] = got[p][n]) \/ Right(p, got'[p][n])
    <3>1. CASE UNCHANGED got
      BY <1>3, <3>1
    <3>2. ASSUME NEW r \in Proc, NEW e \in Result, Returned(r, e), Right(r, e)
          PROVE  (n \in DOMAIN got[p] /\ got'[p][n] = got[p][n]) \/ Right(p, got'[p][n])
      <4>1. got'[p] = IF p = r THEN Append(got[r], e) ELSE got[p]
        BY <3>2 DEF Returned
      <4>2. CASE p # r
        BY <1>3, <4>1, <4>2
      <4>3. CASE p = r
        <5>1. got[r] \in Seq(Result) /\ n \in DOMAIN Append(got[r], e)
          BY <1>3, <4>1, <4>3
        <5>2. \/ n \in DOMAIN got[r] /\ Append(got[r], e)[n] = got[r][n]
              \/ Append(got[r], e)[n] = e
          BY ONLY <3>2, <5>1
        <5> QED BY <3>2, <4>1, <4>3, <5>2
      <4> QED BY <4>2, <4>3
    <3> QED BY <3>1, <3>2
  <2>2. Right(p, x)
    BY <1>1, <1>3, <2>1
  <2> QED BY <1>2, <2>2
<1>4. ASSUME NEW p \in Live', NEW n \in DOMAIN got'[p]
      PROVE  /\ \/ got'[p][n].error = "success"
                \/ Map!Workers(Program[JobOf[p]][got'[p][n].call].peer, Live') # {}
                => got'[p][n].data = Expected(JobOf[p], got'[p][n].call)
             /\ Program[JobOf[p]][got'[p][n].call].call = "wait"
                => got'[p][n].source = Program[JobOf[p]][got'[p][n].call].peer
  <2>1. PICK x : x = got'[p][n]
    OBVIOUS
  <2>2. Right(p, x)'
    BY ONLY <1>3, <1>4, <2>1
  <2> QED BY ONLY <2>1, <2>2, Zenon DEF Right, JobAlive
<1> QED BY ONLY <1>4, Zenon DEF RightMessage, JobAlive

\* ChannelInv and RightMessage are inductive together with what they rest on.
LEMMA ChannelStep ==
  ASSUME WaitsBetweenCollectives, MessagesBetweenCollectives, ChannelInv, RightMessage,
         [Next]_vars
  PROVE  ChannelInv' /\ RightMessage'
<1>1. /\ RequestInv /\ NetType /\ SameSection
      /\ \A p \in Live : BufferFits(p) /\ StatusFits(p)
  BY DEF ChannelInv
<1>2. /\ TypeInv /\ dead \in SUBSET Proc /\ world \in SUBSET Proc /\ epoch \in Nat
      /\ Live \in SUBSET Proc /\ Live \in SUBSET world /\ at \in [Proc -> Nat]
      /\ buf \in [Proc -> Int] /\ status \in [Proc -> Status]
      /\ got \in [Proc -> Seq(Result)]
  BY <1>1 DEF RequestInv, IgnoreInv, TypeInv, Shared, Local, Live, NetType
<1>3. RequestInv' /\ SameSection' /\ Channels'
  BY <1>1, RequestStep, SectionStep, ChannelsStep
<1>4. world' \in SUBSET Proc /\ Live' \in SUBSET world' /\ Live' \in SUBSET Live
  <2>1. dead \in SUBSET dead'
    BY <1>2, StepShape
  <2> QED BY <1>3, <2>1 DEF RequestInv, IgnoreInv, Live
<1> DEFINE Goal == /\ NetType' /\ RightMessage'
                   /\ \A p \in Live' : BufferFits(p)' /\ StatusFits(p)'
<1>5. ASSUME NEW r \in Proc, Step(r) \/ Crash(r) PROVE Goal
  <2>1. /\ buf' \in [Proc -> Int] /\ status' \in [Proc -> Status]
        /\ got' \in [Proc -> Seq(Result)]
        /\ \A q \in Proc \ {r} : buf'[q] = buf[q] /\ status'[q] = status[q]
        /\ UNCHANGED got \/ \E e \in Result : Returned(r, e) /\ Right(r, e)
        /\ r \in Live' => BufferFits(r)' /\ StatusFits(r)'
    BY <1>5, StepReturns
  <2>2. /\ world' = world /\ epoch' = epoch
        /\ \A q \in Proc \ {r} : at'[q] = at[q] /\ i'[q] = i[q]
    BY <1>5, ChannelBefore
  <2>3. NetType'
    <3>1. /\ net' \in SUBSET Message /\ \A m \in net' : m.epoch <= epoch
          /\ orphans' \in SUBSET Orphan /\ \A h \in orphans' : h.epoch <= epoch
      BY <1>5, StepNet
    <3> QED BY <2>1, <2>2, <3>1 DEF NetType
  <2>4. RightMessage'
    BY <1>2, <1>4, <2>1, RightStays
  <2>5. ASSUME NEW p \in Live', p # r PROVE BufferFits(p)' /\ StatusFits(p)'
    <3>1. /\ at'[p] = at[p] /\ i'[p] = i[p] /\ buf'[p] = buf[p] /\ status'[p] = status[p]
          /\ BufferFits(p) /\ StatusFits(p)
      BY <1>1, <1>2, <1>4, <2>1, <2>2, <2>5
    <3>2. ThisCall(p)' = ThisCall(p)
      BY <3>1 DEF ThisCall
    <3>3. \A b : Map!Workers(b, Live') \in SUBSET Map!Workers(b, Live)
      BY <1>4 DEF Map!Workers
    <3>4. /\ at'[p] <= Len(Program[JobOf[p]]) /\ ThisCall(p)'.call = "recv" =>
               \A q \in Map!Workers(ThisCall(p)'.peer, Live') :
                  Place(JobOf[q], world')[q] < i'[p] => buf'[p] = Expected(JobOf[p], at'[p])
      BY <2>2, <3>1, <3>2, <3>3 DEF BufferFits
    <3>5. BufferFits(p)'
      BY <3>4 DEF BufferFits, Place
    <3>6. StatusFits(p)'
      BY <3>1, <3>2 DEF StatusFits
    <3> QED BY <3>5, <3>6
  <2> QED BY <2>1, <2>3, <2>4, <2>5
<1>6. ASSUME AgreeSucceeds \/ AgreeFails \/ Shrink PROVE Goal
  <2>1. /\ \A p \in Live : phase[p] # "run"
        /\ UNCHANGED <<i, net, buf, status, orphans, got>>
    BY <1>2, <1>6, JointStep
  <2>2. \A p \in Live : i'[p] = 1
    BY <1>2, <2>1 DEF TypeInv, Local, InLoop
  <2>7. \A p \in Live : ThisCall(p).call # "recv"
    BY <1>1, <1>2, <2>1 DEF RequestInv, InCollective
  <2>3. ASSUME NEW p \in Live' PROVE BufferFits(p)' /\ StatusFits(p)'
    <3>1. BufferFits(p)'
      BY <1>4, <2>2, BufferAtFirst
    <3>2. StatusFits(p)'
      BY <1>1, <1>4, <2>1, <2>7, StatusAtOther
    <3> QED BY <3>1, <3>2
  <2>4. epoch' \in Nat /\ epoch <= epoch'
    <3>1. \/ UNCHANGED mapVars
          \/ \E F \in SUBSET (dead \intersect world) : update_job_list(world \ F)
      BY <1>2, StepShape
    <3>2. epoch' = epoch \/ epoch' = epoch + 1
      BY <3>1 DEF mapVars, update_job_list
    <3> QED BY <1>2, <3>2
  <2>5. NetType'
    <3>1. /\ net \in SUBSET Message /\ \A m \in net : m.epoch <= epoch /\ m.epoch \in Nat
          /\ orphans \in SUBSET Orphan /\ \A h \in orphans : h.epoch <= epoch /\ h.epoch \in Nat
      BY <1>1 DEF NetType, Message, Orphan
    <3>2. (\A m \in net : m.epoch <= epoch') /\ \A h \in orphans : h.epoch <= epoch'
      BY <1>2, <2>4, <3>1
    <3> QED BY <1>2, <2>1, <3>1, <3>2 DEF NetType
  <2>6. RightMessage'
    BY <1>2, <1>4, <2>1, RightStays
  <2> QED BY <2>3, <2>5, <2>6
<1>7. ASSUME Finished \/ UNCHANGED vars PROVE Goal
  <2>1. UNCHANGED <<dead, epoch, world, at, i, net, buf, status, orphans, got>>
    BY <1>7 DEF Finished, vars, mapVars, recvVars
  <2>2. \A p \in Live' : BufferFits(p)' /\ StatusFits(p)'
    BY <1>1, <1>4, <2>1 DEF BufferFits, StatusFits, ThisCall, Live, Place
  <2>3. NetType'
    BY <1>1, <2>1 DEF NetType
  <2>4. RightMessage'
    BY <1>2, <1>4, <2>1, RightStays
  <2> QED BY <2>2, <2>3, <2>4
<1> HIDE DEF Goal
<1>8. Goal
  BY <1>5, <1>6, <1>7 DEF Next
<1> QED BY <1>3, <1>8 DEF Goal, ChannelInv

\* Nothing is on its way before the first call.
LEMMA FirstChannels == Init => ChannelInv /\ RightMessage
<1> SUFFICES ASSUME Init PROVE ChannelInv /\ RightMessage
  OBVIOUS
<1>1. /\ net = {} /\ orphans = {} /\ epoch = 0 /\ world = Proc /\ dead = {}
      /\ at = [p \in Proc |-> 1] /\ i = [p \in Proc |-> 1]
      /\ buf = [p \in Proc |-> Nothing] /\ got = [p \in Proc |-> <<>>]
      /\ status = [p \in Proc |-> NoStatus]
  BY DEF Init
<1>2. RequestInv
  BY FirstRequests
<1>3. TypeInv /\ Live = Proc
  BY <1>1, <1>2 DEF RequestInv, Live
<1>4. NetType
  <2>1. <<>> \in Seq(Result) /\ Nothing \in Int /\ NoStatus \in Status
    BY DEF Nothing, NoStatus, Status, Outcome
  <2> QED BY <1>1, <2>1 DEF NetType
<1>5. SameSection
  <2>1. \A p \in Proc : Passes(p) = Section(JobOf[p], 0)
    BY <1>1 DEF Passes
  <2>2. ASSUME NEW j PROVE Section(j, 0) = 0
    <3>1. {l \in 1..0 : Program[j][l].call = "collective"} = {}
      OBVIOUS
    <3> QED BY <3>1, FS_EmptySet DEF Section
  <2> QED BY <1>1, <1>3, <2>1, <2>2 DEF SameSection
<1>6. ASSUME NEW p \in Live PROVE BufferFits(p)
  <2>1. \A q \in world : ~(Place(JobOf[q], world)[q] < 1)
    BY <1>3, PlaceOf
  <2>2. \A b : Map!Workers(b, Live) \in SUBSET world
    BY <1>1, <1>3 DEF Map!Workers
  <2> QED BY <1>1, <1>3, <2>1, <2>2 DEF BufferFits
<1>9. ASSUME NEW p \in Live PROVE StatusFits(p)
  BY <1>1, <1>3 DEF StatusFits, NoStatus
<1>7. ASSUME NEW p \in Proc, NEW q \in Proc PROVE Channel(q, p)
  <2>1. Messages(q, p, epoch) = {} /\ Holes(q, p, epoch) = {}
    BY <1>1 DEF Messages, Holes
  <2>2. ASSUME NEW A \in SUBSET (Nat \ {0}), NEW c \in Nat \ {0} PROVE Done(1, 1, c, A) = {}
    <3>1. ~(c < 1) /\ \A x \in A : ~(x < 1)
      OBVIOUS
    <3> QED BY <3>1 DEF Done
  <2>3. \A r \in Proc : Place(JobOf[r], world)[r] \in Nat \ {0} /\ JobOf[r] \in Job
    BY <1>1, <1>3, PlaceOf
  <2>4. SentTo(q, p) = {}
    <3>1. Sends(JobOf[q], JobOf[p]) \in SUBSET (Nat \ {0})
      BY <2>3, CallSets
    <3>2. SentTo(q, p) = Done(1, 1, Place(JobOf[p], world)[p], Sends(JobOf[q], JobOf[p]))
      BY <1>1 DEF SentTo
    <3> QED BY <2>2, <2>3, <3>1, <3>2
  <2>5. ReceivedFrom(p, q) = {}
    <3>1. Receives(JobOf[p], JobOf[q]) \in SUBSET (Nat \ {0})
      BY <2>3, CallSets
    <3>2. ReceivedFrom(p, q) = Done(1, 1, Place(JobOf[q], world)[q], Receives(JobOf[p], JobOf[q]))
      BY <1>1 DEF ReceivedFrom
    <3> QED BY <2>2, <2>3, <3>1, <3>2
  <2>6. \A f, g : Unmet({}, {}, f, g) = {}
    BY DEF Unmet
  <2>7. {m.data : m \in {}} = {} /\ {h.call : h \in {}} = {}
    OBVIOUS
  <2>8. Balance({}, {}, JobOf[q], JobOf[p], {}, {})
    BY <2>6, <2>7 DEF Balance
  <2> QED BY <2>1, <2>4, <2>5, <2>8 DEF Channel
<1>8. RightMessage
  BY <1>1, <1>3 DEF RightMessage
<1> QED BY <1>1, <1>2, <1>3, <1>4, <1>5, <1>6, <1>7, <1>8, <1>9 DEF ChannelInv, Channels

\* Whichever processes fail, and whenever they do, MPI_Recv and MPI_Wait
\* return the message they are for if they report success or the sending job
\* has a live worker: the messages of the dead communicator, of workers that
\* failed and of receives that were given up never take its place.  And the
\* source that MPI_Wait reports is the job it was asked for.
THEOREM RightMessageHolds ==
  ASSUME WaitsBetweenCollectives, MessagesBetweenCollectives
  PROVE  Spec => []RightMessage
<1> DEFINE Inv == ChannelInv /\ RightMessage
<1>1. Init => Inv
  BY FirstChannels
<1>2. Inv /\ [Next]_vars => Inv'
  BY ChannelStep
<1>3. Inv => RightMessage
  OBVIOUS
<1> QED BY <1>1, <1>2, <1>3, PTL DEF Spec

=============================================================================

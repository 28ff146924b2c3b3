------------------------ MODULE FaultSelectorProofs ------------------------
(***************************************************************************)
(* Theorems about FaultSelector, for every map in which a rank stands in   *)
(* one place, every option of the selector and any number of draws.        *)
(***************************************************************************)
EXTENDS FaultSelector, SequenceTheorems, TLAPS

\* The rank a draw comes up with, of a job and a place that are not thrown
\* away, is a rank of the map.
LEMMA DrawnRank ==
  ASSUME TypeOK, NEW j \in Job, NEW k \in 1..2, ~Spared(j, k)
  PROVE  RepMap[j][k] \in Rank
<1>1. RepMap[j] \in Rank \X (Rank \union {-1})
  BY SelectorAssumption DEF TypeOK
<1>2. RepMap[j][k] # -1
  BY <1>1 DEF Spared
<1> QED BY <1>1, <1>2

\* Every step keeps the type of every variable.
LEMMA TypeStep == TypeOK /\ [Next]_vars => TypeOK'
<1> SUFFICES ASSUME TypeOK, [Next]_vars PROVE TypeOK'
  OBVIOUS
<1> USE DEF TypeOK
<1>1. ASSUME NEW j \in Job, NEW k \in 1..2, getNew(j, k) PROVE TypeOK'
  <2> DEFINE r == RepMap[j][k]
  <2>1. r \in Rank /\ drawn < Intervals
    BY <1>1, DrawnRank DEF getNew
  <2>2. UNCHANGED <<opts, RepMap, phase, killed, jobs, remaps>>
    BY <1>1 DEF getNew
  <2>3. CASE AlreadyQueued(r)
    <3> HIDE DEF r
    <3>1. cnt' \in 0..5 /\ drawn' \in 0..Intervals
      BY <2>1, <2>3, SelectorAssumption DEF AlreadyQueued
    <3> QED BY <2>2, <2>3, <3>1 DEF AlreadyQueued
  <2>4. CASE Queue(r)
    <3> HIDE DEF r
    <3>1. cnt' \in 0..5 /\ drawn' \in 0..Intervals
      BY <2>1, <2>4, SelectorAssumption DEF Queue
    <3>2. RankQueued' \subseteq Rank /\ queue' \in Seq(Rank)
      BY <2>1, <2>4, AppendProperties DEF Queue
    <3> QED BY <2>2, <3>1, <3>2
  <2> QED BY <1>1, <2>3, <2>4 DEF getNew
<1>2. CASE NextN
  BY <1>2 DEF NextN
<1>3. CASE kill
  <2>1. queue # <<>> /\ Head(queue) \in Rank /\ Tail(queue) \in Seq(Rank)
    BY <1>3, HeadTailProperties DEF kill
  <2> QED BY <1>3, <2>1 DEF kill
<1>4. ASSUME NEW i \in Job, NEW j \in Job, Remap(i, j) PROVE TypeOK'
  <2>1. jobs[i] \in Rank \X (Rank \union {-1}) /\ jobs[j] \in Rank \X (Rank \union {-1})
    OBVIOUS
  <2>2. i # j /\ \A k \in 1..2 : jobs[i][k] \in Rank /\ jobs[i][3 - k] \in Rank
    BY <1>4, <2>1 DEF Remap
  <2>3. jobs' \in [Job -> Rank \X (Rank \union {-1})]
    <3>1. PICK k \in 1..2 :
            jobs' = [jobs EXCEPT ![i] = <<@[3 - k], -1>>, ![j] = <<@[1], jobs[i][k]>>]
      BY <1>4 DEF Remap
    <3>2. <<jobs[i][3 - k], -1>> \in Rank \X (Rank \union {-1})
      BY <2>2
    <3>3. <<jobs[j][1], jobs[i][k]>> \in Rank \X (Rank \union {-1})
      BY <2>1, <2>2
    <3> QED BY <2>2, <3>1, <3>2, <3>3
  <2>4. remaps' \in 0..MaxRemaps
    BY <1>4, SelectorAssumption DEF Remap
  <2> QED BY <1>4, <2>3, <2>4 DEF Remap
<1>5. CASE UNCHANGED vars
  BY <1>5 DEF vars
<1> QED BY <1>1, <1>2, <1>3, <1>4, <1>5 DEF Next

LEMMA TypeInit == Init => TypeOK
  BY SelectorAssumption, EmptySeq DEF Init, TypeOK

\* Every variable keeps its type: no draw beyond the number asked for, never
\* a rank -1 in the queue, no counter beyond its limit.
THEOREM SelectorTypeCorrect == Spec => []TypeOK
  BY TypeInit, TypeStep, PTL DEF Spec

-----------------------------------------------------------------------------
(* The inductive invariant.                                                *)

\* The injector kills only what was drawn.
OnlyDrawnDie ==
  /\ \A n \in DOMAIN queue : queue[n] \in RankQueued
  /\ killed \subseteq RankQueued

\* Not all ranks of a job are drawn, whatever becomes of the queue.
NotAllDrawn ==
  ~opts.KillEvenIfNotReplicated =>
     \A j \in Job : RanksOf(RepMap, j) \ RankQueued # {}

MapInUse == remaps = 0 => jobs = RepMap

SelectorInv == TypeOK /\ OnlyDrawnDie /\ NotAllDrawn /\ MapInUse /\ VictimsRunning

LEMMA SelectorInvInit == Init => SelectorInv
<1> SUFFICES ASSUME Init PROVE SelectorInv
  OBVIOUS
<1>1. TypeOK
  BY TypeInit
<1>2. OnlyDrawnDie /\ MapInUse /\ VictimsRunning
  BY DEF Init, OnlyDrawnDie, MapInUse, VictimsRunning
<1>3. NotAllDrawn
  <2> SUFFICES ASSUME NEW j \in Job PROVE RanksOf(RepMap, j) \ {} # {}
    BY DEF NotAllDrawn, Init
  <2>1. RepMap[j][1] \in Rank
    BY <1>1, SelectorAssumption DEF TypeOK
  <2>2. RepMap[j][1] \in RanksOf(RepMap, j)
    BY <2>1, SelectorAssumption DEF RanksOf
  <2> QED BY <2>2
<1> QED BY <1>1, <1>2, <1>3 DEF SelectorInv

\* What a draw leaves of a job: the partner of the rank it queues, and the
\* ranks of the other jobs, of which the rank is none.
LEMMA DrawSpares ==
  ASSUME SelectorInv, NEW j \in Job, NEW k \in 1..2, ~Spared(j, k),
         ~opts.KillEvenIfNotReplicated, NEW i \in Job
  PROVE  RanksOf(RepMap, i) \ (RankQueued \union {RepMap[j][k]}) # {}
<1>1. TypeOK /\ NotAllDrawn
  BY DEF SelectorInv
<1>2. RepMap \in RepMaps /\ RepMap[j][k] \in Rank
  BY <1>1, DrawnRank DEF TypeOK
<1>3. CASE i = j
  <2> DEFINE partner == RepMap[j][3 - k]
  <2>1. partner # -1 /\ partner \notin RankQueued
    BY DEF Spared
  <2>2. 3 - k \in 1..2 /\ 3 - k # k
    OBVIOUS
  <2>3. partner \in RanksOf(RepMap, j)
    <3>1. k = 1 \/ k = 2
      OBVIOUS
    <3> QED BY <2>1, <3>1 DEF RanksOf
  <2>4. partner # RepMap[j][k]
    BY <1>2, <2>1, <2>2, RanksDistinct
  <2> QED BY <1>3, <2>1, <2>3, <2>4
<1>4. CASE i # j
  <2>1. PICK r \in RanksOf(RepMap, i) : r \notin RankQueued
    BY <1>1 DEF NotAllDrawn
  <2>2. PICK l \in 1..2 : r = RepMap[i][l] /\ r # -1
    BY <2>1 DEF RanksOf
  <2>3. r # RepMap[j][k]
    BY <1>2, <1>4, <2>2, RanksDistinct
  <2> QED BY <2>1, <2>3
<1> QED BY <1>3, <1>4

LEMMA SelectorInvStep == SelectorInv /\ [Next]_vars => SelectorInv'
<1> SUFFICES ASSUME SelectorInv, [Next]_vars PROVE SelectorInv'
  OBVIOUS
<1>0. TypeOK /\ TypeOK' /\ queue \in Seq(Rank) /\ queue' \in Seq(Rank)
  BY TypeStep DEF SelectorInv, TypeOK
<1> USE DEF OnlyDrawnDie, NotAllDrawn, MapInUse, VictimsRunning
<1>1. ASSUME NEW j \in Job, NEW k \in 1..2, getNew(j, k) PROVE SelectorInv'
  <2> DEFINE r == RepMap[j][k]
  <2>1. UNCHANGED <<opts, RepMap, phase, killed, jobs, remaps>> /\ ~Spared(j, k)
    BY <1>1 DEF getNew
  <2>2. CASE AlreadyQueued(r)
    <3>1. UNCHANGED <<queue, RankQueued>>
      BY <2>2 DEF AlreadyQueued
    <3> QED BY <1>0, <2>1, <3>1 DEF SelectorInv, RanksOf
  <2>3. CASE Queue(r)
    <3>1. /\ r \notin RankQueued /\ RankQueued' = RankQueued \union {r}
          /\ queue' = Append(queue, r) /\ r \in Rank
      BY <1>0, <2>1, <2>3, DrawnRank DEF Queue
    <3>2. NotAllDrawn'
      <4> SUFFICES ASSUME ~opts.KillEvenIfNotReplicated, NEW i \in Job
                   PROVE  RanksOf(RepMap, i) \ (RankQueued \union {r}) # {}
        BY <2>1, <3>1 DEF RanksOf
      <4> QED BY <2>1, DrawSpares
    <3> HIDE DEF r
    <3>3. /\ Len(queue') = Len(queue) + 1 /\ Len(queue) \in Nat
          /\ \A n \in 1..Len(queue) : queue'[n] = queue[n]
          /\ queue'[Len(queue) + 1] = r
          /\ DOMAIN queue = 1..Len(queue) /\ DOMAIN queue' = 1..(Len(queue) + 1)
      BY <1>0, <3>1, AppendProperties, LenProperties
    <3>4. \A n \in DOMAIN queue : queue[n] \in RankQueued /\ queue[n] \notin killed
      BY DEF SelectorInv
    <3>5. \A n \in DOMAIN queue' : /\ queue'[n] \in RankQueued'
                                   /\ queue'[n] \notin killed'
      BY <2>1, <3>1, <3>3, <3>4 DEF SelectorInv
    <3>6. \A m, n \in DOMAIN queue' : queue'[m] = queue'[n] => m = n
      <4>1. \A m, n \in DOMAIN queue : queue[m] = queue[n] => m = n
        BY DEF SelectorInv
      <4> QED BY <3>1, <3>3, <3>4, <4>1
    <3> QED BY <1>0, <2>1, <3>1, <3>2, <3>5, <3>6 DEF SelectorInv
  <2> QED BY <1>1, <2>2, <2>3 DEF getNew
<1>2. CASE NextN
  BY <1>0, <1>2 DEF NextN, SelectorInv, RanksOf
<1>3. CASE kill
  <2>1. UNCHANGED <<opts, RepMap, RankQueued, jobs, remaps>>
    BY <1>3 DEF kill
  <2>2. CASE killed' = killed \union {Head(queue)} /\ queue' = Tail(queue)
    <3>1. /\ Len(queue) \in Nat \ {0} /\ Head(queue) = queue[1]
          /\ DOMAIN queue = 1..Len(queue) /\ DOMAIN queue' = 1..(Len(queue) - 1)
          /\ \A n \in 1..(Len(queue) - 1) : queue'[n] = queue[n + 1]
      BY <1>0, <1>3, <2>2, HeadTailProperties, LenProperties, EmptySeq DEF kill
    <3>2. \A m, n \in DOMAIN queue : queue[m] = queue[n] => m = n
      BY DEF SelectorInv
    <3>3. \A n \in DOMAIN queue : queue[n] \in RankQueued /\ queue[n] \notin killed
      BY DEF SelectorInv
    <3>4. \A n \in DOMAIN queue' : n + 1 \in DOMAIN queue /\ n + 1 # 1
      BY <3>1
    <3>5. OnlyDrawnDie'
      BY <2>1, <2>2, <3>1, <3>3, <3>4 DEF SelectorInv
    <3>6. VictimsRunning'
      BY <2>2, <3>1, <3>2, <3>3, <3>4
    <3> QED BY <1>0, <2>1, <3>5, <3>6 DEF SelectorInv, RanksOf
  <2>3. CASE UNCHANGED <<killed, queue>>
    BY <1>0, <2>1, <2>3 DEF SelectorInv, RanksOf
  <2> QED BY <1>3, <2>2, <2>3 DEF kill
<1>4. ASSUME NEW i \in Job, NEW j \in Job, Remap(i, j) PROVE SelectorInv'
  <2>1. remaps' # 0 /\ UNCHANGED <<opts, RepMap, RankQueued, queue, killed>>
    BY <1>0, <1>4 DEF Remap, TypeOK
  <2> QED BY <1>0, <2>1 DEF SelectorInv, RanksOf
<1>5. CASE UNCHANGED vars
  BY <1>0, <1>5 DEF vars, SelectorInv, RanksOf
<1> QED BY <1>1, <1>2, <1>3, <1>4, <1>5 DEF Next

LEMMA SelectorInvariant == Spec => []SelectorInv
  BY SelectorInvInit, SelectorInvStep, PTL DEF Spec

-----------------------------------------------------------------------------
\* Unless it is told otherwise the injector leaves every job a worker, as
\* long as the map it has read is the one in use: it kills only ranks it has
\* drawn, and getNew never draws the last rank of a job.
THEOREM JobsSurviveHolds == Spec => []JobsSurvive
<1>1. SelectorInv => JobsSurvive
  BY DEF SelectorInv, JobsSurvive, NotAllDrawn, OnlyDrawnDie, MapInUse, RanksOf
<1> QED BY <1>1, SelectorInvariant, PTL

\* No rank is queued twice or killed while it is still queued, so no kill
\* finds its process gone.
THEOREM VictimsRunningHolds == Spec => []VictimsRunning
<1>1. SelectorInv => VictimsRunning
  BY DEF SelectorInv
<1> QED BY <1>1, SelectorInvariant, PTL

=============================================================================

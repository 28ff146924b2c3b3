-------------------------- MODULE ReplicaMapProofs --------------------------
(***************************************************************************)
(* Theorems about ReplicaMap, for every number of jobs, ranks, updates and *)
(* crashes and every layout of the stacks.                                 *)
(***************************************************************************)
EXTENDS ReplicaMap, FunctionTheorems, FiniteSetTheorems, TLAPS

-----------------------------------------------------------------------------
(* The inductive invariants.                                               *)

Lines == [JobIds -> Seq(Ranks)]
Jobs == -1..(NJobs - 1)
File == [ver : 0..NosUpdates, bit : SUBSET JobIds, ranks : Lines]

\* TypeOK; and no line is ever empty.
TypeInv ==
    /\ mgr \in {"choose", "assign", "sleep", "stopped"}
    /\ iter \in 0..(NosUpdates - 1) /\ picks \in 0..NJobs
    /\ chosen \in Seq(Ranks)
    /\ RankList \in Lines /\ \A j \in JobIds : Len(RankList[j]) >= 1
    /\ Modified \in SUBSET JobIds
    /\ StackAdd \in [Ranks -> Nat] /\ StackOf \in Stacks
    /\ file \in File
    /\ file.ver > 0 => \A j \in JobIds : Len(file.ranks[j]) >= 1
    /\ app \in {"none", "running", "aborted"} /\ adopted \in 0..NosUpdates
    /\ world \in SUBSET Ranks /\ readers \in SUBSET Ranks
    /\ job_id \in [Ranks -> Jobs] /\ image \in [Ranks -> Jobs]

\* Every rank is in one place: on a line, or among the chosen ones.
OneLine ==
    \A j, l \in JobIds : \A k \in 1..Len(RankList[j]), m \in 1..Len(RankList[l]) :
        RankList[j][k] = RankList[l][m] => j = l /\ k = m
ChosenOnce ==
    /\ \A k, m \in 1..Len(chosen) : chosen[k] = chosen[m] => k = m
    /\ \A m \in 1..Len(chosen), j \in JobIds : \A k \in 1..Len(RankList[j]) :
          chosen[m] # RankList[j][k]
Placed(r) ==
    \/ \E m \in 1..Len(chosen) : chosen[m] = r
    \/ \E j \in JobIds : \E k \in 1..Len(RankList[j]) : RankList[j][k] = r
PlaceInv == OneLine /\ ChosenOnce /\ \A r \in Ranks : Placed(r)

\* The manager is one map ahead of the program, at most.
VersionInv ==
    /\ mgr \in {"choose", "assign"} =>
          file.ver = iter /\ adopted = iter /\ (app = "none" => Modified = JobIds)
    /\ mgr = "sleep" =>
          /\ file.ver = iter + 1 /\ file.ranks = RankList
          /\ chosen = <<>> /\ adopted \in {iter, iter + 1}
          /\ app = "none" => file.bit = JobIds
    /\ mgr = "stopped" => adopted = file.ver
    /\ app = "none" <=> adopted = 0
    /\ app = "none" => world = Ranks /\ iter = 0
    /\ app # "none" => world \in SUBSET readers
    /\ iter # 0 => StackAdd = StackOf

\* Every process works for the job on whose line the manager has it.
Settled == \A j \in JobIds : \A k \in 1..Len(RankList[j]) : job_id[RankList[j][k]] = j

\* The head of a line has been on it, and the lines in M have been joined by
\* processes with the stack of the head.
Moving(M) ==
    \A j \in JobIds :
        /\ job_id[RankList[j][1]] = j
        /\ \A k \in 1..Len(RankList[j]) :
              \/ job_id[RankList[j][k]] = j
              \/ j \in M /\ StackOf[RankList[j][k]] = StackOf[RankList[j][1]]

Working ==
    /\ \A p \in Ranks : image[p] = job_id[p] /\ job_id[p] \in JobIds
    /\ \A j \in JobIds : \E p \in world : job_id[p] = j
    /\ adopted = file.ver =>
          \A p \in Ranks : \E k \in 1..Len(file.ranks[job_id[p]]) :
              file.ranks[job_id[p]][k] = p
    /\ mgr = "choose" => Settled
    /\ mgr = "assign" => Moving(Modified)
    /\ mgr = "sleep" /\ adopted = iter + 1 => Settled
    /\ mgr = "sleep" /\ adopted = iter => Moving(file.bit)

PolledInv ==
    /\ TypeInv /\ PlaceInv /\ VersionInv
    /\ app = "aborted" => readers # Ranks
    /\ app = "running" /\ readers = Ranks => Working

-----------------------------------------------------------------------------
(* Arithmetic, and the lines of the first map.                             *)

LEMMA Constants ==
  /\ NJobs \in Nat /\ NJobs >= 1 /\ NRanks \in Nat /\ NJobs <= NRanks
  /\ NosUpdates \in Nat /\ NosUpdates >= 1
  /\ \A r \in Ranks : r \in Nat /\ r < NRanks
  /\ \A j \in JobIds : j \in Nat /\ j < NJobs
BY ManagerAssumption DEF Ranks, JobIds

LEMMA Division ==
  ASSUME NEW a \in Nat, NEW n \in Nat, n >= 1
  PROVE  a \div n \in Nat /\ a = n * (a \div n) + (a % n) /\ a % n \in 0..(n - 1)
OBVIOUS

LEMMA Remainder ==
  ASSUME NEW q \in Nat, NEW n \in Nat, n >= 1, NEW r \in 0..(n - 1)
  PROVE  (n * q + r) % n = r /\ (n * q + r) \div n = q
<1>1. n * q + r \in Nat
  OBVIOUS
<1> QED BY <1>1

LEMMA Multiples ==
  ASSUME NEW a \in Nat, NEW b \in Nat, NEW n \in Nat, n >= 1
  PROVE  (a <= b <=> n * a <= n * b) /\ n * a \in Nat
OBVIOUS

\* InsertRank in InitJobMap: job j gets the ranks j, j + NJobs, j + 2 NJobs...
FirstLine(j) ==
    [k \in 1..Cardinality({r \in Ranks : r % NJobs = j}) |-> j + (k - 1) * NJobs]

LEMMA FirstLineRanks ==
  ASSUME NEW j \in JobIds
  PROVE  /\ FirstLine(j) \in Seq(Ranks) /\ Len(FirstLine(j)) >= 1
         /\ \A k \in 1..Len(FirstLine(j)) : FirstLine(j)[k] = NJobs * (k - 1) + j
         /\ \A r \in Ranks : r % NJobs = j =>
               \E k \in 1..Len(FirstLine(j)) : FirstLine(j)[k] = r
<1> DEFINE C == {r \in Ranks : r % NJobs = j}
           q == (NRanks - 1 - j) \div NJobs
           f == [k \in 1..(q + 1) |-> NJobs * (k - 1) + j]
<1>1. /\ NJobs \in Nat /\ NJobs >= 1 /\ NRanks \in Nat /\ j \in 0..(NJobs - 1)
      /\ NRanks - 1 - j \in Nat
  BY Constants
<1>2. /\ q \in Nat
      /\ NRanks - 1 - j = NJobs * q + ((NRanks - 1 - j) % NJobs)
      /\ (NRanks - 1 - j) % NJobs \in 0..(NJobs - 1)
  BY <1>1, Division
<1> HIDE DEF q
<1>3. ASSUME NEW k \in 1..(q + 1) PROVE f[k] \in C
  <2>1. k - 1 \in Nat /\ k - 1 <= q /\ f[k] = NJobs * (k - 1) + j
    BY <1>2
  <2>2. NJobs * (k - 1) <= NJobs * q /\ NJobs * (k - 1) \in Nat /\ NJobs * q \in Nat
    BY <1>1, <1>2, <2>1, Multiples
  <2>3. f[k] \in Ranks
    BY <1>1, <1>2, <2>1, <2>2 DEF Ranks
  <2>4. f[k] % NJobs = j
    BY <1>1, <2>1, Remainder
  <2> QED BY <2>3, <2>4
<1>4. ASSUME NEW r \in C PROVE \E k \in 1..(q + 1) : f[k] = r
  <2>1. r \in Nat /\ r <= NRanks - 1 /\ r % NJobs = j
    BY Constants
  <2> DEFINE d == r \div NJobs
  <2>2. d \in Nat /\ r = NJobs * d + j
    BY <1>1, <2>1, Division
  <2> HIDE DEF d
  <2>3. NJobs * d < NJobs * q + NJobs
    <3>1. NJobs * d \in Nat /\ NJobs * q \in Nat
      BY <1>1, <1>2, <2>2
    <3> QED BY <1>1, <1>2, <2>1, <2>2, <3>1
  <2>4. d <= q
    <3>1. NJobs * (q + 1) = NJobs * q + NJobs
      BY <1>1, <1>2
    <3>2. ~(NJobs * (q + 1) <= NJobs * d)
      BY <1>1, <1>2, <2>2, <2>3, <3>1
    <3>3. ~(q + 1 <= d)
      BY <1>1, <1>2, <2>2, <3>2, Multiples
    <3> QED BY <1>2, <2>2, <3>3
  <2>5. d + 1 \in 1..(q + 1) /\ (d + 1) - 1 = d
    BY <1>2, <2>2, <2>4
  <2> QED BY <2>2, <2>5
<1>5. \A k, m \in 1..(q + 1) : f[k] = f[m] => k = m
  <2> SUFFICES ASSUME NEW k \in 1..(q + 1), NEW m \in 1..(q + 1), f[k] = f[m]
               PROVE  k = m
    OBVIOUS
  <2>1. NJobs * (k - 1) + j = NJobs * (m - 1) + j /\ k - 1 \in Nat /\ m - 1 \in Nat
    BY <1>2
  <2>2. NJobs * (k - 1) <= NJobs * (m - 1) /\ NJobs * (m - 1) <= NJobs * (k - 1)
    BY <1>1, <2>1
  <2>3. k - 1 <= m - 1 /\ m - 1 <= k - 1
    BY <1>1, <2>1, <2>2, Multiples
  <2> QED BY <1>2, <2>3
<1>6. Cardinality(C) = q + 1
  <2>1. f \in [1..(q + 1) -> C]
    BY <1>3
  <2>2. \A r \in C : \E k \in 1..(q + 1) : f[k] = r
    BY <1>4
  <2> HIDE DEF f, C
  <2>3. f \in Bijection(1..(q + 1), C)
    BY <2>1, <2>2, <1>5, Fun_IsBij
  <2>4. ExistsBijection(1..(q + 1), C)
    BY <2>3 DEF ExistsBijection
  <2>5. IsFiniteSet(1..(q + 1)) /\ Cardinality(1..(q + 1)) = q + 1
    BY <1>2, FS_Interval
  <2> QED BY <2>4, <2>5, FS_Bijection
<1>7. FirstLine(j) = f
  <2>1. FirstLine(j) = [k \in 1..(q + 1) |-> j + (k - 1) * NJobs]
    BY <1>6 DEF FirstLine
  <2>2. \A k \in 1..(q + 1) : j + (k - 1) * NJobs = NJobs * (k - 1) + j
    BY <1>1, <1>2
  <2> QED BY <2>1, <2>2
<1>8. f \in Seq(Ranks) /\ Len(f) = q + 1 /\ \A k \in 1..(q + 1) : f[k] = NJobs * (k - 1) + j
  <2>1. \A k \in 1..(q + 1) : f[k] \in Ranks
    BY <1>3
  <2>2. q + 1 \in Nat /\ f = [k \in 1..(q + 1) |-> f[k]]
    BY <1>2
  <2>3. \A k \in 1..(q + 1) : f[k] = NJobs * (k - 1) + j
    OBVIOUS
  <2> HIDE DEF f
  <2> QED BY <2>1, <2>2, <2>3
<1> HIDE DEF f
<1>9. Len(f) >= 1
  BY <1>2, <1>8
<1> QED BY <1>4, <1>7, <1>8, <1>9

\* Every rank is on one line of the first map.
LEMMA FirstMap ==
  ASSUME Init
  PROVE  /\ RankList \in Lines /\ \A j \in JobIds : Len(RankList[j]) >= 1
         /\ PlaceInv
<1>1. RankList = [j \in JobIds |-> FirstLine(j)] /\ chosen = <<>>
  BY DEF Init, InitJobMap, FirstLine
<1>2. \A j \in JobIds : RankList[j] = FirstLine(j)
  BY <1>1
<1>3. \A j \in JobIds : RankList[j] \in Seq(Ranks) /\ Len(RankList[j]) >= 1
  BY <1>2, FirstLineRanks
<1>4. RankList \in Lines
  BY <1>1, <1>2, <1>3 DEF Lines
<1>5. ASSUME NEW j \in JobIds, NEW l \in JobIds, NEW k \in 1..Len(RankList[j]),
             NEW m \in 1..Len(RankList[l]), RankList[j][k] = RankList[l][m]
      PROVE  j = l /\ k = m
  <2>1. NJobs * (k - 1) + j = NJobs * (m - 1) + l
    BY <1>2, <1>5, FirstLineRanks
  <2>2. k \in Nat /\ m \in Nat /\ k - 1 \in Nat /\ m - 1 \in Nat
    <3>1. Len(RankList[j]) \in Nat /\ Len(RankList[l]) \in Nat
      BY <1>3
    <3> QED BY <3>1
  <2>3. j \in 0..(NJobs - 1) /\ l \in 0..(NJobs - 1) /\ NJobs \in Nat /\ NJobs >= 1
    BY Constants
  <2>4. /\ (NJobs * (k - 1) + j) % NJobs = j /\ (NJobs * (k - 1) + j) \div NJobs = k - 1
        /\ (NJobs * (m - 1) + l) % NJobs = l /\ (NJobs * (m - 1) + l) \div NJobs = m - 1
    BY <2>2, <2>3, Remainder
  <2> QED BY <2>1, <2>2, <2>4
<1>6. ASSUME NEW r \in Ranks PROVE Placed(r)
  <2>1. r % NJobs \in JobIds
    BY Constants, Division DEF JobIds
  <2> QED BY <1>2, <2>1, FirstLineRanks DEF Placed
<1>7. ChosenOnce
  BY <1>1 DEF ChosenOnce
<1> QED BY <1>3, <1>4, <1>5, <1>6, <1>7 DEF PlaceInv, OneLine

-----------------------------------------------------------------------------
(* Types.                                                                  *)

\* RemoveI of a line.
LEMMA RemoveAtLine ==
  ASSUME NEW S, NEW s \in Seq(S), NEW k \in 1..Len(s)
  PROVE  /\ RemoveAt(s, k) \in Seq(S) /\ Len(RemoveAt(s, k)) = Len(s) - 1
         /\ \A m \in 1..(Len(s) - 1) :
               RemoveAt(s, k)[m] = IF m < k THEN s[m] ELSE s[m + 1]
<1> DEFINE a == SubSeq(s, 1, k - 1)
           b == SubSeq(s, k + 1, Len(s))
<1>1. Len(s) \in Nat /\ k \in Nat /\ k >= 1 /\ k <= Len(s)
  OBVIOUS
<1>2. /\ a \in Seq(S) /\ Len(a) = k - 1
      /\ \A m \in 1..(k - 1) : a[m] = s[m]
  BY <1>1
<1>3. /\ b \in Seq(S) /\ Len(b) = Len(s) - k
      /\ \A m \in 1..(Len(s) - k) : b[m] = s[m + k]
  BY <1>1
<1>4. RemoveAt(s, k) = a \o b
  BY DEF RemoveAt
<1> HIDE DEF a, b
<1>5. a \o b \in Seq(S) /\ Len(a \o b) = Len(s) - 1
  <2>1. a \in Seq(S) /\ b \in Seq(S)
    BY <1>2, <1>3
  <2>2. a \o b \in Seq(S) /\ Len(a \o b) = Len(a) + Len(b)
    BY <2>1
  <2> QED BY <1>1, <1>2, <1>3, <2>2
<1>6. ASSUME NEW m \in 1..(Len(s) - 1)
      PROVE  (a \o b)[m] = IF m < k THEN s[m] ELSE s[m + 1]
  <2>1. CASE m < k
    BY <1>1, <1>2, <1>3, <2>1
  <2>2. CASE ~(m < k)
    <3>1. m - (k - 1) \in 1..(Len(s) - k) /\ (m - (k - 1)) + k = m + 1
      BY <1>1, <2>2
    <3>2. (a \o b)[m] = b[m - (k - 1)]
      BY <1>1, <1>2, <1>3, <2>2, <3>1
    <3> QED BY <1>3, <2>2, <3>1, <3>2
  <2> QED BY <2>1, <2>2
<1> QED BY <1>4, <1>5, <1>6

LEMMA LineType ==
  ASSUME TypeInv, NEW j \in JobIds
  PROVE  /\ RankList[j] \in Seq(Ranks) /\ Len(RankList[j]) \in Nat /\ Len(RankList[j]) >= 1
         /\ \A k \in 1..Len(RankList[j]) : RankList[j][k] \in Ranks
<1>1. RankList[j] \in Seq(Ranks) /\ Len(RankList[j]) >= 1
  BY DEF TypeInv, Lines
<1> QED BY <1>1

\* An iteration of Choose that takes a rank, and one of Assign.
Takes(j, k) ==
    /\ mgr = "choose" /\ Len(RankList[j]) # 1
    /\ chosen' = Append(chosen, RankList[j][k])
    /\ RankList' = [RankList EXCEPT ![j] = RemoveAt(@, k)]
Gives(j) ==
    /\ mgr = "assign" /\ chosen # <<>>
    /\ RankList' = [RankList EXCEPT ![j] = Append(@, Head(chosen))]
    /\ chosen' = Tail(chosen)

\* What Choose does to the lines.
LEMMA TakesLines ==
  ASSUME TypeInv, NEW j \in JobIds, NEW k \in 1..2, Takes(j, k)
  PROVE  /\ k \in 1..Len(RankList[j])
         /\ chosen' \in Seq(Ranks) /\ Len(chosen') = Len(chosen) + 1
         /\ Len(chosen) \in Nat
         /\ \A m \in 1..Len(chosen) : chosen'[m] = chosen[m]
         /\ chosen'[Len(chosen) + 1] = RankList[j][k]
         /\ RankList' \in Lines
         /\ \A l \in JobIds \ {j} : RankList'[l] = RankList[l]
         /\ Len(RankList'[j]) = Len(RankList[j]) - 1 /\ Len(RankList'[j]) >= 1
         /\ \A m \in 1..Len(RankList'[j]) :
               RankList'[j][m] = IF m < k THEN RankList[j][m] ELSE RankList[j][m + 1]
<1>1. /\ RankList[j] \in Seq(Ranks) /\ Len(RankList[j]) \in Nat /\ Len(RankList[j]) >= 1
      /\ \A n \in 1..Len(RankList[j]) : RankList[j][n] \in Ranks
  BY LineType
<1>0. Len(RankList[j]) - 1 >= 1 /\ k <= Len(RankList[j])
  <2> DEFINE n == Len(RankList[j])
  <2>1. n \in Nat /\ n >= 1 /\ n # 1
    BY LineType DEF Takes
  <2> HIDE DEF n
  <2>2. n - 1 >= 1 /\ k <= n
    BY <2>1
  <2> QED BY <2>2 DEF n
<1>2. k \in 1..Len(RankList[j]) /\ RankList[j][k] \in Ranks
  <2>1. k \in 1..Len(RankList[j])
    BY <1>0, <1>1
  <2> QED BY <1>1, <2>1
<1>3. /\ RemoveAt(RankList[j], k) \in Seq(Ranks)
      /\ Len(RemoveAt(RankList[j], k)) = Len(RankList[j]) - 1
      /\ \A m \in 1..(Len(RankList[j]) - 1) :
            RemoveAt(RankList[j], k)[m] =
                IF m < k THEN RankList[j][m] ELSE RankList[j][m + 1]
  BY <1>1, <1>2, RemoveAtLine
<1>4. chosen \in Seq(Ranks) /\ RankList \in Lines
  BY DEF TypeInv
<1>5. /\ RankList' \in Lines /\ RankList'[j] = RemoveAt(RankList[j], k)
      /\ \A l \in JobIds \ {j} : RankList'[l] = RankList[l]
  BY <1>3, <1>4 DEF Takes, Lines
<1>6. /\ chosen' \in Seq(Ranks) /\ Len(chosen') = Len(chosen) + 1 /\ Len(chosen) \in Nat
      /\ \A m \in 1..Len(chosen) : chosen'[m] = chosen[m]
      /\ chosen'[Len(chosen) + 1] = RankList[j][k]
  BY <1>2, <1>4 DEF Takes
<1> QED BY <1>0, <1>1, <1>2, <1>3, <1>5, <1>6

\* What Assign does to the lines.
LEMMA GivesLines ==
  ASSUME TypeInv, NEW j \in JobIds, Gives(j)
  PROVE  /\ chosen' \in Seq(Ranks) /\ Len(chosen') = Len(chosen) - 1
         /\ Len(chosen) \in Nat /\ Len(chosen) >= 1
         /\ Head(chosen) = chosen[1] /\ chosen[1] \in Ranks
         /\ \A m \in 1..(Len(chosen) - 1) : chosen'[m] = chosen[m + 1]
         /\ RankList' \in Lines
         /\ \A l \in JobIds \ {j} : RankList'[l] = RankList[l]
         /\ Len(RankList'[j]) = Len(RankList[j]) + 1 /\ Len(RankList[j]) \in Nat
         /\ Len(RankList[j]) >= 1
         /\ \A m \in 1..Len(RankList[j]) : RankList'[j][m] = RankList[j][m]
         /\ RankList'[j][Len(RankList[j]) + 1] = chosen[1]
<1>1. /\ RankList[j] \in Seq(Ranks) /\ Len(RankList[j]) \in Nat /\ Len(RankList[j]) >= 1
  BY LineType
<1>2. chosen \in Seq(Ranks) /\ RankList \in Lines /\ chosen # <<>>
  BY DEF TypeInv, Gives
<1>3. /\ Len(chosen) \in Nat /\ Len(chosen) >= 1
      /\ Head(chosen) = chosen[1] /\ chosen[1] \in Ranks
  BY <1>2
<1>4. /\ Tail(chosen) \in Seq(Ranks) /\ Len(Tail(chosen)) = Len(chosen) - 1
      /\ \A m \in 1..(Len(chosen) - 1) : Tail(chosen)[m] = chosen[m + 1]
  BY <1>2, <1>3
<1>5. /\ Append(RankList[j], Head(chosen)) \in Seq(Ranks)
      /\ Len(Append(RankList[j], Head(chosen))) = Len(RankList[j]) + 1
      /\ \A m \in 1..Len(RankList[j]) : Append(RankList[j], Head(chosen))[m] = RankList[j][m]
      /\ Append(RankList[j], Head(chosen))[Len(RankList[j]) + 1] = chosen[1]
  BY <1>1, <1>3
<1>6. /\ RankList' \in Lines /\ RankList'[j] = Append(RankList[j], Head(chosen))
      /\ \A l \in JobIds \ {j} : RankList'[l] = RankList[l]
  BY <1>2, <1>5 DEF Gives, Lines
<1> QED BY <1>1, <1>3, <1>4, <1>5, <1>6 DEF Gives

LEMMA NewJobType ==
  ASSUME TypeInv, NEW p \in Ranks
  PROVE  NewJob(p) \in Jobs /\ (Listed(p) => NewJob(p) \in file.bit /\ OnLine(p, NewJob(p)))
<1>1. file.bit \in SUBSET JobIds /\ job_id[p] \in Jobs
  BY DEF TypeInv, File
<1>2. CASE Listed(p)
  <2>1. \E j \in file.bit : OnLine(p, j)
    BY <1>2 DEF Listed
  <2>2. NewJob(p) \in file.bit /\ OnLine(p, NewJob(p))
    BY <1>2, <2>1 DEF NewJob
  <2> QED BY <1>1, <2>2, Constants DEF JobIds, Jobs
<1>3. CASE ~Listed(p)
  BY <1>1, <1>3 DEF NewJob
<1> QED BY <1>2, <1>3

LEMMA ImageType ==
  ASSUME TypeInv, NEW j
  PROVE  ReceivedImage(j) \in Jobs
<1> DEFINE S == {p \in MigrationComm(j) : Sender(p)}
<1>1. S \in SUBSET Ranks /\ image \in [Ranks -> Jobs] /\ -1 \in Jobs
  BY Constants DEF MigrationComm, TypeInv, Jobs
<1>2. ReceivedImage(j) = IF S = {} THEN -1 ELSE image[CHOOSE p \in S : TRUE]
  BY DEF ReceivedImage
<1> HIDE DEF S
<1>3. S # {} => (CHOOSE p \in S : TRUE) \in S
  OBVIOUS
<1> QED BY <1>1, <1>2, <1>3

LEMMA TypeInit == Init => TypeInv
<1> SUFFICES ASSUME Init PROVE TypeInv
  OBVIOUS
<1>1. RankList \in Lines /\ \A j \in JobIds : Len(RankList[j]) >= 1
  BY FirstMap
<1>2. iter \in 0..(NosUpdates - 1) /\ picks \in 0..NJobs /\ adopted \in 0..NosUpdates
  BY Constants DEF Init
<1>3. -1 \in Jobs
  BY Constants DEF Jobs
<1>4. job_id \in [Ranks -> Jobs] /\ image \in [Ranks -> Jobs]
  BY <1>3 DEF Init
<1>5. file \in File /\ file.ver = 0
  <2>1. [j \in JobIds |-> <<>>] \in Lines
    BY DEF Lines
  <2>2. 0 \in 0..NosUpdates
    BY Constants
  <2> QED BY <2>1, <2>2 DEF Init, File
<1>6. StackAdd \in [Ranks -> Nat] /\ StackOf \in Stacks /\ Modified \in SUBSET JobIds
  BY DEF Init, InitJobMap
<1>7. /\ mgr = "choose" /\ app = "none" /\ chosen \in Seq(Ranks)
      /\ world \in SUBSET Ranks /\ readers \in SUBSET Ranks
  BY DEF Init
<1> QED BY <1>1, <1>2, <1>4, <1>5, <1>6, <1>7 DEF TypeInv

LEMMA TypeStep ==
  ASSUME TypeInv, [Next]_vars
  PROVE  TypeInv'
<1>1. ASSUME NEW j \in JobIds, NEW k \in 1..2, Choose(j, k) PROVE TypeInv'
  <2>1. picks' \in 0..NJobs
    <3>1. NJobs \div 2 <= NJobs /\ NJobs \in Nat /\ NJobs \div 2 \in Nat
      BY Constants
    <3>2. picks \in 0..NJobs /\ picks < NJobs \div 2 /\ picks' = picks + 1
      BY <1>1 DEF Choose, TypeInv
    <3> QED BY <3>1, <3>2
  <2>2. UNCHANGED <<mgr, iter, StackAdd, file, appVars>>
    BY <1>1 DEF Choose
  <2>3. CASE UNCHANGED <<chosen, RankList, Modified>>
    BY <2>1, <2>2, <2>3 DEF TypeInv, appVars
  <2>4. CASE Takes(j, k) /\ Modified' = Modified \union {j}
    <3>1. /\ chosen' \in Seq(Ranks) /\ RankList' \in Lines
          /\ \A l \in JobIds : Len(RankList'[l]) >= 1
      BY <2>4, TakesLines DEF TypeInv
    <3> QED BY <2>1, <2>2, <2>4, <3>1 DEF TypeInv, appVars
  <2> QED BY <1>1, <2>3, <2>4 DEF Choose, Takes
<1>2. ASSUME NEW j \in JobIds, Assign(j) PROVE TypeInv'
  <2>1. Gives(j) /\ Modified' = Modified \union {j}
        /\ UNCHANGED <<mgr, iter, picks, StackAdd, file, appVars>>
    BY <1>2 DEF Assign, Gives
  <2>2. /\ chosen' \in Seq(Ranks) /\ RankList' \in Lines
        /\ \A l \in JobIds \ {j} : RankList'[l] = RankList[l]
        /\ Len(RankList'[j]) = Len(RankList[j]) + 1 /\ Len(RankList[j]) \in Nat
    BY <2>1, GivesLines
  <2>3. ASSUME NEW l \in JobIds PROVE Len(RankList'[l]) >= 1
    <3>1. Len(RankList[l]) \in Nat /\ Len(RankList[l]) >= 1
      BY LineType
    <3>2. CASE l = j
      BY <2>2, <3>1, <3>2
    <3>3. CASE l # j
      BY <2>2, <3>1, <3>3
    <3> QED BY <3>2, <3>3
  <2> QED BY <2>1, <2>2, <2>3 DEF TypeInv, appVars
<1>3. CASE ChooseEnds
  BY <1>3 DEF ChooseEnds, TypeInv, appVars
<1>4. CASE WriteToFile
  <2>1. iter + 1 \in 0..NosUpdates /\ RankList \in Lines /\ Modified \in SUBSET JobIds
    BY Constants DEF TypeInv
  <2>2. file' \in File
    BY <1>4, <2>1 DEF WriteToFile, File
  <2> QED BY <1>4, <2>2 DEF WriteToFile, TypeInv, appVars
<1>5. CASE InitStackData
  <2>1. StackOf \in [Ranks -> Nat]
    BY ManagerAssumption DEF TypeInv
  <2>2. /\ mgr' \in {"choose", "stopped"} /\ iter' \in 0..(NosUpdates - 1)
        /\ picks' \in 0..NJobs /\ StackAdd' \in [Ranks -> Nat]
    <3>1. CASE UNCHANGED <<iter, picks, StackAdd>> /\ mgr' = "stopped"
      BY <3>1 DEF TypeInv
    <3>2. CASE /\ iter + 1 # NosUpdates /\ mgr' = "choose" /\ iter' = iter + 1 /\ picks' = 0
               /\ StackAdd' = IF iter = 0 THEN StackOf ELSE StackAdd
      BY <2>1, <3>2, Constants DEF TypeInv
    <3> QED BY <1>5, <3>1, <3>2 DEF InitStackData
  <2> QED BY <1>5, <2>2 DEF InitStackData, TypeInv, appVars
<1>6. CASE MPI_Init
  <2>1. job_id' \in [Ranks -> Jobs]
    BY <1>6, NewJobType DEF MPI_Init
  <2>2. adopted' \in 0..NosUpdates /\ readers' \in SUBSET Ranks
    BY <1>6 DEF MPI_Init, TypeInv, File
  <2> QED BY <1>6, <2>1, <2>2 DEF MPI_Init, TypeInv, mgrVars
<1>7. CASE AdoptMap
  <2>1. job_id' \in [Ranks -> Jobs]
    BY <1>7, NewJobType DEF AdoptMap, TypeInv
  <2>2. image' \in [Ranks -> Jobs]
    <3>1. image \in [Ranks -> Jobs] /\ \A j : ReceivedImage(j) \in Jobs
      BY ImageType DEF TypeInv
    <3>2. image' = [p \in Ranks |-> IF p \in world /\ Receiver(p)
                                    THEN ReceivedImage(NewJob(p)) ELSE image[p]]
      BY <1>7 DEF AdoptMap
    <3> QED BY <3>1, <3>2
  <2>3. adopted' \in 0..NosUpdates /\ readers' \in SUBSET Ranks
        /\ app' \in {"running", "aborted"}
    BY <1>7 DEF AdoptMap, TypeInv, File
  <2> QED BY <1>7, <2>1, <2>2, <2>3 DEF AdoptMap, TypeInv, mgrVars
<1>8. ASSUME NEW p \in Ranks, Shrink(p) PROVE TypeInv'
  BY <1>8 DEF Shrink, TypeInv, mgrVars
<1>9. CASE Finished \/ UNCHANGED vars
  BY <1>9 DEF Finished, vars, mgrVars, appVars, TypeInv
<1> QED BY <1>1, <1>2, <1>3, <1>4, <1>5, <1>6, <1>7, <1>8, <1>9 DEF Next

\* Every variable of the manager, the map file and the program keeps its type;
\* in particular Choose never takes the last rank of a line, so that every
\* map that is written has a worker for every job.
THEOREM ReplicaMapTypeCorrect == Spec => []TypeOK
<1>1. TypeInv /\ [Next]_vars => TypeInv'
  BY TypeStep
<1>2. TypeInv => TypeOK
  <2> SUFFICES ASSUME TypeInv PROVE TypeOK
    OBVIOUS
  <2>1. iter \in 0..NosUpdates
    BY Constants DEF TypeInv
  <2>2. RankList \in [JobIds -> Seq(Ranks) \ {<<>>}]
    <3>1. RankList \in [JobIds -> Seq(Ranks)] /\ \A j \in JobIds : Len(RankList[j]) >= 1
      BY DEF TypeInv, Lines
    <3>2. \A j \in JobIds : RankList[j] # <<>>
      BY <3>1
    <3> QED BY <3>1, <3>2
  <2>3. file.ver > 0 => \A j \in JobIds : file.ranks[j] # <<>>
    BY DEF TypeInv
  <2> QED BY <2>1, <2>2, <2>3 DEF TypeInv, TypeOK, File, Lines, Jobs
<1> QED BY <1>1, <1>2, TypeInit, PTL DEF Spec

-----------------------------------------------------------------------------
(* Every rank is in one place.                                             *)

LEMMA TakesPlaces ==
  ASSUME TypeInv, PlaceInv, NEW j \in JobIds, NEW k \in 1..2, Takes(j, k)
  PROVE  PlaceInv'
<1>1. /\ k \in 1..Len(RankList[j])
      /\ Len(chosen') = Len(chosen) + 1 /\ Len(chosen) \in Nat
      /\ \A m \in 1..Len(chosen) : chosen'[m] = chosen[m]
      /\ chosen'[Len(chosen) + 1] = RankList[j][k]
      /\ \A l \in JobIds \ {j} : RankList'[l] = RankList[l]
      /\ Len(RankList'[j]) = Len(RankList[j]) - 1
      /\ \A m \in 1..Len(RankList'[j]) :
            RankList'[j][m] = IF m < k THEN RankList[j][m] ELSE RankList[j][m + 1]
  BY TakesLines
<1>2. \A l \in JobIds : Len(RankList[l]) \in Nat
  BY LineType
<1> DEFINE old(l, m) == IF l = j /\ m >= k THEN m + 1 ELSE m
<1>3. ASSUME NEW l \in JobIds, NEW m \in 1..Len(RankList'[l])
      PROVE  /\ old(l, m) \in 1..Len(RankList[l]) /\ m \in Nat
             /\ RankList'[l][m] = RankList[l][old(l, m)]
             /\ ~(l = j /\ old(l, m) = k)
  <2>1. CASE l = j
    <3>0. /\ m \in 1..Len(RankList'[j]) /\ Len(RankList'[j]) = Len(RankList[j]) - 1
          /\ RankList'[j][m] = IF m < k THEN RankList[j][m] ELSE RankList[j][m + 1]
      BY <1>1, <2>1, Zenon
    <3>1. /\ k \in Nat /\ m \in Nat /\ Len(RankList[j]) \in Nat
          /\ 1 <= m /\ m + 1 <= Len(RankList[j])
          /\ RankList'[j][m] = IF m < k THEN RankList[j][m] ELSE RankList[j][m + 1]
      <4>1. k \in Nat /\ Len(RankList[j]) \in Nat
        BY <1>1, <1>2
      <4> QED BY ONLY <3>0, <4>1
    <3>2. CASE m < k
      BY ONLY <2>1, <3>1, <3>2
    <3>3. CASE ~(m < k)
      BY ONLY <2>1, <3>1, <3>3
    <3> QED BY <3>2, <3>3
  <2>2. CASE l # j
    BY <1>1, <1>2, <2>2
  <2> QED BY <2>1, <2>2
<1>4. \A l \in JobIds : \A m, n \in Nat : old(l, m) = old(l, n) => m = n
  OBVIOUS
<1>5. OneLine'
  <2> SUFFICES ASSUME NEW l \in JobIds, NEW x \in JobIds,
                      NEW m \in 1..Len(RankList'[l]), NEW n \in 1..Len(RankList'[x]),
                      RankList'[l][m] = RankList'[x][n]
               PROVE  l = x /\ m = n
    BY DEF OneLine
  <2>1. RankList[l][old(l, m)] = RankList[x][old(x, n)]
    BY <1>3
  <2>2. l = x /\ old(l, m) = old(x, n)
    <3> HIDE DEF old
    <3> QED BY <1>3, <2>1 DEF PlaceInv, OneLine
  <2> QED BY <1>3, <1>4, <2>2
<1>6. ChosenOnce'
  <2>1. ASSUME NEW m \in 1..Len(chosen'), NEW l \in JobIds, NEW n \in 1..Len(RankList'[l])
        PROVE  chosen'[m] # RankList'[l][n]
    <3>1. PICK x \in 1..Len(RankList[l]) :
            RankList'[l][n] = RankList[l][x] /\ ~(l = j /\ x = k)
      BY <1>3
    <3>2. CASE m \in 1..Len(chosen)
      BY <1>1, <3>1, <3>2 DEF PlaceInv, ChosenOnce
    <3>3. CASE m = Len(chosen) + 1
      <4>1. RankList[l][x] # RankList[j][k]
        BY <1>1, <3>1 DEF PlaceInv, OneLine
      <4> QED BY <1>1, <3>1, <3>3, <4>1
    <3> QED BY <1>1, <3>2, <3>3
  <2>2. ASSUME NEW m \in 1..Len(chosen'), NEW n \in 1..Len(chosen'), chosen'[m] = chosen'[n]
        PROVE  m = n
    <3>1. \A x \in 1..Len(chosen) : chosen'[x] # RankList[j][k]
      BY <1>1 DEF PlaceInv, ChosenOnce
    <3>2. \A x \in 1..Len(chosen') : x \in 1..Len(chosen) \/ x = Len(chosen) + 1
      BY <1>1
    <3> QED BY <1>1, <2>2, <3>1, <3>2 DEF PlaceInv, ChosenOnce
  <2> QED BY <2>1, <2>2 DEF ChosenOnce
<1>7. ASSUME NEW r \in Ranks PROVE Placed(r)'
  <2>1. ASSUME NEW m \in 1..Len(chosen), chosen[m] = r PROVE Placed(r)'
    <3>1. m \in 1..Len(chosen') /\ chosen'[m] = r
      BY <1>1, <2>1
    <3> QED BY <3>1 DEF Placed
  <2>2. ASSUME NEW l \in JobIds, NEW m \in 1..Len(RankList[l]), RankList[l][m] = r,
               ~(l = j /\ m = k)
        PROVE  Placed(r)'
    <3> DEFINE n == IF l = j /\ m > k THEN m - 1 ELSE m
    <3>1. n \in 1..Len(RankList'[l]) /\ RankList'[l][n] = r
      <4>1. CASE l = j /\ m > k
        BY <1>1, <1>2, <2>2, <4>1
      <4>2. CASE l = j /\ ~(m > k)
        BY <1>1, <1>2, <2>2, <4>2
      <4>3. CASE l # j
        BY <1>1, <1>2, <2>2, <4>3
      <4> QED BY <4>1, <4>2, <4>3
    <3> HIDE DEF n
    <3> QED BY <3>1 DEF Placed
  <2>3. ASSUME r = RankList[j][k] PROVE Placed(r)'
    <3>1. Len(chosen) + 1 \in 1..Len(chosen') /\ chosen'[Len(chosen) + 1] = r
      BY <1>1, <2>3
    <3> QED BY <3>1 DEF Placed
  <2>4. Placed(r)
    BY DEF PlaceInv
  <2> QED BY <2>1, <2>2, <2>3, <2>4 DEF Placed
<1> QED BY <1>5, <1>6, <1>7 DEF PlaceInv

LEMMA GivesPlaces ==
  ASSUME TypeInv, PlaceInv, NEW j \in JobIds, Gives(j)
  PROVE  PlaceInv'
<1>1. /\ Len(chosen') = Len(chosen) - 1 /\ Len(chosen) \in Nat /\ Len(chosen) >= 1
      /\ \A m \in 1..(Len(chosen) - 1) : chosen'[m] = chosen[m + 1]
      /\ \A l \in JobIds \ {j} : RankList'[l] = RankList[l]
      /\ Len(RankList'[j]) = Len(RankList[j]) + 1 /\ Len(RankList[j]) \in Nat
      /\ \A m \in 1..Len(RankList[j]) : RankList'[j][m] = RankList[j][m]
      /\ RankList'[j][Len(RankList[j]) + 1] = chosen[1]
  BY GivesLines
<1>2. \A l \in JobIds : Len(RankList[l]) \in Nat
  BY LineType
<1>3. ASSUME NEW l \in JobIds, NEW m \in 1..Len(RankList'[l])
      PROVE  \/ m \in 1..Len(RankList[l]) /\ RankList'[l][m] = RankList[l][m]
             \/ l = j /\ m = Len(RankList[j]) + 1 /\ RankList'[l][m] = chosen[1]
  <2>1. CASE l = j
    BY <1>1, <1>2, <2>1
  <2>2. CASE l # j
    BY <1>1, <1>2, <2>2
  <2> QED BY <2>1, <2>2
<1>4. \A l \in JobIds : \A m \in 1..Len(RankList[l]) :
         /\ m \in 1..Len(RankList'[l]) /\ RankList'[l][m] = RankList[l][m]
         /\ RankList[l][m] # chosen[1]
  <2> SUFFICES ASSUME NEW l \in JobIds, NEW m \in 1..Len(RankList[l])
               PROVE  /\ m \in 1..Len(RankList'[l]) /\ RankList'[l][m] = RankList[l][m]
                      /\ RankList[l][m] # chosen[1]
    OBVIOUS
  <2>1. RankList[l][m] # chosen[1]
    BY <1>1 DEF PlaceInv, ChosenOnce
  <2>2. CASE l = j
    BY <1>1, <2>1, <2>2
  <2>3. CASE l # j
    BY <1>1, <2>1, <2>3
  <2> QED BY <2>2, <2>3
<1>5. OneLine'
  <2> SUFFICES ASSUME NEW l \in JobIds, NEW x \in JobIds,
                      NEW m \in 1..Len(RankList'[l]), NEW n \in 1..Len(RankList'[x]),
                      RankList'[l][m] = RankList'[x][n]
               PROVE  l = x /\ m = n
    BY DEF OneLine
  <2>1. CASE /\ m \in 1..Len(RankList[l]) /\ RankList'[l][m] = RankList[l][m]
             /\ n \in 1..Len(RankList[x]) /\ RankList'[x][n] = RankList[x][n]
    <3>1. RankList[l][m] = RankList[x][n]
      BY <2>1
    <3>2. OneLine
      BY DEF PlaceInv
    <3> QED BY <2>1, <3>1, <3>2 DEF OneLine
  <2> QED BY <1>3, <1>4, <2>1
<1>6. ChosenOnce'
  <2>1. \A m \in 1..Len(chosen') :
           m + 1 \in 1..Len(chosen) /\ chosen'[m] = chosen[m + 1] /\ m \in Nat /\ m + 1 # 1
    BY <1>1
  <2>2. ASSUME NEW m \in 1..Len(chosen'), NEW l \in JobIds, NEW n \in 1..Len(RankList'[l])
        PROVE  chosen'[m] # RankList'[l][n]
    <3>1. m + 1 \in 1..Len(chosen) /\ chosen'[m] = chosen[m + 1] /\ m + 1 # 1
          /\ 1 \in 1..Len(chosen)
      BY <1>1, <2>1
    <3>2. chosen[m + 1] # chosen[1]
      BY <3>1 DEF PlaceInv, ChosenOnce
    <3> QED BY <1>3, <3>1, <3>2 DEF PlaceInv, ChosenOnce
  <2>3. ASSUME NEW m \in 1..Len(chosen'), NEW n \in 1..Len(chosen'), chosen'[m] = chosen'[n]
        PROVE  m = n
    <3>0. /\ m + 1 \in 1..Len(chosen) /\ n + 1 \in 1..Len(chosen)
          /\ chosen[m + 1] = chosen[n + 1]
      BY <2>1, <2>3, Zenon
    <3>1. m + 1 = n + 1
      BY <3>0, Zenon DEF PlaceInv, ChosenOnce
    <3> QED BY <2>1, <3>1
  <2> QED BY <2>2, <2>3 DEF ChosenOnce
<1>7. ASSUME NEW r \in Ranks PROVE Placed(r)'
  <2>1. ASSUME NEW l \in JobIds, NEW m \in 1..Len(RankList[l]), RankList[l][m] = r
        PROVE  Placed(r)'
    BY <1>4, <2>1 DEF Placed
  <2>2. ASSUME NEW m \in 1..Len(chosen), chosen[m] = r PROVE Placed(r)'
    <3>1. CASE m = 1
      <4>1. Len(RankList[j]) + 1 \in 1..Len(RankList'[j])
        BY <1>1
      <4> QED BY <1>1, <2>2, <3>1, <4>1 DEF Placed
    <3>2. CASE m # 1
      <4>1. m - 1 \in 1..Len(chosen') /\ (m - 1) + 1 = m /\ m - 1 \in 1..(Len(chosen) - 1)
        BY <1>1, <3>2
      <4>2. chosen'[m - 1] = r
        BY <1>1, <2>2, <4>1
      <4> QED BY <4>1, <4>2 DEF Placed
    <3> QED BY <3>1, <3>2
  <2>3. Placed(r)
    BY DEF PlaceInv
  <2> QED BY <2>1, <2>2, <2>3 DEF Placed
<1> QED BY <1>5, <1>6, <1>7 DEF PlaceInv

LEMMA PlaceStep ==
  ASSUME TypeInv, PlaceInv, [Next]_vars
  PROVE  PlaceInv'
<1>1. CASE UNCHANGED <<chosen, RankList>>
  BY <1>1 DEF PlaceInv, OneLine, ChosenOnce, Placed
<1>2. ASSUME NEW j \in JobIds, NEW k \in 1..2, Choose(j, k) PROVE PlaceInv'
  <2>1. UNCHANGED <<chosen, RankList>> \/ Takes(j, k)
    BY <1>2 DEF Choose, Takes
  <2> QED BY <1>1, <2>1, TakesPlaces
<1>3. ASSUME NEW j \in JobIds, Assign(j) PROVE PlaceInv'
  <2>1. Gives(j)
    BY <1>3 DEF Assign, Gives
  <2> QED BY <2>1, GivesPlaces
<1>4. ASSUME \/ ChooseEnds \/ WriteToFile \/ InitStackData \/ MPI_Init \/ AdoptMap
             \/ Finished \/ UNCHANGED vars \/ \E p \in Ranks : Shrink(p)
      PROVE  UNCHANGED <<chosen, RankList>>
  BY <1>4 DEF ChooseEnds, WriteToFile, InitStackData, MPI_Init, AdoptMap, Finished,
              Shrink, vars, mgrVars
<1> QED BY <1>1, <1>2, <1>3, <1>4 DEF Next

\* The manager knows no stack address, or all of them.
StackInv == StackAdd = [r \in Ranks |-> 0] \/ StackAdd = StackOf

LEMMA StackStep ==
  ASSUME StackInv, [Next]_vars
  PROVE  StackInv'
<1>1. UNCHANGED StackOf
  BY DEF Next, vars, mgrVars, appVars, Choose, ChooseEnds, Assign, WriteToFile,
         InitStackData, MPI_Init, AdoptMap, Shrink, Finished
<1>2. UNCHANGED StackAdd \/ StackAdd' = StackOf
  BY DEF Next, vars, mgrVars, Choose, ChooseEnds, Assign, WriteToFile,
         InitStackData, MPI_Init, AdoptMap, Shrink, Finished
<1> QED BY <1>1, <1>2 DEF StackInv

\* With at most two ranks per job, a job has room while a rank is to be placed.
LEMMA JobWithRoom ==
  ASSUME TypeInv, PlaceInv, NRanks <= 2 * NJobs, chosen # <<>>
  PROVE  \E j \in JobIds : Len(RankList[j]) # 2
<1> SUFFICES ASSUME \A j \in JobIds : Len(RankList[j]) = 2 PROVE FALSE
  OBVIOUS
<1> DEFINE h == chosen[1]
           D == JobIds \X (1..2)
           E == Ranks \ {h}
           g == [x \in D |-> RankList[x[1]][x[2]]]
<1>1. 1 \in 1..Len(chosen) /\ h \in Ranks
  <2>1. chosen \in Seq(Ranks)
    BY DEF TypeInv
  <2> QED BY <2>1
<1>2. \A j \in JobIds, k \in 1..2 : RankList[j][k] \in E
  <2> SUFFICES ASSUME NEW j \in JobIds, NEW k \in 1..2 PROVE RankList[j][k] \in E
    OBVIOUS
  <2>1. k \in 1..Len(RankList[j])
    OBVIOUS
  <2>2. RankList[j][k] \in Ranks
    BY <2>1, LineType
  <2>3. RankList[j][k] # h
    BY <1>1, <2>1 DEF PlaceInv, ChosenOnce
  <2> QED BY <2>2, <2>3
<1>3. g \in [D -> E]
  BY <1>2
<1>4. \A x, y \in D : g[x] = g[y] => x = y
  <2> SUFFICES ASSUME NEW x \in D, NEW y \in D, g[x] = g[y] PROVE x = y
    OBVIOUS
  <2>1. x[1] \in JobIds /\ x[2] \in 1..2 /\ y[1] \in JobIds /\ y[2] \in 1..2
    OBVIOUS
  <2>2. x[2] \in 1..Len(RankList[x[1]]) /\ y[2] \in 1..Len(RankList[y[1]])
    BY <2>1
  <2>3. RankList[x[1]][x[2]] = RankList[y[1]][y[2]]
    OBVIOUS
  <2>4. x[1] = y[1] /\ x[2] = y[2]
    BY <2>1, <2>2, <2>3 DEF PlaceInv, OneLine
  <2>5. x = <<x[1], x[2]>> /\ y = <<y[1], y[2]>>
    OBVIOUS
  <2> QED BY <2>4, <2>5
<1>5. IsFiniteSet(D) /\ Cardinality(D) = 2 * NJobs
  <2>1. IsFiniteSet(JobIds) /\ Cardinality(JobIds) = NJobs
    <3>1. IsFiniteSet(0..(NJobs - 1))
          /\ Cardinality(0..(NJobs - 1)) = IF 0 > NJobs - 1 THEN 0 ELSE (NJobs - 1) - 0 + 1
      BY Constants, FS_Interval
    <3> QED BY <3>1, Constants DEF JobIds
  <2>2. IsFiniteSet(1..2) /\ Cardinality(1..2) = 2
    <3> DEFINE A == {1}
    <3>1. IsFiniteSet(A) /\ Cardinality(A) = 1 /\ 2 \notin A
      BY FS_Singleton
    <3>2. 1..2 = A \union {2}
      OBVIOUS
    <3> HIDE DEF A
    <3>3. IsFiniteSet(A \union {2}) /\ Cardinality(A \union {2}) = Cardinality(A) + 1
      BY <3>1, FS_AddElement
    <3>4. Cardinality(A) + 1 = 2
      BY <3>1
    <3> QED BY <3>2, <3>3, <3>4, Zenon
  <2>3. IsFiniteSet(D) /\ Cardinality(D) = Cardinality(JobIds) * Cardinality(1..2)
    BY <2>1, <2>2, FS_Product
  <2> QED BY <2>1, <2>2, <2>3, Constants
<1>6. IsFiniteSet(E) /\ Cardinality(E) = NRanks - 1
  <2>1. IsFiniteSet(Ranks) /\ Cardinality(Ranks) = NRanks
    <3>1. IsFiniteSet(0..(NRanks - 1))
          /\ Cardinality(0..(NRanks - 1)) = IF 0 > NRanks - 1 THEN 0 ELSE (NRanks - 1) - 0 + 1
      BY Constants, FS_Interval
    <3> QED BY <3>1, Constants DEF Ranks
  <2> QED BY <1>1, <2>1, FS_RemoveElement
<1> HIDE DEF g, D, E
<1>7. Cardinality(E) < Cardinality(D)
  BY <1>5, <1>6, Constants
<1>8. \E x, y \in D : x # y /\ g[x] = g[y]
  BY <1>3, <1>5, <1>6, <1>7, FS_PigeonHole
<1> QED BY <1>4, <1>8

\* Where all stacks begin at the same address and there are at most two ranks
\* per job, Assign always has a job to draw: it does not loop for ever.
THEOREM AssignTerminatesHolds == Spec => []AssignTerminates
<1> DEFINE Inv == TypeInv /\ PlaceInv /\ StackInv
<1>1. Init => Inv
  BY TypeInit, FirstMap DEF Init, InitJobMap, StackInv
<1>2. Inv /\ [Next]_vars => Inv'
  BY TypeStep, PlaceStep, StackStep
<1>3. Inv => AssignTerminates
  <2> SUFFICES ASSUME Inv, \A p, q \in Ranks : StackOf[p] = StackOf[q],
                      NRanks <= 2 * NJobs, chosen # <<>>
               PROVE  Eligible(Head(chosen)) # {}
    BY DEF AssignTerminates
  <2>1. PICK j \in JobIds : Len(RankList[j]) # 2
    BY JobWithRoom
  <2>2. \A p, q \in Ranks : StackAdd[p] = StackAdd[q]
    BY DEF StackInv
  <2>3. Head(chosen) \in Ranks
    <3>1. chosen \in Seq(Ranks)
      BY DEF TypeInv
    <3> QED BY <3>1
  <2>4. RankList[j][1] \in Ranks
    <3>1. Len(RankList[j]) \in Nat /\ Len(RankList[j]) >= 1
          /\ \A k \in 1..Len(RankList[j]) : RankList[j][k] \in Ranks
      BY LineType
    <3>2. 1 \in 1..Len(RankList[j])
      BY <3>1
    <3> QED BY <3>1, <3>2
  <2>5. j \in Eligible(Head(chosen))
    BY <2>1, <2>2, <2>3, <2>4 DEF Eligible
  <2> QED BY <2>5
<1> QED BY <1>1, <1>2, <1>3, PTL DEF Spec

-----------------------------------------------------------------------------
(* A map that the complete program reads.                                  *)

\* In the complete world the rank of a process is its original rank.
LEMMA OriginalRank ==
  ASSUME world = Ranks, NEW p \in Ranks
  PROVE  rank(p) = p
<1>1. p \in Nat /\ p < NRanks /\ NRanks \in Nat
  BY Constants
<1>2. {q \in world : q < p} = 0..(p - 1)
  BY <1>1 DEF Ranks
<1>3. Cardinality(0..(p - 1)) = IF 0 > p - 1 THEN 0 ELSE (p - 1) - 0 + 1
  BY <1>1, FS_Interval
<1>4. Cardinality(0..(p - 1)) = p
  BY <1>1, <1>3
<1> QED BY <1>2, <1>4 DEF rank

\* While the file holds the manager's lines and no rank is being moved: the
\* line of a process in the file.
LEMMA LineOf ==
  ASSUME TypeInv, PlaceInv, chosen = <<>>, NEW p \in Ranks
  PROVE  \E j \in JobIds : \E k \in 1..Len(RankList[j]) : RankList[j][k] = p
BY DEF PlaceInv, Placed

\* What a process of the complete program finds in the file: it is listed
\* exactly when its line has the update bit.
LEMMA FoundOnLine ==
  ASSUME TypeInv, PlaceInv, world = Ranks, file.ranks = RankList,
         NEW j \in JobIds, NEW k \in 1..Len(RankList[j])
  PROVE  LET p == RankList[j][k]
         IN  /\ p \in Ranks
             /\ \A l \in JobIds : OnLine(p, l) <=> l = j
             /\ Listed(p) <=> j \in file.bit
             /\ NewJob(p) = IF j \in file.bit THEN j ELSE job_id[p]
<1> DEFINE p == RankList[j][k]
<1>1. p \in Ranks
  BY LineType
<1>2. rank(p) = p
  BY <1>1, OriginalRank
<1>3. \A l \in JobIds : RankList[l] \in Seq(Ranks)
  BY LineType
<1>4. \A l \in JobIds : OnLine(p, l) <=> \E m \in 1..Len(RankList[l]) : RankList[l][m] = p
  BY <1>2, <1>3 DEF OnLine, ToSet
<1>5. \A l \in JobIds : OnLine(p, l) <=> l = j
  BY <1>4 DEF PlaceInv, OneLine
<1>6. file.bit \in SUBSET JobIds
  BY DEF TypeInv, File
<1> HIDE DEF p
<1>7. Listed(p) <=> j \in file.bit
  BY <1>5, <1>6 DEF Listed
<1>8. NewJob(p) = IF j \in file.bit THEN j ELSE job_id[p]
  BY <1>5, <1>6, <1>7 DEF NewJob
<1> QED BY <1>1, <1>5, <1>7, <1>8 DEF p

\* The versions after MPI_Init, or after a map was adopted.
LEMMA ReadVersions ==
  ASSUME TypeInv, VersionInv, file.ver > adopted, PollsEachMap
  PROVE  /\ mgr = "sleep" /\ adopted = iter /\ file.ver = iter + 1 /\ chosen = <<>>
         /\ file.ranks = RankList
<1>1. iter \in Nat /\ adopted \in Nat
  BY Constants DEF TypeInv
<1>2. mgr = "sleep"
  BY <1>1 DEF VersionInv, TypeInv
<1>3. /\ file.ver = iter + 1 /\ file.ranks = RankList
      /\ adopted \in {iter, iter + 1} /\ chosen = <<>>
  BY <1>2 DEF VersionInv
<1> QED BY <1>1, <1>2, <1>3

\* J gives every process the job on whose line it is.
ByLine(J) == \A j \in JobIds : \A k \in 1..Len(RankList[j]) : J[RankList[j][k]] = j

\* Then everybody has a job, is on its line, and no job is without a process.
AtWork(J) ==
  /\ \A p \in Ranks : J[p] \in JobIds
  /\ \A j \in JobIds : \E p \in Ranks : J[p] = j
  /\ \A p \in Ranks : \E k \in 1..Len(RankList[J[p]]) : RankList[J[p]][k] = p

LEMMA SettledWorks ==
  ASSUME TypeInv, PlaceInv, chosen = <<>>, NEW J, ByLine(J)
  PROVE  AtWork(J)
<1>1. ASSUME NEW p \in Ranks
      PROVE  /\ J[p] \in JobIds
             /\ \E k \in 1..Len(RankList[J[p]]) : RankList[J[p]][k] = p
  <2>1. PICK j \in JobIds : \E k \in 1..Len(RankList[j]) : RankList[j][k] = p
    BY LineOf
  <2>2. J[p] = j
    BY <2>1 DEF ByLine
  <2> QED BY <2>1, <2>2
<1>2. ASSUME NEW j \in JobIds PROVE \E p \in Ranks : J[p] = j
  <2>1. /\ Len(RankList[j]) \in Nat /\ Len(RankList[j]) >= 1
        /\ \A k \in 1..Len(RankList[j]) : RankList[j][k] \in Ranks
    BY LineType
  <2>2. 1 \in 1..Len(RankList[j])
    BY <2>1
  <2> QED BY <2>1, <2>2 DEF ByLine
<1> QED BY <1>1, <1>2 DEF AtWork

LEMMA VersionStep ==
  ASSUME PollsEachMap, TypeInv, VersionInv, [Next]_vars
  PROVE  VersionInv'
<1>1. iter \in Nat /\ adopted \in Nat /\ Modified \in SUBSET JobIds
  BY Constants DEF TypeInv
<1>2. ASSUME NEW j \in JobIds, NEW k \in 1..2, Choose(j, k) PROVE VersionInv'
  <2>1. Modified' = Modified \/ Modified' = Modified \union {j}
    BY <1>2 DEF Choose
  <2>2. mgr = "choose" /\ UNCHANGED <<mgr, iter, StackAdd, file, appVars>>
    BY <1>2 DEF Choose
  <2> QED BY <1>1, <2>1, <2>2 DEF VersionInv, appVars
<1>3. CASE ChooseEnds
  BY <1>3 DEF ChooseEnds, VersionInv, appVars
<1>4. ASSUME NEW j \in JobIds, Assign(j) PROVE VersionInv'
  <2>1. /\ mgr = "assign" /\ Modified' = Modified \union {j}
        /\ UNCHANGED <<mgr, iter, StackAdd, file, appVars>>
    BY <1>4 DEF Assign
  <2> QED BY <1>1, <2>1 DEF VersionInv, appVars
<1>5. CASE WriteToFile
  <2>1. /\ file'.ver = iter + 1 /\ file'.ranks = RankList /\ file'.bit = Modified
        /\ mgr = "assign" /\ mgr' = "sleep" /\ chosen = <<>>
        /\ UNCHANGED <<iter, chosen, RankList, StackAdd, appVars>>
    BY <1>5 DEF WriteToFile
  <2> QED BY <1>1, <2>1 DEF VersionInv, appVars
<1>6. CASE InitStackData
  <2>1. /\ mgr = "sleep" /\ adopted = file.ver
        /\ UNCHANGED <<chosen, RankList, Modified, file, appVars>>
    BY <1>6 DEF InitStackData
  <2>2. file.ver = iter + 1 /\ app # "none"
    BY <1>1, <2>1 DEF VersionInv
  <2>3. CASE mgr' = "stopped" /\ UNCHANGED <<iter, picks, StackAdd>>
    BY <2>1, <2>2, <2>3 DEF VersionInv, appVars
  <2>4. CASE mgr' = "choose" /\ iter' = iter + 1
             /\ StackAdd' = IF iter = 0 THEN StackOf ELSE StackAdd
    BY <1>1, <2>1, <2>2, <2>4 DEF VersionInv, appVars
  <2> QED BY <1>6, <2>3, <2>4 DEF InitStackData
<1>7. CASE MPI_Init \/ AdoptMap
  <2>1. /\ file.ver > adopted /\ adopted' = file.ver /\ readers' = world
        /\ app' \in {"running", "aborted"} /\ UNCHANGED <<mgrVars, file, StackOf, world>>
    BY <1>1, <1>7 DEF MPI_Init, AdoptMap, VersionInv
  <2>2. /\ mgr = "sleep" /\ adopted = iter /\ file.ver = iter + 1 /\ chosen = <<>>
        /\ file.ranks = RankList
    BY <2>1, ReadVersions
  <2> QED BY <1>1, <2>1, <2>2 DEF VersionInv, mgrVars
<1>8. ASSUME NEW p \in Ranks, Shrink(p) PROVE VersionInv'
  BY <1>8 DEF Shrink, VersionInv, mgrVars
<1>9. CASE Finished \/ UNCHANGED vars
  BY <1>9 DEF Finished, vars, mgrVars, appVars, VersionInv
<1> QED BY <1>2, <1>3, <1>4, <1>5, <1>6, <1>7, <1>8, <1>9 DEF Next

\* Every job of the first map is adopted by everybody on its line.
LEMMA InitWorks ==
  ASSUME PollsEachMap, PolledInv, MPI_Init
  PROVE  app' = "running" /\ Working'
<1>1. TypeInv /\ PlaceInv /\ VersionInv /\ app = "none" /\ file.ver > 0
  BY DEF PolledInv, MPI_Init
<1>2. world = Ranks /\ adopted = 0 /\ iter = 0
  BY <1>1 DEF VersionInv
<1>3. mgr = "sleep" /\ file.ver = iter + 1 /\ chosen = <<>> /\ file.ranks = RankList
      /\ file.bit = JobIds
  BY <1>1, <1>2, ReadVersions DEF VersionInv
<1>4. UNCHANGED <<mgrVars, file, world>> /\ adopted' = file.ver
      /\ job_id' = [p \in Ranks |-> NewJob(p)] /\ image' = job_id'
  BY DEF MPI_Init
<1>5. \A j \in JobIds : \A k \in 1..Len(RankList[j]) :
         job_id'[RankList[j][k]] = j
  BY <1>1, <1>2, <1>3, <1>4, FoundOnLine
<1>6. Settled'
  BY <1>4, <1>5 DEF Settled, mgrVars
<1>8. /\ \A p \in Ranks : job_id'[p] \in JobIds
      /\ \A j \in JobIds : \E p \in world' : job_id'[p] = j
      /\ \A p \in Ranks : \E k \in 1..Len(file'.ranks[job_id'[p]]) :
            file'.ranks[job_id'[p]][k] = p
  <2>1. /\ \A p \in Ranks : job_id'[p] \in JobIds
        /\ \A j \in JobIds : \E p \in Ranks : job_id'[p] = j
        /\ \A p \in Ranks : \E k \in 1..Len(RankList[job_id'[p]]) :
              RankList[job_id'[p]][k] = p
    <3>1. ByLine(job_id')
      BY <1>5 DEF ByLine
    <3>2. AtWork(job_id')
      BY <1>1, <1>3, <3>1, SettledWorks
    <3> QED BY <3>2 DEF AtWork
  <2>2. world' = Ranks /\ file'.ranks = RankList
    BY <1>2, <1>3, <1>4
  <2> QED BY <2>1, <2>2
<1>9. app' = "running"
  <2>1. \A j \in JobIds : j # -1
    BY Constants
  <2> QED BY <1>8, <2>1 DEF MPI_Init
<1>10. mgr' = "sleep" /\ adopted' = iter' + 1 /\ iter' = 0
  BY <1>2, <1>3, <1>4 DEF mgrVars
<1> QED BY <1>4, <1>6, <1>8, <1>9, <1>10 DEF Working

\* A later map: the head of a line sends its image to those who joined it.
LEMMA AdoptWorks ==
  ASSUME PollsEachMap, PolledInv, AdoptMap, world = Ranks
  PROVE  app' = "running" /\ Working'
<1>1. TypeInv /\ PlaceInv /\ VersionInv /\ app = "running" /\ file.ver > adopted
  BY DEF PolledInv, AdoptMap
<1>2. mgr = "sleep" /\ adopted = iter /\ file.ver = iter + 1 /\ chosen = <<>>
      /\ file.ranks = RankList
  BY <1>1, ReadVersions
<1>3. readers = Ranks
  BY <1>1 DEF VersionInv, TypeInv
<1>4. Moving(file.bit) /\ \A p \in Ranks : image[p] = job_id[p]
  BY <1>1, <1>2, <1>3 DEF PolledInv, Working
<1>5. ASSUME NEW j \in JobIds
      PROVE  /\ 1 \in 1..Len(RankList[j]) /\ RankList[j][1] \in Ranks
             /\ Len(RankList[j]) \in Nat
  <2>1. /\ Len(RankList[j]) \in Nat /\ Len(RankList[j]) >= 1
        /\ \A k \in 1..Len(RankList[j]) : RankList[j][k] \in Ranks
    BY <1>1, LineType
  <2>2. 1 \in 1..Len(RankList[j])
    BY <2>1
  <2> QED BY <2>1, <2>2
<1>6. ASSUME NEW j \in JobIds, NEW k \in 1..Len(RankList[j])
      PROVE  /\ RankList[j][k] \in Ranks /\ NewJob(RankList[j][k]) = j
             /\ Listed(RankList[j][k]) <=> j \in file.bit
  <2>1. /\ RankList[j][k] \in Ranks
        /\ Listed(RankList[j][k]) <=> j \in file.bit
        /\ NewJob(RankList[j][k]) = IF j \in file.bit THEN j ELSE job_id[RankList[j][k]]
    BY <1>1, <1>2, FoundOnLine
  <2>2. j \notin file.bit => job_id[RankList[j][k]] = j
    BY <1>4 DEF Moving
  <2> QED BY <2>1, <2>2
<1>7. \A p \in Ranks : \E j \in JobIds : \E k \in 1..Len(RankList[j]) : RankList[j][k] = p
  BY <1>1, <1>2, LineOf
<1>8. ASSUME NEW p \in Ranks, Sender(p)
      PROVE  NewJob(p) \in JobIds /\ p = RankList[NewJob(p)][1]
  <2>1. NewJob(p) \in JobIds
    BY <1>6, <1>7
  <2>2. RankList[NewJob(p)][1] = rank(p)
    BY <1>2, <1>8 DEF Sender
  <2> QED BY <2>1, <2>2, OriginalRank
<1>9. ASSUME NEW p \in Ranks, Receiver(p)
      PROVE  /\ NewJob(p) \in JobIds
             /\ Sender(RankList[NewJob(p)][1])
             /\ StackOf[p] = StackOf[RankList[NewJob(p)][1]]
  <2>1. PICK j \in JobIds : \E k \in 1..Len(RankList[j]) : RankList[j][k] = p
    BY <1>7
  <2>2. PICK k \in 1..Len(RankList[j]) : RankList[j][k] = p
    BY <2>1
  <2> DEFINE s == RankList[j][1]
  <2>3. NewJob(p) = j /\ job_id[p] # j /\ j \in file.bit
    BY <1>6, <1>9, <2>2 DEF Receiver
  <2>4. job_id[s] = j /\ StackOf[p] = StackOf[s]
    BY <1>4, <2>2, <2>3 DEF Moving
  <2>5. k # 1 /\ Len(RankList[j]) > 1
    BY <1>5, <2>2, <2>3, <2>4
  <2>6. s \in Ranks /\ NewJob(s) = j /\ Listed(s)
    BY <1>5, <1>6, <2>3
  <2>7. rank(s) = s
    BY <2>6, OriginalRank
  <2>8. Sender(s)
    BY <1>2, <2>4, <2>5, <2>6, <2>7 DEF Sender
  <2> QED BY <2>3, <2>4, <2>8
<1>10. ASSUME NEW p \in Ranks, Receiver(p) PROVE ReceivedImage(NewJob(p)) = NewJob(p)
  <2> DEFINE j == NewJob(p)
             S == {q \in MigrationComm(j) : Sender(q)}
             s == RankList[j][1]
  <2>1. j \in JobIds /\ Sender(s)
    BY <1>9, <1>10
  <2>2. s \in Ranks /\ NewJob(s) = j /\ job_id[s] = j
    BY <1>4, <1>5, <1>6, <2>1 DEF Moving
  <2>3. s \in S
    BY <2>1, <2>2 DEF MigrationComm
  <2>4. \A q \in S : q = s
    BY <1>8 DEF MigrationComm
  <2>5. ReceivedImage(j) = IF S = {} THEN -1 ELSE image[CHOOSE q \in S : TRUE]
    BY DEF ReceivedImage
  <2> HIDE DEF S, s, j
  <2>6. (CHOOSE q \in S : TRUE) = s
    BY <2>3, <2>4
  <2>7. ReceivedImage(j) = j
    BY <1>4, <2>2, <2>3, <2>5, <2>6
  <2> QED BY <2>7 DEF j
<1>11. ~StacksDiffer
  <2> SUFFICES ASSUME NEW j \in JobIds, NEW p \in MigrationComm(j), NEW q \in MigrationComm(j)
               PROVE  StackOf[p] = StackOf[q]
    BY DEF StacksDiffer
  <2>1. \A x \in MigrationComm(j) : StackOf[x] = StackOf[RankList[j][1]]
    BY <1>8, <1>9 DEF MigrationComm
  <2> QED BY <2>1
<1>12. /\ UNCHANGED <<mgrVars, file, world>> /\ adopted' = file.ver /\ app' = app
       /\ job_id' = [p \in Ranks |-> NewJob(p)]
       /\ image' = [p \in Ranks |-> IF Receiver(p) THEN ReceivedImage(NewJob(p)) ELSE image[p]]
  <2>1. job_id' = [p \in Ranks |-> IF p \in world THEN NewJob(p) ELSE job_id[p]]
    BY DEF AdoptMap
  <2>2. image' = [p \in Ranks |-> IF p \in world /\ Receiver(p)
                                  THEN ReceivedImage(NewJob(p)) ELSE image[p]]
    BY DEF AdoptMap
  <2>3. UNCHANGED <<mgrVars, file, world>> /\ adopted' = file.ver /\ app' = app
    BY <1>11 DEF AdoptMap
  <2> QED BY <2>1, <2>2, <2>3
<1>13. \A p \in Ranks : image'[p] = job_id'[p]
  <2> SUFFICES ASSUME NEW p \in Ranks PROVE image'[p] = job_id'[p]
    OBVIOUS
  <2>1. CASE Receiver(p)
    BY <1>10, <1>12, <2>1
  <2>2. CASE ~Receiver(p)
    <3>1. NewJob(p) = job_id[p]
      BY <2>2 DEF Receiver, NewJob
    <3> QED BY <1>4, <1>12, <2>2, <3>1
  <2> QED BY <2>1, <2>2
<1>14. Settled'
  BY <1>6, <1>12 DEF Settled, mgrVars
<1>15. \A j \in JobIds : \A k \in 1..Len(RankList[j]) : job_id'[RankList[j][k]] = j
  BY <1>6, <1>12
<1>16. /\ \A p \in Ranks : job_id'[p] \in JobIds
       /\ \A j \in JobIds : \E p \in world' : job_id'[p] = j
       /\ \A p \in Ranks : \E k \in 1..Len(file'.ranks[job_id'[p]]) :
             file'.ranks[job_id'[p]][k] = p
  <2>1. /\ \A p \in Ranks : job_id'[p] \in JobIds
        /\ \A j \in JobIds : \E p \in Ranks : job_id'[p] = j
        /\ \A p \in Ranks : \E k \in 1..Len(RankList[job_id'[p]]) :
              RankList[job_id'[p]][k] = p
    <3>1. ByLine(job_id')
      BY <1>15 DEF ByLine
    <3>2. AtWork(job_id')
      BY <1>1, <1>2, <3>1, SettledWorks
    <3> QED BY <3>2 DEF AtWork
  <2>2. world' = Ranks /\ file'.ranks = RankList
    BY <1>2, <1>12
  <2> QED BY <2>1, <2>2
<1>17. mgr' = "sleep" /\ adopted' = iter' + 1 /\ iter' = iter /\ iter \in Nat
  BY <1>1, <1>2, <1>12, Constants DEF mgrVars, TypeInv
<1> QED BY <1>1, <1>12, <1>13, <1>14, <1>16, <1>17 DEF Working

\* Between two adoptions only the manager works, and processes die.
LEMMA WorkingStep ==
  ASSUME PollsEachMap, PolledInv, [Next]_vars, ~MPI_Init, ~AdoptMap,
         app' = "running", readers' = Ranks
  PROVE  Working'
<1>1. /\ app = "running" /\ readers = Ranks
      /\ UNCHANGED <<StackOf, adopted, job_id, image>>
  BY DEF Next, vars, mgrVars, appVars, Choose, ChooseEnds, Assign, WriteToFile,
         InitStackData, Shrink, Finished
<1>2. TypeInv /\ PlaceInv /\ VersionInv /\ Working
  BY <1>1 DEF PolledInv
<1>3. iter \in Nat /\ adopted \in Nat /\ adopted # 0
  BY <1>1, <1>2, Constants DEF TypeInv, VersionInv
<1>4. ASSUME UNCHANGED <<mgr, iter, file, world>>,
             mgr = "choose" => Settled', mgr = "assign" => Moving(Modified)',
             mgr = "sleep" => UNCHANGED RankList
      PROVE  Working'
  <2>1. mgr = "sleep" => (Settled' <=> Settled) /\ (Moving(file.bit)' <=> Moving(file.bit))
    BY <1>1, <1>4 DEF Settled, Moving
  <2> QED BY <1>1, <1>2, <1>4, <2>1 DEF Working
<1>5. ASSUME NEW j \in JobIds, NEW k \in 1..2, Choose(j, k) PROVE Working'
  <2>1. mgr = "choose" /\ UNCHANGED <<mgr, iter, file, world>> /\ Settled
    BY <1>2, <1>5 DEF Choose, appVars, Working
  <2>2. CASE UNCHANGED RankList
    BY <1>1, <1>4, <2>1, <2>2 DEF Settled
  <2>3. CASE Takes(j, k)
    <3>1. /\ k \in 1..Len(RankList[j])
          /\ \A l \in JobIds \ {j} : RankList'[l] = RankList[l]
          /\ Len(RankList'[j]) = Len(RankList[j]) - 1
          /\ \A m \in 1..Len(RankList'[j]) :
                RankList'[j][m] = IF m < k THEN RankList[j][m] ELSE RankList[j][m + 1]
      BY <1>2, <2>3, TakesLines
    <3>2. ASSUME NEW l \in JobIds, NEW m \in 1..Len(RankList'[l])
          PROVE  job_id[RankList'[l][m]] = l
      <4>1. CASE l # j
        BY <2>1, <3>1, <4>1 DEF Settled
      <4>2. CASE l = j
        <5>1. Len(RankList[j]) \in Nat
          BY <1>2, LineType
        <5>2. m \in 1..Len(RankList[j]) /\ m + 1 \in 1..Len(RankList[j])
          BY <3>1, <4>2, <5>1
        <5>3. job_id[RankList[j][m]] = j /\ job_id[RankList[j][m + 1]] = j
          BY <2>1, <5>2 DEF Settled
        <5> QED BY <3>1, <4>2, <5>3
      <4> QED BY <4>1, <4>2
    <3>3. Settled'
      BY <1>1, <3>2 DEF Settled
    <3> QED BY <1>4, <2>1, <3>3
  <2>4. UNCHANGED RankList \/ Takes(j, k)
    BY <1>5 DEF Choose, Takes
  <2> QED BY <2>2, <2>3, <2>4
<1>6. ASSUME ChooseEnds PROVE Working'
  <2>1. mgr = "choose" /\ mgr' = "assign" /\ UNCHANGED <<file, world, RankList, Modified>>
    BY <1>6 DEF ChooseEnds, appVars
  <2>2. Settled
    BY <1>2, <2>1 DEF Working
  <2>3. \A j \in JobIds : 1 \in 1..Len(RankList[j])
    <3> SUFFICES ASSUME NEW j \in JobIds PROVE 1 \in 1..Len(RankList[j])
      OBVIOUS
    <3>1. Len(RankList[j]) \in Nat /\ Len(RankList[j]) >= 1
      BY <1>2, LineType
    <3> QED BY <3>1
  <2>4. Moving(Modified)'
    BY <1>1, <2>1, <2>2, <2>3 DEF Settled, Moving
  <2> QED BY <1>1, <1>2, <2>1, <2>4 DEF Working
<1>7. ASSUME NEW j \in JobIds, Assign(j) PROVE Working'
  <2>1. /\ mgr = "assign" /\ UNCHANGED <<mgr, iter, file, world>>
        /\ Gives(j) /\ Modified' = Modified \union {j}
        /\ j \in Eligible(Head(chosen))
    BY <1>7 DEF Assign, appVars, Gives
  <2>2. Moving(Modified) /\ StackAdd = StackOf
    BY <1>2, <1>3, <2>1 DEF Working, VersionInv
  <2>3. /\ Head(chosen) = chosen[1]
        /\ \A l \in JobIds \ {j} : RankList'[l] = RankList[l]
        /\ Len(RankList'[j]) = Len(RankList[j]) + 1 /\ Len(RankList[j]) \in Nat
        /\ Len(RankList[j]) >= 1
        /\ \A m \in 1..Len(RankList[j]) : RankList'[j][m] = RankList[j][m]
        /\ RankList'[j][Len(RankList[j]) + 1] = chosen[1]
    BY <1>2, <2>1, GivesLines
  <2>4. StackOf[chosen[1]] = StackOf[RankList[j][1]]
    BY <2>1, <2>2, <2>3 DEF Eligible
  <2>5. ASSUME NEW l \in JobIds
        PROVE  /\ job_id[RankList'[l][1]] = l
               /\ \A m \in 1..Len(RankList'[l]) :
                     \/ job_id[RankList'[l][m]] = l
                     \/ /\ l \in Modified'
                        /\ StackOf[RankList'[l][m]] = StackOf[RankList'[l][1]]
    <3>1. CASE l # j
      BY <2>1, <2>2, <2>3, <3>1 DEF Moving
    <3>2. CASE l = j
      <4>1. RankList'[j][1] = RankList[j][1]
        BY <2>3
      <4>2. ASSUME NEW m \in 1..Len(RankList'[j])
            PROVE  m \in 1..Len(RankList[j]) \/ m = Len(RankList[j]) + 1
        BY <2>3
      <4>3. ASSUME NEW m \in 1..Len(RankList[j])
            PROVE  \/ job_id[RankList'[j][m]] = j
                   \/ StackOf[RankList'[j][m]] = StackOf[RankList'[j][1]]
        <5>1. RankList'[j][m] = RankList[j][m]
          BY <2>3
        <5>2. \/ job_id[RankList[j][m]] = j
              \/ StackOf[RankList[j][m]] = StackOf[RankList[j][1]]
          BY <2>2 DEF Moving
        <5> QED BY <4>1, <5>1, <5>2
      <4>4. StackOf[RankList'[j][Len(RankList[j]) + 1]] = StackOf[RankList'[j][1]]
        BY <2>3, <2>4, <4>1
      <4>5. job_id[RankList'[j][1]] = j /\ j \in Modified'
        BY <2>1, <2>2, <4>1 DEF Moving
      <4> QED BY <3>2, <4>2, <4>3, <4>4, <4>5
    <3> QED BY <3>1, <3>2
  <2>6. Moving(Modified)'
    BY <1>1, <2>5 DEF Moving
  <2> QED BY <1>4, <2>1, <2>6
<1>8. ASSUME WriteToFile PROVE Working'
  <2>1. /\ mgr = "assign" /\ mgr' = "sleep" /\ UNCHANGED <<iter, RankList, world>>
        /\ file'.ver = iter + 1 /\ file'.bit = Modified
    BY <1>8 DEF WriteToFile, appVars
  <2>2. adopted = iter /\ Moving(Modified)
    BY <1>2, <2>1 DEF Working, VersionInv
  <2>3. Moving(file.bit)'
    BY <1>1, <2>1, <2>2 DEF Moving
  <2>4. adopted' # file'.ver /\ adopted' # iter' + 1
    BY <1>1, <1>3, <2>1, <2>2
  <2> QED BY <1>1, <1>2, <2>1, <2>3, <2>4 DEF Working
<1>9. ASSUME InitStackData PROVE Working'
  <2>1. /\ mgr = "sleep" /\ adopted = file.ver /\ mgr' \in {"stopped", "choose"}
        /\ UNCHANGED <<RankList, file, world>>
    BY <1>9 DEF InitStackData, appVars
  <2>2. Settled
    BY <1>2, <2>1 DEF VersionInv, Working
  <2>3. Settled'
    BY <1>1, <2>1, <2>2 DEF Settled
  <2> QED BY <1>1, <1>2, <2>1, <2>3 DEF Working
<1>10. ASSUME NEW p \in Ranks, Shrink(p) PROVE Working'
  <2>1. UNCHANGED <<mgrVars, file>> /\ world' = world \ {p} /\ p \in world
        /\ \E q \in world \ {p} : job_id[q] = job_id[p]
    BY <1>10 DEF Shrink
  <2>2. \A j \in JobIds : \E q \in world' : job_id[q] = j
    BY <1>2, <2>1 DEF Working
  <2>3. /\ Settled' <=> Settled
        /\ Moving(Modified)' <=> Moving(Modified)
        /\ Moving(file.bit)' <=> Moving(file.bit)
    BY <1>1, <2>1 DEF Settled, Moving, mgrVars
  <2> QED BY <1>1, <1>2, <2>1, <2>2, <2>3 DEF Working, mgrVars
<1>11. ASSUME Finished \/ UNCHANGED vars PROVE Working'
  <2>1. UNCHANGED vars
    BY <1>11 DEF Finished
  <2> QED BY <1>2, <2>1 DEF vars, mgrVars, appVars, Working, Settled, Moving
<1> QED BY <1>5, <1>6, <1>7, <1>8, <1>9, <1>10, <1>11 DEF Next

LEMMA PolledInit == Init => PolledInv
<1> SUFFICES ASSUME Init PROVE PolledInv
  OBVIOUS
<1>1. TypeInv /\ PlaceInv
  BY TypeInit, FirstMap
<1>2. VersionInv
  BY DEF Init, InitJobMap, VersionInv
<1> QED BY <1>1, <1>2 DEF PolledInv, Init

LEMMA PolledStep ==
  ASSUME PollsEachMap, PolledInv, [Next]_vars
  PROVE  PolledInv'
<1>1. TypeInv /\ PlaceInv /\ VersionInv
  BY DEF PolledInv
<1>2. TypeInv' /\ PlaceInv' /\ VersionInv'
  BY <1>1, TypeStep, PlaceStep, VersionStep
<1>3. CASE MPI_Init
  BY <1>2, <1>3, InitWorks DEF PolledInv
<1>4. CASE AdoptMap /\ world = Ranks
  BY <1>2, <1>4, AdoptWorks DEF PolledInv
<1>5. CASE AdoptMap /\ world # Ranks
  <2>1. readers' # Ranks
    BY <1>5 DEF AdoptMap
  <2> QED BY <1>2, <2>1 DEF PolledInv
<1>6. CASE ~MPI_Init /\ ~AdoptMap
  <2>1. UNCHANGED <<app, readers>>
    BY <1>6 DEF Next, vars, mgrVars, appVars, Choose, ChooseEnds, Assign, WriteToFile,
                InitStackData, Shrink, Finished
  <2>2. app' = "aborted" => readers' # Ranks
    BY <2>1 DEF PolledInv
  <2> QED BY <1>2, <1>6, <2>2, WorkingStep DEF PolledInv
<1> QED BY <1>3, <1>4, <1>5, <1>6

\* If the program reads each map before the next is written, a map that the
\* complete program has read puts every process to work on the job it names,
\* with the memory image of that job, and leaves no job without a worker.
THEOREM MapTakesEffectHolds == PollsEachMap /\ Spec => []MapTakesEffect
<1> DEFINE Inv == PollsEachMap /\ PolledInv
<1>0. PollsEachMap /\ Init => Inv
  BY PolledInit
<1>1. Inv /\ [Next]_vars => Inv'
  BY PolledStep
<1>2. Inv => MapTakesEffect
  <2> SUFFICES ASSUME PolledInv, readers = Ranks, app = "running"
               PROVE  ImageMatchesJob /\ JobsFollowMap /\ EveryJobHasWorker
    BY DEF MapTakesEffect, ImageMatchesJob, JobsFollowMap, EveryJobHasWorker
  <2>1. Working /\ world \in SUBSET Ranks /\ file.ranks \in Lines
    BY DEF PolledInv, TypeInv, File
  <2>2. ImageMatchesJob /\ EveryJobHasWorker
    BY <2>1 DEF Working, ImageMatchesJob, EveryJobHasWorker
  <2>3. ASSUME adopted = file.ver, NEW p \in world
        PROVE  p \in ToSet(file.ranks[job_id[p]])
    <3>1. PICK k \in 1..Len(file.ranks[job_id[p]]) : file.ranks[job_id[p]][k] = p
      BY <2>1, <2>3 DEF Working
    <3>2. file.ranks[job_id[p]] \in Seq(Ranks)
      BY <2>1, <2>3 DEF Working, Lines
    <3> QED BY <3>1, <3>2 DEF ToSet
  <2> QED BY <2>2, <2>3 DEF JobsFollowMap
<1> HIDE DEF Inv
<1> QED BY <1>0, <1>1, <1>2, PTL DEF Spec

\* If the program reads each map before the next is written, it is never
\* aborted for a map that the complete program reads: every process gets a
\* job in MPI_Init, and no migration joins processes with different stacks.
THEOREM NeverAbortedHolds == PollsEachMap /\ Spec => []NeverAborted
<1> DEFINE Inv == PollsEachMap /\ PolledInv
<1>0. PollsEachMap /\ Init => Inv
  BY PolledInit
<1>1. Inv /\ [Next]_vars => Inv'
  BY PolledStep
<1>2. Inv => NeverAborted
  BY DEF PolledInv, NeverAborted
<1> HIDE DEF Inv
<1> QED BY <1>0, <1>1, <1>2, PTL DEF Spec

=============================================================================

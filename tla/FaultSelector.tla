--------------------------- MODULE FaultSelector ---------------------------
(***************************************************************************)
(* The fault injector: it reads the replication map once, draws the ranks  *)
(* to kill, and then kills them one after the other while the program and  *)
(* the process manager go on.                                              *)
(*                                                                         *)
(* A job of the map has a compute rank CR[1] and a replica CR[2], -1 if    *)
(* there is none.  A random draw is a choice; the waiting times between    *)
(* two kills are left out.                                                 *)
(***************************************************************************)
EXTENDS Integers, FiniteSets, Sequences

CONSTANTS
    Job, Rank,
    RepMaps,     \* the maps the file may hold, each in [Job -> <<rank, rank>>]
    OptChoices,  \* the SelectorOpts with which the selector may be created
    Intervals,   \* how many ranks are drawn: -n, or duration / interval
    MaxRemaps    \* bound on the maps written after the injector has read one

KILL_COMPUTE == 0
KILL_REPLICA == 1
KILL_ANY == 2

ASSUME SelectorAssumption ==
    /\ Rank \subseteq Nat /\ IsFiniteSet(Rank) /\ IsFiniteSet(Job)
    /\ RepMaps \subseteq [Job -> Rank \X (Rank \union {-1})]
    /\ OptChoices \subseteq [ImageToKill : {KILL_COMPUTE, KILL_REPLICA, KILL_ANY},
                             KillEvenIfNotReplicated : BOOLEAN]
    /\ Intervals \in Nat /\ MaxRemaps \in Nat

\* A rank stands in one place of the map: the manager moves ranks between the
\* lines and copies none.
ASSUME RanksDistinct ==
    \A m \in RepMaps, i, j \in Job, k, l \in 1..2 :
        m[i][k] = m[j][l] /\ m[i][k] # -1 => i = j /\ k = l

VARIABLES
    opts,
    RepMap,      \* the map as the selector read it
    RankQueued,
    cnt,         \* cnt of getNew
    drawn,       \* i of NextN
    queue,       \* queuedArray, then what Start has left to kill
    phase,       \* "select", "inject", "exited"
    killed,      \* the ranks that are dead
    jobs,        \* the map by which the program runs now
    remaps

vars == <<opts, RepMap, RankQueued, cnt, drawn, queue, phase, killed, jobs, remaps>>

RanksOf(m, j) == {m[j][1], m[j][2]} \ {-1}

-----------------------------------------------------------------------------
(* The selector.                                                           *)

\* randomRankIndex: compute rank, replica or either of them.
RandomRankIndex ==
    CASE opts.ImageToKill = KILL_COMPUTE -> {1}
      [] opts.ImageToKill = KILL_REPLICA -> {2}
      [] opts.ImageToKill = KILL_ANY -> {1, 2}

\* Mutant: only an absent partner protects a rank, not one that will die.
Spared_PartnerExists(j, k) ==
    \/ RepMap[j][k] < 0
    \/ ~opts.KillEvenIfNotReplicated /\ RepMap[j][3 - k] = -1

\* The draws that are thrown away: there is no such rank, or it is the last
\* one of its job that would stay alive.
Spared(j, k) ==
    \/ RepMap[j][k] < 0
    \/ /\ ~opts.KillEvenIfNotReplicated
       /\ RepMap[j][3 - k] = -1 \/ RepMap[j][3 - k] \in RankQueued

\* Mutants: a rank that was drawn before is drawn again for ever.
AlreadyQueued_Forever(r) ==
    /\ r \in RankQueued
    /\ cnt' = IF cnt = 5 THEN 0 ELSE cnt + 1
    /\ UNCHANGED <<drawn, queue, RankQueued>>
AlreadyQueued_NoLimit(r) ==
    /\ r \in RankQueued
    /\ cnt' = cnt + 1
    /\ UNCHANGED <<drawn, queue, RankQueued>>

\* Drawing a rank again is tried five times; then the round gives up.
AlreadyQueued(r) ==
    /\ r \in RankQueued
    /\ IF cnt = 5 THEN drawn' = drawn + 1 /\ cnt' = 0
                  ELSE cnt' = cnt + 1 /\ UNCHANGED drawn
    /\ UNCHANGED <<queue, RankQueued>>

\* Mutant: the rank is not remembered.
Queue_Forgets(r) ==
    /\ r \notin RankQueued
    /\ queue' = Append(queue, r)
    /\ drawn' = drawn + 1 /\ cnt' = 0
    /\ UNCHANGED RankQueued
Queue(r) ==
    /\ r \notin RankQueued
    /\ RankQueued' = RankQueued \union {r}
    /\ queue' = Append(queue, r)
    /\ drawn' = drawn + 1 /\ cnt' = 0

\* One iteration of the loop of getNew in a round of NextN.  A draw that is
\* thrown away changes nothing.
getNew(j, k) ==
    /\ phase = "select" /\ drawn < Intervals
    /\ k \in RandomRankIndex /\ ~Spared(j, k)
    /\ AlreadyQueued(RepMap[j][k]) \/ Queue(RepMap[j][k])
    /\ UNCHANGED <<opts, RepMap, phase, killed, jobs, remaps>>

NextN ==
    /\ phase = "select" /\ drawn = Intervals
    /\ phase' = "inject"
    /\ UNCHANGED <<opts, RepMap, RankQueued, cnt, drawn, queue, killed, jobs, remaps>>

-----------------------------------------------------------------------------
(* The injector: ssh to the host of the first rank left and kill -9.  A    *)
(* process that is not running, or an ssh that fails, ends the injector.   *)

kill ==
    /\ phase = "inject" /\ queue # <<>>
    /\ \/ /\ Head(queue) \notin killed
          /\ killed' = killed \union {Head(queue)}
          /\ queue' = Tail(queue)
          /\ UNCHANGED phase
       \/ phase' = "exited" /\ UNCHANGED <<killed, queue>>
    /\ UNCHANGED <<opts, RepMap, RankQueued, cnt, drawn, jobs, remaps>>

-----------------------------------------------------------------------------
\* Meanwhile the manager moves the replica of one job to a job without one
\* and the program adopts the new map (module ReplicaMap).
Remap(i, j) ==
    /\ remaps < MaxRemaps
    /\ jobs[i][2] # -1 /\ jobs[j][2] = -1
    /\ \E k \in 1..2 :
          jobs' = [jobs EXCEPT ![i] = <<@[3 - k], -1>>, ![j] = <<@[1], jobs[i][k]>>]
    /\ remaps' = remaps + 1
    /\ UNCHANGED <<opts, RepMap, RankQueued, cnt, drawn, queue, phase, killed>>

-----------------------------------------------------------------------------
Init ==
    /\ opts \in OptChoices
    /\ RepMap \in RepMaps
    /\ jobs = RepMap
    /\ RankQueued = {} /\ cnt = 0 /\ drawn = 0 /\ queue = <<>>
    /\ phase = "select" /\ killed = {} /\ remaps = 0

Next ==
    \/ \E j \in Job, k \in 1..2 : getNew(j, k)
    \/ NextN
    \/ kill
    \/ \E i, j \in Job : Remap(i, j)

\* Every draw that is not thrown away comes up sooner or later, and the
\* injector goes on.
Spec ==
    /\ Init /\ [][Next]_vars
    /\ WF_vars(\E j \in Job, k \in 1..2 : getNew(j, k))
    /\ WF_vars(NextN)

-----------------------------------------------------------------------------
\* Every variable keeps its type; the counters stay within their limits.
TypeOK ==
    /\ opts \in OptChoices
    /\ RepMap \in RepMaps /\ jobs \in [Job -> Rank \X (Rank \union {-1})]
    /\ RankQueued \subseteq Rank /\ killed \subseteq Rank
    /\ cnt \in 0..5 /\ drawn \in 0..Intervals /\ remaps \in 0..MaxRemaps
    /\ queue \in Seq(Rank)
    /\ phase \in {"select", "inject", "exited"}

\* Unless it is told otherwise the injector never ends the program: as long
\* as the map it has read is the one in use, no sequence of draws and kills
\* -- also when it stops half way -- takes the last worker of a job.
JobsSurvive ==
    ~opts.KillEvenIfNotReplicated /\ remaps = 0 =>
        \A j \in Job : RanksOf(jobs, j) \ killed # {}

\* The same without the condition on the map; the manager does not tell the
\* injector when it writes a new one.
JobsAlwaysSurvive ==
    ~opts.KillEvenIfNotReplicated => \A j \in Job : RanksOf(jobs, j) \ killed # {}

\* No rank is drawn twice, so that no kill finds its process gone and ends
\* the injector before the rest of the queue.
VictimsRunning ==
    /\ \A i, j \in DOMAIN queue : queue[i] = queue[j] => i = j
    /\ \A i \in DOMAIN queue : queue[i] \notin killed

\* The draws come to an end if some job is replicated, however few ranks are
\* left that may die.
SelectionEnds ==
    (\E j \in Job : RepMap[j][2] # -1) => <>(phase # "select")

=============================================================================

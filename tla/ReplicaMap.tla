----------------------------- MODULE ReplicaMap -----------------------------
(***************************************************************************)
(* The process manager and the adoption of its replication maps.           *)
(*                                                                         *)
(* The manager (Go) moves ranks between jobs at random and writes the map  *)
(* file; the processes of the MPI program (C) pick a new map up at their   *)
(* next MPI call, change jobs accordingly, and the processes that entered  *)
(* a job receive the memory image of the first worker of its line.  The    *)
(* manager never asks whether the program has read a map before it writes  *)
(* the next one.                                                           *)
(*                                                                         *)
(* Adopting a map is one step here: all live processes take it together.   *)
(* A map that is written while it is being read belongs to the polling     *)
(* protocol, not to this module.                                           *)
(***************************************************************************)
EXTENDS Naturals, Integers, FiniteSets, Sequences, SequencesExt

CONSTANTS
    NJobs, NRanks,  \* manager -j, -r
    NChoose,        \* manager -c (0 means r - j)
    NosUpdates,     \* manager -i
    Stacks,         \* the layouts [Ranks -> address] of the stacks considered
    PollsEachMap,   \* the program reads each map before the next is written
    MaxCrash        \* bound on the processes that die between two maps

JobIds == 0..(NJobs - 1)
Ranks == 0..(NRanks - 1)

ASSUME ManagerAssumption ==
    /\ NJobs \in Nat \ {0} /\ NRanks \in Nat /\ NJobs <= NRanks
    /\ NChoose \in Nat /\ NosUpdates \in Nat \ {0} /\ MaxCrash \in Nat
    /\ PollsEachMap \in BOOLEAN
    /\ Stacks \subseteq [Ranks -> Nat \ {0}] /\ Stacks # {}

VARIABLES
    \* the manager
    mgr,       \* "choose", "assign", "sleep" or "stopped"
    iter,      \* i, the update being made
    picks,     \* iterations of the loop in Choose
    chosen,    \* the ranks taken out of their jobs, in order
    RankList,  \* RankList[j]: the ranks of job j
    Modified,  \* the jobs with Modified = 1
    StackAdd,  \* the stack addresses the manager knows
    \* the map file
    file,      \* [ver, bit, ranks], ver = 0 before the first write
    \* the MPI program
    StackOf,   \* the stack address of every process: never changes
    app,       \* "none", "running" or "aborted"
    adopted,   \* the version the processes parsed last
    readers,   \* who parsed it (to state properties)
    world,     \* members of rep_mpi_comm_world
    job_id,    \* node.job_id
    image      \* the job whose memory image a process holds

mgrVars == <<mgr, iter, picks, chosen, RankList, Modified, StackAdd>>
appVars == <<StackOf, app, adopted, readers, world, job_id, image>>
vars == <<mgrVars, file, appVars>>

-----------------------------------------------------------------------------
(* The manager.                                                            *)

InitJobMap ==
    /\ RankList = [j \in JobIds |->
          [k \in 1..Cardinality({r \in Ranks : r % NJobs = j})
              |-> j + (k - 1) * NJobs]]
    /\ Modified = JobIds
    /\ StackAdd = [r \in Ranks |-> 0]

\* How many ranks an update moves: -c, by default all the replicas.
MaxChosen == IF NChoose = 0 THEN NRanks - NJobs ELSE NChoose

\* Mutant: a job may give up its only rank.
Choose_TakesLast(j, k) ==
    /\ mgr = "choose" /\ picks < NJobs \div 2 /\ Len(chosen) < MaxChosen
    /\ k <= Len(RankList[j])
    /\ picks' = picks + 1
    /\ chosen' = Append(chosen, RankList[j][k])
    /\ RankList' = [RankList EXCEPT ![j] = RemoveAt(@, k)]
    /\ Modified' = Modified \union {j}
    /\ UNCHANGED <<mgr, iter, StackAdd, file, appVars>>

\* One iteration of the loop in Choose: a random job gives up its first or
\* its second rank, unless it has only one.
Choose(j, k) ==
    /\ mgr = "choose" /\ picks < NJobs \div 2 /\ Len(chosen) < MaxChosen
    /\ picks' = picks + 1
    /\ IF Len(RankList[j]) = 1
       THEN UNCHANGED <<chosen, RankList, Modified>>
       ELSE /\ chosen' = Append(chosen, RankList[j][k])
            /\ RankList' = [RankList EXCEPT ![j] = RemoveAt(@, k)]
            /\ Modified' = Modified \union {j}
    /\ UNCHANGED <<mgr, iter, StackAdd, file, appVars>>

ChooseEnds ==
    /\ mgr = "choose" /\ (picks = NJobs \div 2 \/ Len(chosen) >= MaxChosen)
    /\ mgr' = "assign"
    /\ UNCHANGED <<iter, picks, chosen, RankList, Modified, StackAdd, file,
                   appVars>>

\* Mutant: a rank joins a job whose workers have another stack.
Eligible_AnyStack(r) == {j \in JobIds : Len(RankList[j]) # 2}

\* The jobs that Assign may give the next rank to; it draws jobs until it
\* hits one of them.  (PrevJob is always -1, so it excludes nothing.)
Eligible(r) ==
    {j \in JobIds : /\ Len(RankList[j]) # 2
                    /\ StackAdd[RankList[j][1]] = StackAdd[r]}

\* Mutant: the job that gets a rank is not marked.
Assign_NotModified(j) ==
    /\ mgr = "assign" /\ chosen # <<>>
    /\ j \in Eligible(Head(chosen))
    /\ RankList' = [RankList EXCEPT ![j] = Append(@, Head(chosen))]
    /\ chosen' = Tail(chosen)
    /\ UNCHANGED <<mgr, iter, picks, Modified, StackAdd, file, appVars>>

Assign(j) ==
    /\ mgr = "assign" /\ chosen # <<>>
    /\ j \in Eligible(Head(chosen))
    /\ RankList' = [RankList EXCEPT ![j] = Append(@, Head(chosen))]
    /\ Modified' = Modified \union {j}
    /\ chosen' = Tail(chosen)
    /\ UNCHANGED <<mgr, iter, picks, StackAdd, file, appVars>>

\* WriteToFile and ResetModified.
WriteToFile ==
    /\ mgr = "assign" /\ chosen = <<>>
    /\ file' = [ver |-> iter + 1, bit |-> Modified, ranks |-> RankList]
    /\ Modified' = {}
    /\ mgr' = "sleep"
    /\ UNCHANGED <<iter, picks, chosen, RankList, StackAdd, appVars>>

\* Mutant: the addresses are only read for as many ranks as there are jobs.
InitStackData_JobsOnly ==
    /\ mgr = "sleep"
    /\ PollsEachMap => adopted = file.ver
    /\ iter + 1 # NosUpdates
    /\ mgr' = "choose" /\ iter' = iter + 1 /\ picks' = 0
    /\ StackAdd' = [r \in Ranks |-> IF r < NJobs THEN StackOf[r] ELSE 0]
    /\ UNCHANGED <<chosen, RankList, Modified, file, appVars>>

\* After the pause: InitStackData learns the stack addresses after the first
\* update (and panics if the program has not written them), then the next
\* update begins.
InitStackData ==
    /\ mgr = "sleep"
    /\ PollsEachMap => adopted = file.ver
    /\ IF app = "none" \/ iter + 1 = NosUpdates
       THEN mgr' = "stopped" /\ UNCHANGED <<iter, picks, StackAdd>>
       ELSE /\ mgr' = "choose"
            /\ iter' = iter + 1
            /\ picks' = 0
            /\ StackAdd' = IF iter = 0 THEN StackOf ELSE StackAdd
    /\ UNCHANGED <<chosen, RankList, Modified, file, appVars>>

-----------------------------------------------------------------------------
(* The MPI program.                                                        *)

\* node.rank: the rank in the current world.
rank(p) == Cardinality({q \in world : q < p})

\* parse_map_file at p: its line in the file (the ranks of the file are
\* compared with node.rank), its new job and its part in the migration.
OnLine(p, j) == rank(p) \in ToSet(file.ranks[j])
Listed(p) == \E j \in file.bit : OnLine(p, j)
NewJob(p) == IF Listed(p) THEN CHOOSE j \in file.bit : OnLine(p, j)
                          ELSE job_id[p]
Receiver(p) == Listed(p) /\ NewJob(p) # job_id[p]
Sender(p) ==
    /\ Listed(p) /\ NewJob(p) = job_id[p]
    /\ Len(file.ranks[NewJob(p)]) > 1
    /\ file.ranks[NewJob(p)][1] = rank(p)

\* create_migration_comm: one communicator per job, the sender in front.
MigrationComm(j) == {p \in world : NewJob(p) = j /\ (Sender(p) \/ Receiver(p))}

\* Mutant: the communicator is not ordered by role; its first rank sends.
ReceivedImage_ByRank(j) ==
    image[CHOOSE p \in MigrationComm(j) : \A q \in MigrationComm(j) : p <= q]

\* init_rep at a receiver of job j: the image of the sender.  Without a
\* sender everybody receives, and what is broadcast was never set: the
\* process is left with no image it could compute from (-1).
ReceivedImage(j) ==
    LET S == {p \in MigrationComm(j) : Sender(p)}
    IN  IF S = {} THEN -1 ELSE image[CHOOSE p \in S : TRUE]

\* transfer_stack_seg aborts the program (800) if the stacks of the members
\* of a migration do not begin at the same address.
StacksDiffer ==
    \E j \in JobIds : \E p, q \in MigrationComm(j) : StackOf[p] # StackOf[q]

\* MPI_Init, init_node: every process is new to its job, which is not a
\* migration.  A process that no line with update bit 1 names keeps job -1,
\* a colour PMPI_Comm_split rejects: the error handler aborts the program.
MPI_Init ==
    /\ app = "none" /\ file.ver > 0
    /\ adopted' = file.ver /\ readers' = world
    /\ job_id' = [p \in Ranks |-> NewJob(p)]
    /\ image' = job_id'
    /\ app' = IF \E p \in Ranks : job_id'[p] = -1 THEN "aborted" ELSE "running"
    /\ UNCHANGED <<mgrVars, file, StackOf, world>>

\* is_file_update_set: the new map is parsed by every process, and the
\* receivers of every job get the image of its sender (init_rep).
AdoptMap ==
    /\ app = "running" /\ file.ver > adopted
    /\ adopted' = file.ver /\ readers' = world
    /\ job_id' = [p \in Ranks |-> IF p \in world THEN NewJob(p) ELSE job_id[p]]
    /\ image' = [p \in Ranks |->
                   IF p \in world /\ Receiver(p) THEN ReceivedImage(NewJob(p))
                                                 ELSE image[p]]
    /\ app' = IF StacksDiffer THEN "aborted" ELSE app
    /\ UNCHANGED <<mgrVars, file, StackOf, world>>

\* A process dies and a collective call shrinks the world (module
\* Collective); its job has another worker.
Shrink(p) ==
    /\ app = "running" /\ p \in world
    /\ NRanks - Cardinality(world) < MaxCrash
    /\ \E q \in world \ {p} : job_id[q] = job_id[p]
    /\ world' = world \ {p}
    /\ UNCHANGED <<mgrVars, file, StackOf, app, adopted, readers, job_id, image>>

-----------------------------------------------------------------------------
Init ==
    /\ mgr = "choose" /\ iter = 0 /\ picks = 0 /\ chosen = <<>>
    /\ InitJobMap
    /\ file = [ver |-> 0, bit |-> {}, ranks |-> [j \in JobIds |-> <<>>]]
    /\ StackOf \in Stacks
    /\ app = "none" /\ adopted = 0 /\ readers = {} /\ world = Ranks
    /\ job_id = [p \in Ranks |-> -1]
    /\ image = [p \in Ranks |-> -1]

\* The manager has stopped and the program has read its last map.
Finished ==
    /\ mgr = "stopped" /\ (app = "running" => adopted = file.ver)
    /\ app # "none"
    /\ UNCHANGED vars

Next ==
    \/ \E j \in JobIds, k \in 1..2 : Choose(j, k)
    \/ ChooseEnds
    \/ \E j \in JobIds : Assign(j)
    \/ WriteToFile
    \/ InitStackData
    \/ MPI_Init
    \/ AdoptMap
    \/ \E p \in Ranks : Shrink(p)
    \/ Finished

Spec == Init /\ [][Next]_vars

-----------------------------------------------------------------------------
\* Every variable keeps its type, and no line of a map is empty: the assertion
\* w_c > 0 of parse_map_file holds for every map that is written.
TypeOK ==
    /\ mgr \in {"choose", "assign", "sleep", "stopped"}
    /\ iter \in 0..NosUpdates /\ picks \in 0..NJobs
    /\ chosen \in Seq(Ranks)
    /\ RankList \in [JobIds -> Seq(Ranks) \ {<<>>}]
    /\ Modified \subseteq JobIds
    /\ StackAdd \in [Ranks -> Nat] /\ StackOf \in Stacks
    /\ file.ver \in 0..NosUpdates /\ file.bit \subseteq JobIds
    /\ file.ranks \in [JobIds -> Seq(Ranks)]
    /\ file.ver > 0 => \A j \in JobIds : file.ranks[j] # <<>>
    /\ app \in {"none", "running", "aborted"} /\ adopted \in 0..NosUpdates
    /\ world \subseteq Ranks /\ readers \subseteq Ranks
    /\ job_id \in [Ranks -> -1..(NJobs - 1)]
    /\ image \in [Ranks -> -1..(NJobs - 1)]

\* Where all stacks begin at the same address and there are at most two ranks
\* per job, a rank taken from its job by Choose always finds a job: Assign,
\* which draws jobs until one fits, comes to an end.  (With 2 jobs and 5 ranks
\* Choose can leave every job with two, and Assign draws for ever.)
AssignTerminates ==
    /\ \A p, q \in Ranks : StackOf[p] = StackOf[q]
    /\ NRanks <= 2 * NJobs
    /\ mgr = "assign" /\ chosen # <<>>
    => Eligible(Head(chosen)) # {}

\* A process computes for its job from a memory image of that job: whoever
\* entered a job has received it from a process that was in the job before.
ImageMatchesJob ==
    app = "running" => \A p \in world : image[p] = job_id[p]

\* The processes have the jobs that the map they read gives to them, by
\* their original ranks.
JobsFollowMap ==
    app = "running" /\ adopted = file.ver =>
        \A p \in world : p \in ToSet(file.ranks[job_id[p]])

\* No job of the running program is without a worker.
EveryJobHasWorker ==
    app = "running" => \A j \in JobIds : \E p \in world : job_id[p] = j

\* A map that was read by the complete program puts every process to work on
\* the job it names, with the memory of that job, and leaves no job without a
\* worker; failures after it was read change nothing of that.
MapTakesEffect ==
    readers = Ranks => ImageMatchesJob /\ JobsFollowMap /\ EveryJobHasWorker

\* The complete program survives its maps: every process gets a job in
\* MPI_Init, and no migration is asked for between processes with different
\* stacks.
NeverAborted == app = "aborted" => readers # Ranks

=============================================================================

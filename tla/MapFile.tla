------------------------------ MODULE MapFile ------------------------------
(***************************************************************************)
(* How the processes pick up a new replication map, checkpoint and start   *)
(* again.                                                                  *)
(*                                                                         *)
(* At the start of every collective call each process looks at the time    *)
(* stamp of the map file by itself.  One that finds it newer enters an     *)
(* Allreduce, which also asks whether a nonblocking receive is pending     *)
(* anywhere; then everybody reads the file, the communicators are rebuilt, *)
(* the master of every job writes the checkpoint of its job, and who has   *)
(* entered a job receives the memory of its first worker.  A line counts   *)
(* for the processes on it only if its update bit is set, which the        *)
(* manager does for the lines it has changed since the map before.         *)
(* MPI_Init finds the checkpoint of its job, if there is one, and          *)
(* continues from it by way of the same function.                          *)
(*                                                                         *)
(* The program is a loop of NCalls collective calls.  Its memory is        *)
(* abstracted to its place in this loop.  The processes do not fail one by *)
(* one here (see Collective); the program as a whole may stop and be       *)
(* started again.  Writing the map is one step.                            *)
(***************************************************************************)
EXTENDS Integers, FiniteSets, Sequences

CONSTANTS
    Proc,
    Job,
    RankList,      \* RankList[v][j]: the ranks of job j in version v of the map
    Bit,           \* Bit[v]: the jobs whose line in version v has update bit 1
    NCalls,        \* the collective calls of the program's loop
    PendingAt,     \* PendingAt[j]: the calls before which job j posts a receive
                   \*   that it waits for after the call
    SleepTime,     \* seconds between two maps: manager -t
    WritesAnyTime, \* a map may be written while processes look at the file, and
                   \*   before the last one was adopted
    HaltsAnyTime,  \* the program may stop while the checkpoints are written, and
                   \*   be started under a map that does not mark every line
    MaxVer,        \* bound on the maps
    MaxHalts       \* bound on the restarts

\* A checkpoint file: not there, opened for writing and not complete, or
\* made at a call under a map.
None == [state |-> "none", pos |-> 0, ver |-> 0]
Torn == [state |-> "torn", pos |-> 0, ver |-> 0]
Saved(c, v) == [state |-> "saved", pos |-> c, ver |-> v]

NoCall == NCalls  \* not the number of a call
NoJob == -1       \* node.job_id before the first map

ASSUME MapFileAssumption ==
    /\ IsFiniteSet(Proc) /\ Proc # {}
    /\ NCalls \in Nat \ {0} /\ MaxVer \in Nat \ {0} /\ MaxHalts \in Nat
    /\ SleepTime \in Nat
    /\ RankList \in [1..MaxVer -> [Job -> Seq(Proc) \ {<<>>}]]
    /\ \A v \in 1..MaxVer, p \in Proc :
          \E j \in Job, i \in 1..Cardinality(Proc) :
             i \in DOMAIN RankList[v][j] /\ RankList[v][j][i] = p
    /\ \A v \in 1..MaxVer, j, k \in Job :
          \A i \in DOMAIN RankList[v][j], l \in DOMAIN RankList[v][k] :
             RankList[v][j][i] = RankList[v][k][l] => j = k
    /\ PendingAt \in [Job -> SUBSET (0..(NCalls - 1))]
    /\ WritesAnyTime \in BOOLEAN /\ HaltsAnyTime \in BOOLEAN
    /\ NoJob \notin Job

\* The maps of the manager (module ReplicaMap): the first one marks every line,
\* an unmarked line is that of the map before, and the first rank of a line
\* was on it before, since ranks are taken out of a line or appended to it and
\* one always stays.
ASSUME MapsAssumption ==
    /\ Bit \in [1..MaxVer -> SUBSET Job] /\ Bit[1] = Job
    /\ \A v \in 1..(MaxVer - 1), j \in Job :
          /\ j \notin Bit[v + 1] => RankList[v + 1][j] = RankList[v][j]
          /\ \E i \in DOMAIN RankList[v][j] :
                RankList[v][j][i] = Head(RankList[v + 1][j])

VARIABLES
    file,              \* the map file: [ver, mtime]
    phase,             \* where a process is, see below
    pos,               \* the collective call it executes next
    map,               \* the version of the map it has parsed
    job_id,            \* node.job_id
    transit,           \* node.node_transit_state: "none", "sender", "receiver"
    last_file_update,
    ckpt_restore,      \* the processes with ckpt_restore = RESTORE_YES
    ckpt,              \* the checkpoint file of every job
    cut,               \* the call of the last checkpoint that all jobs completed
    halts

nodeVars == <<map, job_id, transit>>
ckptVars == <<ckpt, cut>>
vars == <<file, phase, pos, nodeVars, last_file_update, ckpt_restore, ckptVars, halts>>

\* MPI_Init: "init", "comms" (update_comms), "stat", "info" (network_stat_init,
\* save_rep_and_stack_info), "barrier".  Between two calls: "app".  In
\* is_file_update_set: "allreduce", "parse", "split" (from update_comms to
\* save_rep_and_stack_info), "open" and "save" (init_ckpt), "rep" (init_rep),
\* "restore".  In the rest of the call: "collective".  "crashed": aborted, or
\* running without a memory to compute from.
InitPhases == {"init", "comms", "stat", "info", "barrier"}
PollPhases == {"allreduce", "parse", "split", "open", "save", "rep", "restore"}
Phases == InitPhases \union PollPhases \union {"app", "collective", "crashed"}

\* The job whose line of version v names p.
JobIn(v, p) ==
    CHOOSE j \in Job : \E i \in DOMAIN RankList[v][j] : RankList[v][j][i] = p
Marked(v, p) == JobIn(v, p) \in Bit[v]

\* What parse_map_file makes of version v: the job of p, which only a marked
\* line changes, ...
ParsedJob(v, p) == IF Marked(v, p) THEN JobIn(v, p) ELSE job_id[p]

\* Mutant: the sender is looked for in lines of more than two.
Transit_Larger(v, p) ==
    LET line == RankList[v][JobIn(v, p)]
    IN  CASE Marked(v, p) /\ JobIn(v, p) # job_id[p] -> "receiver"
          [] Marked(v, p) /\ JobIn(v, p) = job_id[p] /\ p = Head(line) /\ Len(line) > 2
                -> "sender"
          [] OTHER -> "none"

\* ... and its part in the migration: who is new on a marked line receives
\* the memory of the first of the line, unless this one is new as well.
Transit(v, p) ==
    LET line == RankList[v][JobIn(v, p)]
    IN  CASE Marked(v, p) /\ JobIn(v, p) # job_id[p] -> "receiver"
          [] Marked(v, p) /\ JobIn(v, p) = job_id[p] /\ p = Head(line) /\ Len(line) > 1
                -> "sender"
          [] OTHER -> "none"

\* node_checkpoint_master: p is the first of a line, marked or not, of the map
\* it parsed.
Master(p) == p = Head(RankList[map[p]][JobIn(map[p], p)])

All(ph) == \A p \in Proc : phase[p] = ph
To(p, ph) == phase' = [phase EXCEPT ![p] = ph]

Init ==
    /\ file = [ver |-> 1, mtime |-> 1]
    /\ phase = [p \in Proc |-> "init"]
    /\ pos = [p \in Proc |-> 0]
    /\ map = [p \in Proc |-> 0]
    /\ job_id = [p \in Proc |-> NoJob]
    /\ transit = [p \in Proc |-> "none"]
    /\ last_file_update = [p \in Proc |-> 0]
    /\ ckpt_restore = {}
    /\ ckpt = [j \in Job |-> None]
    /\ cut = NoCall
    /\ halts = 0

-----------------------------------------------------------------------------
(* MPI_Init.                                                               *)

\* init_node reads the map.  Everybody is new to its job, which is not a
\* migration.
init_node(p) ==
    /\ phase[p] = "init"
    /\ map' = [map EXCEPT ![p] = file.ver]
    /\ job_id' = [job_id EXCEPT ![p] = ParsedJob(file.ver, p)]
    /\ transit' = [transit EXCEPT ![p] = "none"]
    /\ To(p, "comms")
    /\ UNCHANGED <<file, pos, last_file_update, ckpt_restore, ckptVars, halts>>

\* Its update_comms, which all processes enter.  A process without a job has
\* -1 for the colour of PMPI_Comm_split, which is an error: the handler aborts.
InitComms ==
    /\ All("comms")
    /\ phase' = [p \in Proc |-> IF \E q \in Proc : job_id[q] = NoJob THEN "crashed"
                                                                   ELSE "stat"]
    /\ UNCHANGED <<file, pos, nodeVars, last_file_update, ckpt_restore, ckptVars, halts>>

does_ckpt_file_exists(p) == ckpt[job_id[p]] # None

\* With the look for a checkpoint that follows it.
set_last_file_update(p) ==
    /\ phase[p] = "stat"
    /\ last_file_update' = [last_file_update EXCEPT ![p] = file.mtime]
    /\ ckpt_restore' = IF does_ckpt_file_exists(p) THEN ckpt_restore \union {p}
                                                 ELSE ckpt_restore
    /\ To(p, "info")
    /\ UNCHANGED <<file, pos, nodeVars, ckptVars, halts>>

\* network_stat_init and save_rep_and_stack_info write files together.  Then
\* a process with a checkpoint calls is_file_update_set, the others wait in
\* the barrier at the end of MPI_Init.
save_rep_and_stack_info ==
    /\ All("info")
    /\ phase' = [p \in Proc |-> IF p \in ckpt_restore THEN "allreduce" ELSE "barrier"]
    /\ UNCHANGED <<file, pos, nodeVars, last_file_update, ckpt_restore, ckptVars, halts>>

PMPI_Barrier ==
    /\ All("barrier")
    /\ phase' = [p \in Proc |-> "app"]
    /\ UNCHANGED <<file, pos, nodeVars, last_file_update, ckpt_restore, ckptVars, halts>>

-----------------------------------------------------------------------------
(* is_file_update_set, at the start of every collective call.              *)

\* Mutant: a map that is not newer counts as modified.
Modified_NotStrict(p) == p \in ckpt_restore \/ file.mtime >= last_file_update[p]
Modified(p) == p \in ckpt_restore \/ file.mtime > last_file_update[p]

is_file_modified(p) ==
    /\ phase[p] = "app"
    /\ IF Modified(p)
       THEN /\ To(p, "allreduce")
            /\ last_file_update' = [last_file_update EXCEPT
                  ![p] = IF p \in ckpt_restore THEN @ ELSE file.mtime]
       ELSE To(p, "collective") /\ UNCHANGED last_file_update
    /\ UNCHANGED <<file, pos, nodeVars, ckpt_restore, ckptVars, halts>>

\* __request_pending # 0; a process that starts again has posted nothing.
RequestPending(p) == p \notin ckpt_restore /\ pos[p] \in PendingAt[job_id[p]]

\* Mutants: the time stamp is kept; it is marked as unknown instead.
Postpone_KeepsTime == UNCHANGED last_file_update
Postpone_Unknown == last_file_update' = [p \in Proc |-> 0 - 1]
\* last_file_update--: the next call finds the map modified again.
Postpone == last_file_update' = [p \in Proc |-> last_file_update[p] - 1]

\* The Allreduce over __request_pending.  With a receive pending anywhere the
\* map has to wait.  A process that restores does not parse the map.
PMPI_Allreduce ==
    /\ All("allreduce")
    /\ \/ /\ \E p \in Proc : RequestPending(p)
          /\ phase' = [p \in Proc |-> "collective"]
          /\ Postpone
       \/ /\ \A p \in Proc : ~RequestPending(p)
          /\ phase' = [p \in Proc |-> IF p \in ckpt_restore THEN "split" ELSE "parse"]
          /\ UNCHANGED last_file_update
    /\ UNCHANGED <<file, pos, nodeVars, ckpt_restore, ckptVars, halts>>

\* Mutant: an unmarked line is skipped ("continue").
parse_map_file_MarkedOnly(p) ==
    /\ phase[p] = "parse"
    /\ map' = IF Marked(file.ver, p) THEN [map EXCEPT ![p] = file.ver] ELSE map
    /\ job_id' = [job_id EXCEPT ![p] = ParsedJob(file.ver, p)]
    /\ transit' = [transit EXCEPT ![p] = Transit(file.ver, p)]
    /\ To(p, "split")
    /\ UNCHANGED <<file, pos, last_file_update, ckpt_restore, ckptVars, halts>>

parse_map_file(p) ==
    /\ phase[p] = "parse"
    /\ map' = [map EXCEPT ![p] = file.ver]
    /\ job_id' = [job_id EXCEPT ![p] = ParsedJob(file.ver, p)]
    /\ transit' = [transit EXCEPT ![p] = Transit(file.ver, p)]
    /\ To(p, "split")
    /\ UNCHANGED <<file, pos, last_file_update, ckpt_restore, ckptVars, halts>>

\* Behind the checkpoint: who takes part in a migration goes to init_rep.
RepOrCall(p) == IF transit[p] # "none" THEN "rep" ELSE "collective"

\* update_comms, create_migration_comm, save_rep_and_stack_info: collective.
\* A process that is not a master and neither sends, receives nor restores is
\* done.  There is no migration for one that restores.
update_comms ==
    /\ All("split")
    /\ phase' = [p \in Proc |-> CASE p \in ckpt_restore -> "restore"
                                  [] p \notin ckpt_restore /\ Master(p) -> "open"
                                  [] OTHER -> RepOrCall(p)]
    /\ UNCHANGED <<file, pos, nodeVars, last_file_update, ckpt_restore, ckptVars, halts>>

\* init_ckpt: fopen(.., "wb") truncates the previous checkpoint.
OpenCkpt(p) ==
    /\ phase[p] = "open"
    /\ ckpt' = [ckpt EXCEPT ![job_id[p]] = Torn]
    /\ To(p, "save")
    /\ UNCHANGED <<file, pos, nodeVars, last_file_update, ckpt_restore, cut, halts>>

\* The segments are written and the file is closed.
init_ckpt(p) ==
    /\ phase[p] = "save"
    /\ ckpt' = [ckpt EXCEPT ![job_id[p]] = Saved(pos[p], map[p])]
    /\ cut' = IF \A j, k \in Job : ckpt'[j] = ckpt'[k] THEN pos[p] ELSE cut
    /\ To(p, RepOrCall(p))
    /\ UNCHANGED <<file, pos, nodeVars, last_file_update, ckpt_restore, halts>>

\* The communicator of create_migration_comm.
MigrationComm(j) == {p \in Proc : transit[p] # "none" /\ job_id[p] = j}

\* init_rep in the migration of job j: everybody else continues from the
\* memory of the sender.  Without a sender a receiver is the root of the
\* broadcasts, and the context that all of them set was never written.
init_rep(j) ==
    /\ MigrationComm(j) # {} /\ \A p \in MigrationComm(j) : phase[p] = "rep"
    /\ LET S == {s \in MigrationComm(j) : transit[s] = "sender"}
           end == IF S = {} THEN "crashed" ELSE "collective"
       IN  /\ phase' = [p \in Proc |-> IF p \in MigrationComm(j) THEN end ELSE phase[p]]
           /\ pos' = [p \in Proc |-> IF p \in MigrationComm(j) /\ S # {}
                                     THEN pos[CHOOSE s \in S : TRUE] ELSE pos[p]]
    /\ UNCHANGED <<file, nodeVars, last_file_update, ckpt_restore, ckptVars, halts>>

\* init_ckpt_restore: the memory of the checkpoint, whose program counter is
\* in the collective call that made it.
init_ckpt_restore(p) ==
    /\ phase[p] = "restore"
    /\ IF ckpt[job_id[p]] = Torn
       THEN To(p, "crashed") /\ UNCHANGED <<pos, ckpt_restore>>
       ELSE /\ pos' = [pos EXCEPT ![p] = ckpt[job_id[p]].pos]
            /\ ckpt_restore' = ckpt_restore \ {p}
            /\ To(p, "collective")
    /\ UNCHANGED <<file, nodeVars, last_file_update, ckptVars, halts>>

-----------------------------------------------------------------------------
\* The rest of the collective call.  Processes that are in different calls
\* do not get out of them.
Collective ==
    /\ All("collective") /\ \A p, q \in Proc : pos[p] = pos[q]
    /\ pos' = [p \in Proc |-> (pos[p] + 1) % NCalls]
    /\ phase' = [p \in Proc |-> "app"]
    /\ UNCHANGED <<file, nodeVars, last_file_update, ckpt_restore, ckptVars, halts>>

-----------------------------------------------------------------------------
\* Nobody is between two looks at the file -- all processes are before, or all
\* behind, the same one -- and the map in it is adopted.
Quiet ==
    /\ All("app") \/ All("collective")
    /\ \A p, q \in Proc : pos[p] = pos[q]
    /\ \A p \in Proc : map[p] = file.ver

\* The manager writes the next map.
WriteToFile ==
    /\ file.ver < MaxVer /\ (WritesAnyTime \/ Quiet)
    /\ file' = [ver |-> file.ver + 1, mtime |-> file.mtime + SleepTime]
    /\ UNCHANGED <<phase, pos, nodeVars, last_file_update, ckpt_restore, ckptVars, halts>>

\* The program is killed or aborted, and started again.
Whole == \A j, k \in Job : ckpt[j] = ckpt[k] /\ ckpt[j] # Torn
Halt ==
    /\ halts < MaxHalts /\ ~All("init")
    /\ HaltsAnyTime \/ (Whole /\ Bit[file.ver] = Job)
    /\ halts' = halts + 1
    /\ phase' = [p \in Proc |-> "init"]
    /\ pos' = [p \in Proc |-> 0]
    /\ map' = [p \in Proc |-> 0]
    /\ job_id' = [p \in Proc |-> NoJob]
    /\ transit' = [p \in Proc |-> "none"]
    /\ last_file_update' = [p \in Proc |-> 0]
    /\ ckpt_restore' = {}
    /\ UNCHANGED <<file, ckptVars>>

Step(p) ==
    \/ init_node(p)
    \/ set_last_file_update(p)
    \/ is_file_modified(p)
    \/ parse_map_file(p)
    \/ OpenCkpt(p)
    \/ init_ckpt(p)
    \/ init_ckpt_restore(p)

Sync ==
    \/ InitComms
    \/ save_rep_and_stack_info
    \/ PMPI_Barrier
    \/ PMPI_Allreduce
    \/ update_comms
    \/ \E j \in Job : init_rep(j)
    \/ Collective

Next == (\E p \in Proc : Step(p)) \/ Sync \/ WriteToFile \/ Halt

\* Every process keeps executing, and a collective operation that all
\* processes have entered completes.
Spec ==
    /\ Init /\ [][Next]_vars
    /\ \A p \in Proc : WF_vars(Step(p))
    /\ WF_vars(Sync)

-----------------------------------------------------------------------------
\* Every variable keeps its type.
TypeOK ==
    /\ file \in [ver : 1..MaxVer, mtime : Nat]
    /\ phase \in [Proc -> Phases]
    /\ pos \in [Proc -> 0..(NCalls - 1)]
    /\ map \in [Proc -> 0..MaxVer]
    /\ job_id \in [Proc -> Job \union {NoJob}]
    /\ transit \in [Proc -> {"none", "sender", "receiver"}]
    /\ last_file_update \in [Proc -> Nat]
    /\ ckpt_restore \subseteq Proc
    /\ ckpt \in [Job -> {None, Torn} \union
                       {Saved(c, v) : c \in 0..(NCalls - 1), v \in 1..MaxVer}]
    /\ cut \in 0..NoCall
    /\ halts \in 0..MaxHalts

\* The processes that take part in a collective operation -- of the program
\* or of the adoption of a map -- are in the same call of the program and go
\* by the same map, also after they were started again from checkpoints.
SameCall ==
    \A p, q \in Proc :
        phase[p] \in {"collective", "split"} /\ phase[q] = phase[p] =>
            pos[p] = pos[q] /\ map[p] = map[q]

\* If each map is adopted before the next one is written, everybody ends up in
\* the job the last one gives it, with only the marked lines read: no map,
\* however many receives are pending when it is first seen, goes unnoticed, and
\* no line a process is moved to is unmarked.
LatestMapAdopted ==
    <>[](\A p \in Proc : map[p] = file.ver /\ job_id[p] = JobIn(file.ver, p))

\* Under the same condition the program goes on: no call is the last one.
\* Looking at the map, checkpoints, migrations and restarts never leave
\* processes waiting for each other, or one in a migration without a sender.
KeepsGoing == \A k \in 0..(NCalls - 1) : []<>(All("app") /\ \A p \in Proc : pos[p] = k)

-----------------------------------------------------------------------------
(***************************************************************************)
(* The processes implement one program (module ProgramSpec).  A map is     *)
(* adopted when the last process has parsed it, a checkpoint is made when  *)
(* the last job has written its file, and the program is up again when the *)
(* last process is.                                                        *)
(***************************************************************************)
Mixed == MaxVer + NCalls + 1  \* neither a version nor a call
Common(f) == IF \E v \in {f[p] : p \in Proc} : \A p \in Proc : f[p] = v
             THEN f[CHOOSE p \in Proc : TRUE] ELSE Mixed
Parsing == {p \in Proc : phase[p] = "parse"}

specUp == \A p \in Proc : phase[p] \notin InitPhases /\ p \notin ckpt_restore
specMap == IF ~specUp THEN 0
           ELSE IF Parsing # {} THEN map[CHOOSE p \in Parsing : TRUE] ELSE Common(map)
specPos == IF specUp THEN Common(pos) ELSE 0
specDue == /\ specUp /\ Parsing = {}
           /\ \E p \in Proc : phase[p] \in {"split", "open", "save"}

OneProgram == INSTANCE ProgramSpec
    WITH latest <- file.ver, up <- specUp, map <- specMap, pos <- specPos,
         due <- specDue, saved <- cut

\* The replicated program, with its polls, its masters' checkpoint files and
\* its restarts, implements the specification of one program.
ImplementsOneProgram == OneProgram!Spec

=============================================================================

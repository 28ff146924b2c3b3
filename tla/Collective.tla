----------------------------- MODULE Collective -----------------------------
(***************************************************************************)
(* One collective call of the application (MPI_Scatter, MPI_Bcast,         *)
(* MPI_Gather, MPI_Allgather, MPI_Reduce or MPI_Allreduce), executed by    *)
(* all processes of the replicated program while some of them crash.       *)
(*                                                                         *)
(* The call has two stages.  In stage "main" the masters perform the PMPI  *)
(* operation on active_comm (MPI_Bcast: everybody, on the world            *)
(* communicator); in stage "replicate" the master of every job broadcasts  *)
(* the result to its replicas on world_job_comm.  Every stage ends in      *)
(* MPIX_Comm_agree on the success flag, repeated while it reports a        *)
(* failure: the error handler then acknowledges the failures, shrinks the  *)
(* world and rebuilds the job list and the communicators.                  *)
(*                                                                         *)
(* PMPI/ULFM itself is external.  Assumed of it: an operation on a         *)
(* communicator without dead members only succeeds; one with dead members  *)
(* returns at every live member, with success only if the data it needs    *)
(* was sent; agreement and shrinking are uniform over the live members.    *)
(* The call begins with no shrink pending from an earlier point-to-point   *)
(* call (__process_shrinking_pending == 0) and no new replication map.     *)
(***************************************************************************)
EXTENDS JobMap

CONSTANTS
    Op,         \* the MPI function, one of Collectives
    RootJob,    \* its root argument (a job id)
    NO_TRIALS,  \* attempts after which the call aborts the program
    MaxCrash    \* bound on the number of processes that crash

VARIABLES
    dead,        \* crashed processes
    world,       \* members of node.rep_mpi_comm_world
    prevWorld,   \* previous_world_group
    pc,          \* where in the stage each process is
    stage,       \* which of the two loops each process is in
    total_trails,
    mpi_ok,      \* processes with mpi_status == MPI_SUCCESS
    flagged,     \* processes whose flag is "success": 1, or -1 in MPI_Reduce
    filled,      \* processes whose recvbuf holds the result of the operation
    seen,        \* failures reported to the process, not acknowledged yet
    last_group_failed,
    entered,     \* operations entered since the last agreement or shrink
    aborted      \* argument of PMPI_Abort, 0 while nobody called it

vars == <<dead, world, prevWorld, pc, stage, total_trails, mpi_ok, flagged,
          filled, seen, last_group_failed, entered, aborted>>
ulfmVars == <<dead, world, prevWorld, last_group_failed, aborted>>

-----------------------------------------------------------------------------
(***************************************************************************)
(* The six functions differ in: the communicator of the main operation;    *)
(* which way its data flows; whether mpi_status is reset at the top of the *)
(* outer loop; whether a failure resets flag (flag = (status == SUCCESS))  *)
(* or leaves it alone (SET_FLAG_ON_SUCCESS); which jobs broadcast the      *)
(* result to their replicas; and whether the result is made of blocks, the *)
(* same in every attempt, or combined in recvbuf.                          *)
(***************************************************************************)
MPI_Scatter   == [comm |-> "active", flow |-> "fromRoot", status |-> "reset",
                  flag |-> "assigned", replicate |-> "everyJob", data |-> "blocks"]
MPI_Bcast     == [comm |-> "world", flow |-> "fromRoot", status |-> "kept",
                  flag |-> "assigned", replicate |-> "no", data |-> "blocks"]
MPI_Gather    == [comm |-> "active", flow |-> "toRoot", status |-> "kept",
                  flag |-> "assigned", replicate |-> "everyJob", data |-> "blocks"]
MPI_Allgather == [comm |-> "active", flow |-> "toAll", status |-> "kept",
                  flag |-> "assigned", replicate |-> "everyJob", data |-> "blocks"]
MPI_Reduce    == [comm |-> "active", flow |-> "toRoot", status |-> "kept",
                  flag |-> "onSuccess", replicate |-> "rootJob", data |-> "combined"]
\* MPI_Allreduce is MPI_Allgather with another operator and another count.
MPI_Allreduce == [comm |-> "active", flow |-> "toAll", status |-> "kept",
                  flag |-> "assigned", replicate |-> "everyJob", data |-> "combined"]

Collectives == {MPI_Scatter, MPI_Bcast, MPI_Gather, MPI_Allgather,
                MPI_Reduce, MPI_Allreduce}

ASSUME CollectiveAssumption ==
    /\ Op \in Collectives
    /\ RootJob \in Job
    /\ \A j \in Job : Workers(j, Proc) # {}
    /\ NO_TRIALS \in Nat /\ MaxCrash \in Nat

Live == Proc \ dead

\* The jobs whose recvbuf the operation fills.
HasResult(j) == Op.flow # "toRoot" \/ j = RootJob

\* The communicator of the operation a process performs in a stage, the
\* process that is its root, and the direction of its data.
Comm(p) ==
    IF stage[p] = "replicate" THEN world_job_comm(p, world)
    ELSE IF Op.comm = "world" THEN world ELSE active_comm(world)
Root(p) == Head(IF stage[p] = "replicate" THEN JobOf[p] ELSE RootJob, world)
Flow(p) == IF stage[p] = "replicate" THEN "fromRoot" ELSE Op.flow

\* Whether the process performs the operation of its stage at all:
\* active_comm != MPI_COMM_NULL, and node.job_id == root in MPI_Reduce.
TakesPart(p) ==
    /\ p \in Comm(p)
    /\ stage[p] = "replicate" /\ Op.replicate = "rootJob" => JobOf[p] = RootJob

\* The set S once p is known to be in it or not.
Put(S, p, b) == IF b THEN S \union {p} ELSE S \ {p}

\* Mutant: a failed operation leaves flag as it was in every function.
FlagAfter_Sticky(p, ok) == ok \/ p \in flagged

\* flag after an operation with outcome ok.
FlagAfter(p, ok) == ok \/ (Op.flag = "onSuccess" /\ p \in flagged)

-----------------------------------------------------------------------------
Init ==
    /\ dead = {}
    /\ world = Proc
    /\ prevWorld = {}
    /\ pc = [p \in Proc |-> "call"]
    /\ stage = [p \in Proc |-> "main"]
    /\ total_trails = [p \in Proc |-> 0]
    /\ mpi_ok = Proc
    \* flag is not initialised, and MPI_Reduce may read it before setting it
    /\ flagged \in (IF Op.flag = "onSuccess" THEN SUBSET Proc ELSE {{}})
    \* every worker of the root of MPI_Bcast starts with the data
    /\ filled = IF Op.comm = "world" THEN Workers(RootJob, Proc) ELSE {}
    /\ seen = [p \in Proc |-> {}]
    /\ last_group_failed = [p \in Proc |-> {}]
    /\ entered = [p \in Proc |-> {}]
    /\ aborted = 0

Running(p) == aborted = 0 /\ p \in Live

\* What follows the operation, or skipping it: flag is set from the status
\* and the process waits in MPIX_Comm_agree.
GoAgree(p, ok) ==
    /\ pc' = [pc EXCEPT ![p] = "agree"]
    /\ flagged' = Put(flagged, p, FlagAfter(p, ok))
    /\ entered' = [entered EXCEPT ![p] = @ \union {"agree"}]

\* From the top of a stage into its operation, or past it.
EnterStage(p) ==
    IF TakesPart(p)
    THEN /\ pc' = [pc EXCEPT ![p] = "comm"]
         /\ entered' = [entered EXCEPT ![p] = @ \union {stage[p]}]
         /\ UNCHANGED flagged
    ELSE GoAgree(p, p \in mpi_ok')

\* Mutant: mpi_status is not reset at the top of the outer loop.
StartTrial_KeepsStatus(p) ==
    /\ Running(p) /\ pc[p] = "call" /\ stage[p] = "main"
    /\ total_trails[p] + 1 < NO_TRIALS
    /\ total_trails' = [total_trails EXCEPT ![p] = @ + 1]
    /\ UNCHANGED mpi_ok
    /\ EnterStage(p)
    /\ UNCHANGED <<ulfmVars, stage, filled, seen>>

\* Mutant: total_trails is an unsigned counter that counts down from 0.
StartTrial_CountsDown(p) ==
    /\ Running(p) /\ pc[p] = "call" /\ stage[p] = "main"
    /\ total_trails' = [total_trails EXCEPT ![p] = @ - 1]
    /\ mpi_ok' = mpi_ok \union {p}
    /\ EnterStage(p)
    /\ UNCHANGED <<ulfmVars, stage, filled, seen>>

\* The top of the outer loop: count the attempt, then the main operation.
\* A replica does not take part; it reports the mpi_status it has.
StartTrial(p) ==
    /\ Running(p) /\ pc[p] = "call" /\ stage[p] = "main"
    /\ total_trails[p] + 1 < NO_TRIALS
    /\ total_trails' = [total_trails EXCEPT ![p] = @ + 1]
    /\ mpi_ok' = IF Op.status = "reset" THEN mpi_ok \union {p} ELSE mpi_ok
    /\ EnterStage(p)
    /\ UNCHANGED <<ulfmVars, stage, filled, seen>>

\* Too many attempts: PMPI_Abort(world, 10).
AbortTrials(p) ==
    /\ Running(p) /\ pc[p] = "call" /\ stage[p] = "main"
    /\ total_trails[p] + 1 >= NO_TRIALS
    /\ aborted' = 10
    /\ total_trails' = [total_trails EXCEPT ![p] = @ + 1]
    /\ UNCHANGED <<dead, world, prevWorld, last_group_failed, pc, stage,
                   mpi_ok, flagged, filled, seen, entered>>

\* The top of the inner loop: PMPI_Bcast on world_job_comm.
StartReplicate(p) ==
    /\ Running(p) /\ pc[p] = "call" /\ stage[p] = "replicate"
    /\ mpi_ok' = IF TakesPart(p) THEN mpi_ok ELSE mpi_ok \union {p}
    /\ EnterStage(p)
    /\ UNCHANGED <<ulfmVars, stage, total_trails, filled, seen>>

\* Every process whose data p needs has entered the operation (a process
\* that crashed after entering it may have sent its data before).
DataSent(p) ==
    LET Sent(q) == stage[p] \in entered[q]
    IN  /\ Flow(p) = "fromRoot" => Sent(Root(p))
        /\ Flow(p) = "toAll" \/ (Flow(p) = "toRoot" /\ p = Root(p))
              => \A q \in Comm(p) : Sent(q)

\* What the operation leaves in recvbuf: a copy of the root's buffer, or
\* the result itself; a contributor to a rooted operation receives nothing.
Received(p) ==
    IF stage[p] = "replicate" \/ Op.comm = "world" THEN Root(p) \in filled
    ELSE (Op.flow = "toRoot" /\ p # Root(p)) => p \in filled

\* The PMPI operation returns MPI_SUCCESS.
OpSucceeds(p) ==
    /\ Running(p) /\ pc[p] = "comm"
    /\ DataSent(p)
    /\ filled' = Put(filled, p, Received(p))
    /\ mpi_ok' = mpi_ok \union {p}
    /\ GoAgree(p, TRUE)
    /\ UNCHANGED <<ulfmVars, stage, total_trails, seen>>

\* Mutant: the handler shrinks for a failure on any communicator.
OpFails_Handles(p) ==
    /\ Running(p) /\ pc[p] = "comm"
    /\ \E R \in SUBSET (Comm(p) \intersect dead) :
          R # {} /\ seen' = [seen EXCEPT ![p] = @ \union R]
    /\ mpi_ok' = mpi_ok \ {p}
    /\ pc' = [pc EXCEPT ![p] = "ack"]
    /\ flagged' = flagged \ {p}
    /\ UNCHANGED <<ulfmVars, stage, total_trails, filled, entered>>

\* An operation that fails half-way may cost p a result it already had: when
\* it copies a buffer without the result, or leaves a partial reduction.  The
\* blocks of the other operations are the same in every attempt.
Spoils(p) ==
    \/ ~Received(p)
    \/ Op.data = "combined" /\ stage[p] = "main" /\ (Op.flow = "toRoot" => p = Root(p))

\* It reports MPIX_ERR_PROC_FAILED: recvbuf is left with old and, perhaps,
\* some new data.  On active_comm and world_job_comm the error handler does
\* nothing; on the world communicator (MPI_Bcast) it runs right away.
OpFails(p) ==
    /\ Running(p) /\ pc[p] = "comm"
    /\ \E R \in SUBSET (Comm(p) \intersect dead) :
          R # {} /\ seen' = [seen EXCEPT ![p] = @ \union R]
    /\ \E overwritten \in BOOLEAN :
          filled' = IF overwritten /\ Spoils(p) THEN filled \ {p} ELSE filled
    /\ mpi_ok' = mpi_ok \ {p}
    /\ IF Op.comm = "world"
       THEN /\ pc' = [pc EXCEPT ![p] = "ack"]
            /\ flagged' = flagged \ {p}
            /\ UNCHANGED entered
       ELSE GoAgree(p, FALSE)
    /\ UNCHANGED <<ulfmVars, stage, total_trails>>

-----------------------------------------------------------------------------
(***************************************************************************)
(* MPIX_Comm_agree on the world communicator.  It returns, at all live     *)
(* members at once, the conjunction of the flags; or, if a member failed   *)
(* before taking part or a live member knows of a failure it has not       *)
(* acknowledged, MPIX_ERR_PROC_FAILED with the conjunction of the flags    *)
(* of the live members and of any dead ones that still took part.          *)
(***************************************************************************)
AllAgreeing ==
    /\ aborted = 0 /\ Live # {}
    /\ \A p \in Live : pc[p] = "agree"

\* Mutant: the main operation is never done again once it succeeded.
NextStage_NoRepeat(p, f) ==
    IF stage[p] = "main" /\ ~f THEN "main" ELSE "replicate"

\* Mutant: the loop around the operation is left whatever was agreed on.
Returns_Always(p, f) == stage[p] = "replicate" \/ Op.replicate = "no"

\* Where a process continues once the agreed flag is f.
NextStage(p, f) ==
    IF stage[p] = "main"
    THEN IF f /\ Op.replicate # "no" THEN "replicate" ELSE "main"
    ELSE IF ~f /\ is_failed_node_world_job_comm_root(last_group_failed[p],
                                                     prevWorld, world)
         THEN "main" ELSE "replicate"
Returns(p, f) == f /\ (stage[p] = "replicate" \/ Op.replicate = "no")

AgreeSucceeds ==
    /\ AllAgreeing
    /\ \A p \in world : "agree" \in entered[p]
    /\ \A p \in Live : seen[p] = {}
    /\ LET f == world \subseteq flagged
       IN  /\ flagged' = IF f THEN flagged \union Live ELSE flagged \ Live
           /\ stage' = [p \in Proc |-> IF p \in Live THEN NextStage(p, f)
                                                     ELSE stage[p]]
           /\ pc' = [p \in Proc |->
                       IF p \notin Live THEN pc[p]
                       ELSE IF Returns(p, f) THEN "done" ELSE "call"]
    /\ entered' = [p \in Proc |-> {}]
    /\ UNCHANGED <<ulfmVars, total_trails, mpi_ok, filled, seen>>

AgreeFails ==
    /\ AllAgreeing
    /\ \E R, C \in SUBSET (dead \intersect world) :
          /\ R # {}
          /\ \A q \in (dead \intersect world) \ R : "agree" \in entered[q]
          /\ \A q \in C : "agree" \in entered[q]
          /\ seen' = [p \in Proc |-> IF p \in Live THEN seen[p] \union R
                                                   ELSE seen[p]]
          /\ flagged' = IF Live \union C \subseteq flagged
                        THEN flagged \union Live ELSE flagged \ Live
    /\ pc' = [p \in Proc |-> IF p \in Live THEN "ack" ELSE pc[p]]
    /\ UNCHANGED <<ulfmVars, stage, total_trails, mpi_ok, filled, entered>>

\* Mutant: the handler shrinks without recording last_group_failed.
AckFailures_NotRecorded(p) ==
    /\ Running(p) /\ pc[p] = "ack"
    /\ seen' = [seen EXCEPT ![p] = {}]
    /\ pc' = [pc EXCEPT ![p] = "shrink"]
    /\ UNCHANGED <<ulfmVars, stage, total_trails, mpi_ok, flagged, filled,
                   entered>>

\* rep_errhandler on the world communicator: PMPIX_Comm_failure_ack and
\* PMPIX_Comm_failure_get_acked return the failures THIS process knows of.
AckFailures(p) ==
    /\ Running(p) /\ pc[p] = "ack"
    /\ \E S \in SUBSET (dead \intersect world) :
          /\ S # {} /\ seen[p] \subseteq S
          /\ last_group_failed' = [last_group_failed EXCEPT ![p] = S]
    /\ seen' = [seen EXCEPT ![p] = {}]
    /\ pc' = [pc EXCEPT ![p] = "shrink"]
    /\ UNCHANGED <<dead, world, prevWorld, aborted, stage, total_trails,
                   mpi_ok, flagged, filled, entered>>

\* The failures that PMPIX_Comm_shrink may agree on: the acknowledged ones,
\* every process that died before taking part, and any that died in it.
ShrinkChoices ==
    {F \in SUBSET (dead \intersect world) :
        /\ \A p \in Live : last_group_failed[p] \subseteq F
        /\ \A q \in (dead \intersect world) \ F : pc[q] = "shrink"}

\* The flags once the handler has returned: in DO_COMM_AGREE a process that
\* has just become a master (its role differs from ckpt_master_backup, which
\* is its role before the shrink) withdraws its success.
FlaggedAfterShrink(W) ==
    IF Op.flag = "onSuccess"
    THEN flagged \ (Live \intersect (Masters(W) \ Masters(world)))
    ELSE flagged

\* Mutant: the handler does not install the shrunk communicator.
update_job_list_KeepsWorld(W) ==
    /\ prevWorld' = world
    /\ pc' = [p \in Proc |-> IF p \in W THEN "agree" ELSE pc[p]]
    /\ flagged' = FlaggedAfterShrink(W)
    /\ entered' = [p \in Proc |-> IF p \in Live THEN {"agree"} ELSE {}]
    /\ UNCHANGED <<world, aborted>>

\* update_job_list and update_comms for the new world W: PMPI_Abort(world, 200)
\* if a job has no worker left.
update_job_list(W) ==
    IF \E j \in Job : Workers(j, W) = {}
    THEN aborted' = 200 /\ UNCHANGED <<world, prevWorld, pc, flagged, entered>>
    ELSE /\ world' = W
         /\ prevWorld' = world
         /\ pc' = [p \in Proc |-> IF p \in W THEN "agree" ELSE pc[p]]
         /\ flagged' = FlaggedAfterShrink(W)
         /\ entered' = [p \in Proc |-> IF p \in Live THEN {"agree"} ELSE {}]
         /\ UNCHANGED aborted

\* The rest of rep_errhandler; then the loop around MPI_Comm_agree tries again.
Shrink ==
    /\ aborted = 0 /\ Live # {}
    /\ \A p \in Live : pc[p] = "shrink"
    /\ \E F \in ShrinkChoices : update_job_list(world \ F)
    /\ UNCHANGED <<dead, last_group_failed, stage, total_trails, mpi_ok,
                   filled, seen>>

-----------------------------------------------------------------------------
\* A process is killed at any point of the call.
Crash(p) ==
    /\ Running(p)
    /\ Cardinality(dead) < MaxCrash
    /\ dead' = dead \union {p}
    /\ UNCHANGED <<world, prevWorld, last_group_failed, aborted, pc, stage,
                   total_trails, mpi_ok, flagged, filled, seen, entered>>

\* The call has returned everywhere, or the program was aborted.
Over == aborted # 0 \/ \A p \in Live : pc[p] = "done"
Finished == Over /\ UNCHANGED vars

Next ==
    \/ \E p \in Proc : \/ StartTrial(p)
                       \/ AbortTrials(p)
                       \/ StartReplicate(p)
                       \/ OpSucceeds(p)
                       \/ OpFails(p)
                       \/ AckFailures(p)
                       \/ Crash(p)
    \/ AgreeSucceeds
    \/ AgreeFails
    \/ Shrink
    \/ Finished

Spec == Init /\ [][Next]_vars

(***************************************************************************)
(* Fairness: a live process keeps executing, and the PMPI/ULFM operations  *)
(* of live processes complete when they can.  Nothing forces a crash.      *)
(***************************************************************************)
Fairness ==
    /\ \A p \in Proc : /\ WF_vars(StartTrial(p) \/ AbortTrials(p))
                       /\ WF_vars(StartReplicate(p))
                       /\ WF_vars(OpSucceeds(p) \/ OpFails(p))
                       /\ WF_vars(AckFailures(p))
    /\ WF_vars(AgreeSucceeds \/ AgreeFails)
    /\ WF_vars(Shrink)

FairSpec == Spec /\ Fairness

-----------------------------------------------------------------------------
\* Every variable keeps the type of the C variable or MPI object it models.
TypeOK ==
    /\ dead \subseteq Proc /\ world \subseteq Proc /\ prevWorld \subseteq Proc
    /\ pc \in [Proc -> {"call", "comm", "agree", "ack", "shrink", "done"}]
    /\ stage \in [Proc -> {"main", "replicate"}]
    /\ total_trails \in [Proc -> Nat]
    /\ mpi_ok \subseteq Proc /\ flagged \subseteq Proc /\ filled \subseteq Proc
    /\ seen \in [Proc -> SUBSET Proc]
    /\ last_group_failed \in [Proc -> SUBSET Proc]
    /\ entered \in [Proc -> SUBSET {"main", "replicate", "agree"}]
    /\ aborted \in {0, 10, 200}

\* MPI_SUCCESS is only returned with the result in recvbuf: every live worker
\* of a job that the operation gives a result to has it when it returns.
DataCorrect ==
    \A p \in Live : pc[p] = "done" /\ HasResult(JobOf[p]) => p \in filled

\* As long as only replicas die -- no process that was a master when the call
\* began -- no worker returns without the result, whatever was being
\* broadcast, agreed on or shrunk when they died.
ReplicaFailuresHarmless ==
    dead \intersect Masters(Proc) = {} => DataCorrect

\* The live processes go through the call in step: they are in the same loop,
\* they return together, and none of them is in the error handler (whose
\* shrink waits for all of them) while another is outside of it.
InHandler(p) == pc[p] \in {"ack", "shrink"}
LockStep ==
    \A p, q \in Live :
        /\ stage[p] = stage[q]
        /\ pc[p] = "done" <=> pc[q] = "done"
        /\ InHandler(p) <=> InHandler(q)

\* The master of the root when the call begins, and the layouts in which
\* is_failed_node_world_job_comm_root finds out that it has died.  The
\* function compares ranks of two worlds, so it does if some job's head has,
\* in the world without that master, the rank that the master had.
FirstMaster == Head(RootJob, Proc)
RootDeathSeen ==
    Workers(RootJob, Proc \ {FirstMaster}) # {} =>
        is_failed_node_world_job_comm_root({FirstMaster}, Proc, Proc \ {FirstMaster})

\* The inner broadcast starts from a buffer that holds the result: a replica
\* that took over from a dead master has it too, or the main operation was
\* done again.
BroadcastsResult ==
    \A p \in Masters(world) \ dead :
        stage[p] = "replicate" /\ pc[p] = "comm" /\ HasResult(JobOf[p])
            => p \in filled

\* The main operation is only repeated because another process failed: an
\* operation that saw no failure is never repeated, one failure costs one
\* attempt, and the call only aborts after NO_TRIALS - 1 failures.
RetriesPaidByFailures ==
    \A p \in Live : total_trails[p] <= 1 + Cardinality(dead)

\* is_failed_node_world_job_comm_root is only called when a failure has been
\* acknowledged: last_group_failed and previous_world_group are set.
FailureGroupRecorded ==
    [][\A p \in Live :
        stage[p] = "replicate" /\ pc[p] = "agree" /\ pc'[p] = "call"
            => last_group_failed[p] \intersect prevWorld # {}]_vars

\* After a failed inner broadcast the main operation is done again exactly
\* when a root of a world_job_comm was among the processes just removed.
RootDeathDetected ==
    [][\A p \in Live :
        stage[p] = "replicate" /\ pc[p] = "agree" /\ pc'[p] = "call"
            => (stage'[p] = "main" <=>
                    (prevWorld \ world) \intersect Masters(prevWorld) # {})]_vars

\* The program is not aborted for too many attempts.
NoTrialsAbort == aborted # 10

\* Every live process returns from the call, or the program is aborted.
Terminates == <>[]Over

=============================================================================

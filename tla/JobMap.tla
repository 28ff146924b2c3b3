------------------------------- MODULE JobMap -------------------------------
(***************************************************************************)
(* Who does what in a replicated MPI program.                              *)
(*                                                                         *)
(* EntangledMPI runs every logical rank of the application (a "job") on    *)
(* several MPI processes (its "workers").  The replication map fixes the   *)
(* job of every process and the order of the workers inside a job; after   *)
(* a failure the workers that are left keep their order.  Everything else  *)
(* -- the master of a job, active_comm, world_job_comm, the rank of a      *)
(* process in the current world -- is a function of that map and of the    *)
(* set of processes that the current world communicator contains.          *)
(***************************************************************************)
EXTENDS Naturals, FiniteSets

CONSTANTS
    Proc,   \* the MPI processes, named by node.static_rank
    Job,    \* the job ids
    JobOf,  \* node.job_id of every process
    Pos     \* the place of a process in its line of the map: rank_list[Pos]

ASSUME ProcAssumption == Proc \subseteq Nat /\ IsFiniteSet(Proc)

ASSUME JobAssumption ==
    /\ JobOf \in [Proc -> Job]
    /\ Pos \in [Proc -> Nat]
    /\ \A p, q \in Proc : JobOf[p] = JobOf[q] /\ Pos[p] = Pos[q] => p = q

\* job_list[j].rank_list as a set: the workers of job j in the world W.
Workers(j, W) == {p \in W : JobOf[p] = j}

\* job_list[j].rank_list[0]: update_job_list keeps the order of the workers
\* that survive, so the head is the one that stands first in the map.
Head(j, W) ==
    CHOOSE p \in Workers(j, W) : \A q \in Workers(j, W) : Pos[p] <= Pos[q]

\* The processes with node_checkpoint_master == YES.
Masters(W) == {p \in W : p = Head(JobOf[p], W)}

\* The rank of a process in the communicator made of W: PMPIX_Comm_shrink
\* and PMPI_Comm_dup keep the order of the processes.
Rank(p, W) == Cardinality({q \in W : q < p})

\* node.active_comm (PMPI_COMM_NULL outside Masters(W)) and
\* node.world_job_comm after update_comms.
active_comm(W) == Masters(W)
world_job_comm(p, W) == Workers(JobOf[p], W)

\* is_failed_node_world_job_comm_root: the heads of the CURRENT job list, as
\* ranks of the current world W, are compared with the ranks that the
\* processes of last_group_failed had in the PREVIOUS world.
is_failed_node_world_job_comm_root(failed, previous, W) ==
    \E j \in Job, f \in failed : Rank(Head(j, W), W) = Rank(f, previous)

=============================================================================

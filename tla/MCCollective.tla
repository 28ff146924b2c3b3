---------------------------- MODULE MCCollective ----------------------------
(***************************************************************************)
(* Small instances of Collective.  A layout is what the manager writes     *)
(* into the replication map: process i works for job i % (number of jobs), *)
(* and the workers of a job are listed in the order of their ranks.        *)
(***************************************************************************)
EXTENDS Collective

TwoJobs == {0, 1}

Procs4 == 0..3
Layout4 == [p \in Procs4 |-> p % 2]
Order4 == [p \in Procs4 |-> p \div 2]

Procs5 == 0..4
Layout5 == [p \in Procs5 |-> p % 2]
Order5 == [p \in Procs5 |-> p \div 2]

\* The layout of the MPI_Reduce run meets the condition under which
\* BroadcastsResult is proved.
ASSUME ReduceMeetsCondition == Op = MPI_Reduce => RootDeathSeen

=============================================================================

-------------------------- MODULE MCFaultSelector --------------------------
(***************************************************************************)
(* Small instances of FaultSelector: three jobs of which none, one, two or *)
(* all have a replica.                                                     *)
(***************************************************************************)
EXTENDS FaultSelector

ThreeJobs == 0..2
SixRanks == 0..5
Replicated(R) == [j \in ThreeJobs |-> <<j, IF j \in R THEN j + 3 ELSE -1>>]
AllMaps == {Replicated(R) : R \in SUBSET ThreeJobs}
AllOpts == [ImageToKill : {KILL_COMPUTE, KILL_REPLICA, KILL_ANY},
            KillEvenIfNotReplicated : BOOLEAN]

=============================================================================

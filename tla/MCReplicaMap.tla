---------------------------- MODULE MCReplicaMap ----------------------------
(***************************************************************************)
(* Small instances of ReplicaMap: all processes with the same stack        *)
(* address, and processes on hosts with two different ones.                *)
(***************************************************************************)
EXTENDS ReplicaMap

SameStack == [r \in Ranks |-> 1]
EqualStacks == {SameStack}
TwoStacks == [r \in Ranks |-> 1 + (r \div NJobs)]
AnyStacks == {SameStack, TwoStacks}

=============================================================================

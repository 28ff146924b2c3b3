----------------------------- MODULE MCHeapSeg -----------------------------
(***************************************************************************)
(* Small instances of HeapSeg: two workers of a job, two pointers.         *)
(***************************************************************************)
EXTENDS HeapSeg, TLC

\* Before the first call no process and no pointer differs from another.
HeapSymmetry == Permutations(Process) \union Permutations(Container)

=============================================================================

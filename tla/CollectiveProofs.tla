-------------------------- MODULE CollectiveProofs --------------------------
(***************************************************************************)
(* Theorems about Collective, for every set of processes, every layout of  *)
(* the jobs, every collective function and every number of crashes.        *)
(***************************************************************************)
EXTENDS Collective, WellFoundedInduction, FiniteSetTheorems, TLAPS

-----------------------------------------------------------------------------
(* The heads of the jobs.                                                  *)

\* A job with a worker in W has a head: the worker that stands first in the
\* map (rank_list[0]).
LEMMA HeadExists ==
  ASSUME NEW W \in SUBSET Proc, NEW j, Workers(j, W) # {}
  PROVE  /\ Head(j, W) \in Workers(j, W)
         /\ \A q \in Workers(j, W) : Pos[Head(j, W)] <= Pos[q]
<1> DEFINE T == {Pos[p] : p \in Workers(j, W)}
<1>1. T \subseteq Nat /\ T # {}
  BY JobAssumption DEF Workers
<1>2. PICK n \in T : \A m \in T : ~ (<<m, n>> \in OpToRel(<, Nat))
  <2> HIDE DEF T
  <2> QED BY <1>1, NatLessThanWellFounded, WFMin
<1>3. PICK p \in Workers(j, W) : n = Pos[p]
  OBVIOUS
<1>4. \A q \in Workers(j, W) : Pos[p] <= Pos[q]
  <2> SUFFICES ASSUME NEW q \in Workers(j, W) PROVE Pos[p] <= Pos[q]
    OBVIOUS
  <2>1. Pos[q] \in T /\ Pos[q] \in Nat /\ Pos[p] \in Nat
    BY <1>1
  <2>2. ~(Pos[q] < Pos[p])
    BY <1>2, <1>3, <2>1 DEF OpToRel
  <2> QED BY <2>1, <2>2
<1> QED BY <1>4 DEF Head

\* Processes keep their order in the map, so the head of a job stays its head
\* as long as it is in the world.
LEMMA HeadStable ==
  ASSUME NEW W \in SUBSET Proc, NEW j,
         Workers(j, Proc) # {}, Head(j, Proc) \in W
  PROVE  Head(j, W) = Head(j, Proc)
<1> DEFINE h == Head(j, Proc)
<1>1. h \in Workers(j, Proc) /\ \A q \in Workers(j, Proc) : Pos[h] <= Pos[q]
  BY HeadExists
<1>2. h \in Workers(j, W)
  BY <1>1 DEF Workers
<1>3. /\ Head(j, W) \in Workers(j, W)
      /\ \A q \in Workers(j, W) : Pos[Head(j, W)] <= Pos[q]
  BY <1>2, HeadExists
<1>4. Pos[Head(j, W)] = Pos[h]
  <2> HIDE DEF h
  <2>1. Head(j, W) \in Workers(j, Proc) /\ Head(j, W) \in Proc /\ h \in Proc
    BY <1>1, <1>3 DEF Workers
  <2>2. Pos[Head(j, W)] \in Nat /\ Pos[h] \in Nat
    BY <2>1, JobAssumption
  <2> QED BY <1>1, <1>2, <1>3, <2>1, <2>2
<1>5. JobOf[Head(j, W)] = j /\ JobOf[h] = j /\ Head(j, W) \in Proc /\ h \in Proc
  BY <1>1, <1>3 DEF Workers
<1> QED BY <1>4, <1>5, JobAssumption

-----------------------------------------------------------------------------
(* Type correctness.                                                       *)

PcType == {"call", "comm", "agree", "ack", "shrink", "done"}

\* Going on to the agreement, and entering a stage, write pc, flagged and
\* entered within their types.
LEMMA GoAgreeType ==
  ASSUME TypeOK, NEW p \in Proc, NEW ok, GoAgree(p, ok)
  PROVE  /\ pc' \in [Proc -> PcType]
         /\ flagged' \subseteq Proc
         /\ entered' \in [Proc -> SUBSET {"main", "replicate", "agree"}]
<1>1. flagged' \subseteq Proc
  BY DEF GoAgree, Put, TypeOK
<1> QED BY <1>1 DEF GoAgree, TypeOK, PcType

LEMMA EnterStageType ==
  ASSUME TypeOK, NEW p \in Proc, EnterStage(p)
  PROVE  /\ pc' \in [Proc -> PcType]
         /\ flagged' \subseteq Proc
         /\ entered' \in [Proc -> SUBSET {"main", "replicate", "agree"}]
<1>1. CASE TakesPart(p)
  <2>1. stage[p] \in {"main", "replicate"}
    BY DEF TypeOK
  <2> QED BY <1>1, <2>1 DEF EnterStage, TypeOK, PcType
<1>2. CASE ~TakesPart(p)
  BY <1>2, GoAgreeType DEF EnterStage
<1> QED BY <1>1, <1>2

\* The two outcomes of a shrink: the program is aborted because a job has no
\* worker left, or the world becomes W and everybody goes back to the
\* agreement.
ShrinkAborts ==
  aborted' = 200 /\ UNCHANGED <<world, prevWorld, pc, flagged, entered>>
ShrinksTo(W) ==
  /\ \A j \in Job : Workers(j, W) # {}
  /\ world' = W
  /\ prevWorld' = world
  /\ pc' = [p \in Proc |-> IF p \in W THEN "agree" ELSE pc[p]]
  /\ flagged' = FlaggedAfterShrink(W)
  /\ entered' = [p \in Proc |-> IF p \in Live THEN {"agree"} ELSE {}]
  /\ UNCHANGED aborted

LEMMA ShrinkCases ==
  ASSUME Shrink
  PROVE  ShrinkAborts \/ \E F \in ShrinkChoices : ShrinksTo(world \ F)
<1> PICK F \in ShrinkChoices : update_job_list(world \ F)
  BY DEF Shrink
<1>1. CASE \E j \in Job : Workers(j, world \ F) = {}
  BY <1>1, Zenon DEF update_job_list, ShrinkAborts
<1>2. CASE ~ \E j \in Job : Workers(j, world \ F) = {}
  BY <1>2, Zenon DEF update_job_list, ShrinksTo
<1> QED BY <1>1, <1>2

\* Every step keeps the type of every variable.
LEMMA TypeStep == TypeOK /\ [Next]_vars => TypeOK'
<1> SUFFICES ASSUME TypeOK, [Next]_vars PROVE TypeOK'
  OBVIOUS
<1>1. ASSUME NEW p \in Proc, StartTrial(p) PROVE TypeOK'
  <2>1. total_trails' \in [Proc -> Nat]
    BY <1>1 DEF StartTrial, TypeOK
  <2>2. EnterStage(p) /\ mpi_ok' \subseteq Proc
    BY <1>1 DEF StartTrial, TypeOK
  <2> QED BY <1>1, <2>1, <2>2, EnterStageType
          DEF StartTrial, ulfmVars, TypeOK, PcType
<1>2. ASSUME NEW p \in Proc, AbortTrials(p) PROVE TypeOK'
  BY <1>2 DEF AbortTrials, TypeOK
<1>3. ASSUME NEW p \in Proc, StartReplicate(p) PROVE TypeOK'
  <2>1. EnterStage(p) /\ mpi_ok' \subseteq Proc
    BY <1>3 DEF StartReplicate, TypeOK
  <2> QED BY <1>3, <2>1, EnterStageType
          DEF StartReplicate, ulfmVars, TypeOK, PcType
<1>4. ASSUME NEW p \in Proc, OpSucceeds(p) PROVE TypeOK'
  <2>1. GoAgree(p, TRUE)
    BY <1>4, Zenon DEF OpSucceeds
  <2>2. filled' \subseteq Proc /\ mpi_ok' \subseteq Proc
    BY <1>4 DEF OpSucceeds, Put, TypeOK
  <2> QED BY <1>4, <2>1, <2>2, GoAgreeType
          DEF OpSucceeds, ulfmVars, TypeOK, PcType
<1>5. ASSUME NEW p \in Proc, OpFails(p) PROVE TypeOK'
  <2>1. /\ filled' \subseteq Proc /\ mpi_ok' \subseteq Proc
        /\ seen' \in [Proc -> SUBSET Proc]
    BY <1>5 DEF OpFails, TypeOK
  <2>2. /\ pc' \in [Proc -> PcType]
        /\ flagged' \subseteq Proc
        /\ entered' \in [Proc -> SUBSET {"main", "replicate", "agree"}]
    <3>1. CASE Op.comm = "world"
      BY <1>5, <3>1 DEF OpFails, TypeOK, PcType
    <3>2. CASE Op.comm # "world"
      BY <1>5, <3>2, GoAgreeType DEF OpFails
    <3> QED BY <3>1, <3>2
  <2> QED BY <1>5, <2>1, <2>2 DEF OpFails, ulfmVars, TypeOK, PcType
<1>6. ASSUME NEW p \in Proc, AckFailures(p) PROVE TypeOK'
  BY <1>6 DEF AckFailures, TypeOK
<1>7. ASSUME NEW p \in Proc, Crash(p) PROVE TypeOK'
  BY <1>7 DEF Crash, TypeOK
<1>8. CASE AgreeSucceeds
  <2>1. /\ flagged' \subseteq Proc
        /\ pc' \in [Proc -> PcType]
        /\ entered' \in [Proc -> SUBSET {"main", "replicate", "agree"}]
    BY <1>8 DEF AgreeSucceeds, Live, TypeOK, PcType
  <2>2. \A f : \A p \in Proc : NextStage(p, f) \in {"main", "replicate"}
    BY DEF NextStage
  <2>3. stage' \in [Proc -> {"main", "replicate"}]
    BY <1>8, <2>2 DEF AgreeSucceeds, TypeOK
  <2> QED BY <1>8, <2>1, <2>3 DEF AgreeSucceeds, ulfmVars, TypeOK, PcType
<1>9. CASE AgreeFails
  BY <1>9 DEF AgreeFails, Live, ulfmVars, TypeOK
<1>10. CASE Shrink
  <2>0. UNCHANGED <<dead, last_group_failed, stage, total_trails, mpi_ok,
                    filled, seen>>
    BY <1>10 DEF Shrink
  <2>1. CASE ShrinkAborts
    BY <2>0, <2>1 DEF ShrinkAborts, TypeOK
  <2>2. ASSUME NEW F \in ShrinkChoices, ShrinksTo(world \ F) PROVE TypeOK'
    <3>1. /\ world' \subseteq Proc /\ prevWorld' \subseteq Proc
          /\ flagged' \subseteq Proc
      BY <2>2 DEF ShrinksTo, FlaggedAfterShrink, TypeOK
    <3>2. pc' \in [Proc -> PcType]
      BY <2>2 DEF ShrinksTo, TypeOK, PcType
    <3>3. entered' \in [Proc -> SUBSET {"main", "replicate", "agree"}]
      BY <2>2 DEF ShrinksTo
    <3>4. aborted' \in {0, 10, 200}
      BY <2>2 DEF ShrinksTo, TypeOK
    <3> QED BY <2>0, <3>1, <3>2, <3>3, <3>4 DEF TypeOK, PcType
  <2> QED BY <1>10, <2>1, <2>2, ShrinkCases
<1>11. CASE Finished \/ UNCHANGED vars
  BY <1>11 DEF Finished, vars, TypeOK
<1> QED BY <1>1, <1>2, <1>3, <1>4, <1>5, <1>6, <1>7, <1>8, <1>9, <1>10,
           <1>11 DEF Next

\* Every variable of the call always has its type, in every execution.
THEOREM TypeCorrect == Spec => []TypeOK
<1>1. Init => TypeOK
  BY CollectiveAssumption DEF Init, Workers, TypeOK
<1> QED BY <1>1, TypeStep, PTL DEF Spec

-----------------------------------------------------------------------------
(* The world communicator.                                                 *)

\* The world holds every live process and a worker of every job: a shrink
\* removes only dead processes and aborts before it leaves a job empty.
WorldInv ==
  /\ Live \subseteq world
  /\ \A j \in Job : Workers(j, world) # {}

LEMMA WorldStep ==
  ASSUME TypeOK, WorldInv, [Next]_vars
  PROVE  WorldInv'
<1>1. CASE UNCHANGED <<dead, world>>
  BY <1>1 DEF WorldInv, Live
<1>2. ASSUME NEW p \in Proc, Crash(p) PROVE WorldInv'
  BY <1>2 DEF Crash, WorldInv, Live
<1>3. CASE Shrink
  <2>1. UNCHANGED dead
    BY <1>3 DEF Shrink
  <2>2. CASE ShrinkAborts
    BY <1>1, <2>1, <2>2 DEF ShrinkAborts
  <2>3. ASSUME NEW F \in ShrinkChoices, ShrinksTo(world \ F) PROVE WorldInv'
    BY <2>1, <2>3 DEF ShrinksTo, ShrinkChoices, WorldInv, Live
  <2> QED BY <1>3, <2>2, <2>3, ShrinkCases
<1> QED
  BY <1>1, <1>2, <1>3 DEF Next, StartTrial, AbortTrials, StartReplicate,
     OpSucceeds, OpFails, AckFailures, AgreeSucceeds, AgreeFails, Finished,
     ulfmVars, vars

\* A collective call never loses a live process from the world communicator,
\* and never leaves a job without a worker in it.
THEOREM WorldSafe == Spec => [](TypeOK /\ WorldInv)
<1>1. Init => WorldInv
  BY CollectiveAssumption DEF Init, WorldInv, Live
<1> QED BY <1>1, WorldStep, TypeStep, TypeCorrect, PTL DEF Spec

-----------------------------------------------------------------------------
(* The live processes stay in step while at most one process crashes.      *)

\* LockStep is not inductive: whether the main operation is done again is
\* decided by every process for itself, from its own last_group_failed.  With
\* one crash these groups are equal, because a process that reached the
\* shrink has acknowledged the only failure there is.
LockStepInv ==
  /\ \A p, q \in dead : p = q
  /\ LockStep
  /\ \A p \in Live : InHandler(p) => dead # {}
  /\ \A p \in Live : pc[p] = "shrink" => last_group_failed[p] = dead
  /\ \A p, q \in Live :
        ~InHandler(p) /\ ~InHandler(q)
            => last_group_failed[p] = last_group_failed[q]

\* A process that only moves on inside its stage (no return, no handler)
\* leaves the others in step with it.
LEMMA LocalStep ==
  ASSUME TypeOK, LockStepInv, NEW p \in Proc, p \in Live,
         pc[p] \in {"call", "comm"},
         pc' = [pc EXCEPT ![p] = "comm"] \/ pc' = [pc EXCEPT ![p] = "agree"],
         UNCHANGED <<dead, stage, last_group_failed>>
  PROVE  LockStepInv'
<1>1. \A q \in Live : /\ pc'[q] = "done" <=> pc[q] = "done"
                      /\ pc'[q] \in {"ack", "shrink"} <=> pc[q] \in {"ack", "shrink"}
                      /\ pc'[q] = "shrink" <=> pc[q] = "shrink"
  BY DEF TypeOK, Live
<1> QED BY <1>1 DEF LockStepInv, LockStep, InHandler, Live

LEMMA EnterStageMoves ==
  ASSUME NEW p \in Proc, EnterStage(p)
  PROVE  pc' = [pc EXCEPT ![p] = "comm"] \/ pc' = [pc EXCEPT ![p] = "agree"]
BY Zenon DEF EnterStage, GoAgree

\* Every step keeps the processes in step.
LEMMA LockStepStep ==
  ASSUME MaxCrash <= 1, Op.comm # "world", TypeOK, WorldInv, LockStepInv, [Next]_vars
  PROVE  LockStepInv'
<1>1. ASSUME NEW p \in Proc, StartTrial(p) PROVE LockStepInv'
  BY <1>1, LocalStep, EnterStageMoves DEF StartTrial, Running, ulfmVars
<1>2. ASSUME NEW p \in Proc, AbortTrials(p) PROVE LockStepInv'
  BY <1>2 DEF AbortTrials, LockStepInv, LockStep, InHandler, Live
<1>3. ASSUME NEW p \in Proc, StartReplicate(p) PROVE LockStepInv'
  BY <1>3, LocalStep, EnterStageMoves DEF StartReplicate, Running, ulfmVars
<1>4. ASSUME NEW p \in Proc, OpSucceeds(p) PROVE LockStepInv'
  BY <1>4, LocalStep DEF OpSucceeds, GoAgree, Running, ulfmVars
<1>5. ASSUME NEW p \in Proc, OpFails(p) PROVE LockStepInv'
  BY <1>5, LocalStep DEF OpFails, GoAgree, Running, ulfmVars
<1>6. ASSUME NEW p \in Proc, AckFailures(p) PROVE LockStepInv'
  <2>1. PICK S \in SUBSET (dead \intersect world) :
           S # {} /\ last_group_failed' = [last_group_failed EXCEPT ![p] = S]
    BY <1>6 DEF AckFailures
  <2>2. S = dead
    BY <2>1 DEF LockStepInv
  <2>3. /\ p \in Live /\ pc[p] = "ack"
        /\ pc' = [pc EXCEPT ![p] = "shrink"]
        /\ UNCHANGED <<dead, stage>>
    BY <1>6 DEF AckFailures, Running
  <2>4. \A q \in Live : InHandler(q)
    BY <2>3 DEF LockStepInv, LockStep, InHandler
  <2> QED BY <2>1, <2>2, <2>3, <2>4
          DEF LockStepInv, LockStep, InHandler, Live, TypeOK
<1>7. ASSUME NEW p \in Proc, Crash(p) PROVE LockStepInv'
  <2>0. IsFiniteSet(dead) /\ Cardinality(dead) \in Nat
    <3>1. dead \in SUBSET Proc
      BY DEF TypeOK
    <3> QED BY <3>1, ProcAssumption, FS_Subset, FS_CardinalityType
  <2>1. Cardinality(dead) < MaxCrash /\ dead' = dead \union {p}
    BY <1>7 DEF Crash
  <2>2. dead = {}
    <3>1. Cardinality(dead) = 0
      BY <2>0, <2>1, CollectiveAssumption
    <3> QED BY <2>0, <3>1, FS_EmptySet
  <2> QED BY <1>7, <2>1, <2>2
          DEF Crash, LockStepInv, LockStep, InHandler, Live
<1>8. CASE AgreeSucceeds
  <2> DEFINE f == world \subseteq flagged
  <2>1. /\ \A p \in Live : pc[p] = "agree"
        /\ stage' = [p \in Proc |-> IF p \in Live THEN NextStage(p, f)
                                                   ELSE stage[p]]
        /\ pc' = [p \in Proc |->
                    IF p \notin Live THEN pc[p]
                    ELSE IF Returns(p, f) THEN "done" ELSE "call"]
        /\ UNCHANGED <<dead, last_group_failed>>
    BY <1>8 DEF AgreeSucceeds, AllAgreeing, ulfmVars
  <2>2. ASSUME NEW p \in Live, NEW q \in Live
        PROVE  /\ last_group_failed[p] = last_group_failed[q]
               /\ stage[p] = stage[q]
    BY <2>1 DEF LockStepInv, LockStep, InHandler
  <2>3. ASSUME NEW p \in Live, NEW q \in Live
        PROVE  /\ NextStage(p, f) = NextStage(q, f)
               /\ Returns(p, f) <=> Returns(q, f)
    BY <2>2 DEF NextStage, Returns
  <2> HIDE DEF f
  <2>4. \A p \in Live : pc'[p] \in {"done", "call"}
    BY <2>1 DEF Live
  <2>5. LockStep'
    BY <2>1, <2>3, <2>4 DEF LockStep, InHandler, Live
  <2> QED BY <2>1, <2>2, <2>4, <2>5 DEF LockStepInv, InHandler, Live
<1>9. CASE AgreeFails
  <2>1. /\ dead # {}
        /\ pc' = [p \in Proc |-> IF p \in Live THEN "ack" ELSE pc[p]]
        /\ UNCHANGED <<dead, stage, last_group_failed>>
    BY <1>9 DEF AgreeFails, ulfmVars
  <2>2. \A p \in Live : pc'[p] = "ack"
    BY <2>1 DEF Live
  <2> QED BY <2>1, <2>2 DEF LockStepInv, LockStep, InHandler, Live
<1>10. CASE Shrink
  <2>1. /\ UNCHANGED <<dead, stage, last_group_failed>>
        /\ \A p \in Live : pc[p] = "shrink"
    BY <1>10 DEF Shrink
  <2>2. CASE ShrinkAborts
    BY <2>1, <2>2 DEF ShrinkAborts, LockStepInv, LockStep, InHandler, Live
  <2>3. ASSUME NEW F \in ShrinkChoices, ShrinksTo(world \ F)
        PROVE  LockStepInv'
    <3>1. \A p \in Live : pc'[p] = "agree"
      BY <2>3 DEF ShrinksTo, ShrinkChoices, WorldInv, Live
    <3> QED BY <2>1, <3>1 DEF LockStepInv, LockStep, InHandler, Live
  <2> QED BY <1>10, <2>2, <2>3, ShrinkCases
<1>11. CASE Finished \/ UNCHANGED vars
  BY <1>11 DEF Finished, vars, LockStepInv, LockStep, InHandler, Live
<1> QED BY <1>1, <1>2, <1>3, <1>4, <1>5, <1>6, <1>7, <1>8, <1>9, <1>10,
           <1>11 DEF Next

\* With at most one crash, the live processes of every call but MPI_Bcast
\* are always in the same stage, enter the error handler together (so its
\* collective shrink cannot wait for a process that is not coming) and
\* return together.
THEOREM LockStepHolds ==
  ASSUME MaxCrash <= 1, Op.comm # "world"
  PROVE  Spec => []LockStep
<1>1. Init => LockStepInv
  BY DEF Init, LockStepInv, LockStep, InHandler, Live
<1>2. TypeOK /\ WorldInv /\ LockStepInv /\ [Next]_vars => LockStepInv'
  BY LockStepStep
<1>3. LockStepInv => LockStep
  BY DEF LockStepInv
<1> QED BY <1>1, <1>2, <1>3, WorldSafe, PTL DEF Spec

=============================================================================

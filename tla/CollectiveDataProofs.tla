------------------------ MODULE CollectiveDataProofs ------------------------
(***************************************************************************)
(* What the workers hold when a collective call returns MPI_SUCCESS, for   *)
(* every layout of the jobs and every number of crashes.                   *)
(***************************************************************************)
EXTENDS CollectiveProofs

NoMasterDied == dead \intersect Masters(Proc) = {}

\* As long as no process that was a master when the call began has died, the
\* masters are the same processes in every world the call shrinks to.
LEMMA MastersStay ==
  ASSUME TypeOK, WorldInv, NoMasterDied
  PROVE  /\ \A j \in Job : Head(j, world) = Head(j, Proc)
         /\ \A j \in Job : Head(j, Proc) \in Masters(Proc) /\ JobOf[Head(j, Proc)] = j
         /\ Masters(world) = Masters(Proc)
<1>1. ASSUME NEW j \in Job
      PROVE  /\ Head(j, Proc) \in Masters(Proc)
             /\ JobOf[Head(j, Proc)] = j
             /\ Head(j, Proc) \in Proc
  <2>1. Head(j, Proc) \in Workers(j, Proc)
    BY HeadExists, CollectiveAssumption
  <2> QED BY <2>1 DEF Workers, Masters
<1>2. ASSUME NEW j \in Job PROVE Head(j, world) = Head(j, Proc)
  <2>1. Head(j, Proc) \in world
    BY <1>1 DEF NoMasterDied, WorldInv, Live
  <2>2. world \in SUBSET Proc
    BY DEF TypeOK
  <2> QED BY <2>1, <2>2, HeadStable, CollectiveAssumption
<1>3. Masters(world) = Masters(Proc)
  <2>1. \A p \in Proc : JobOf[p] \in Job
    BY JobAssumption
  <2>2. world \subseteq Proc
    BY DEF TypeOK
  <2>3. \A p \in Masters(Proc) : p \in world
    BY DEF NoMasterDied, WorldInv, Live, Masters
  <2> QED BY <1>2, <2>1, <2>2, <2>3 DEF Masters
<1> QED BY <1>1, <1>2, <1>3

-----------------------------------------------------------------------------
(* The operations on active_comm whose flag is assigned on every outcome:  *)
(* MPI_Scatter, MPI_Gather, MPI_Allgather, MPI_Allreduce.                  *)

\* ReplicaFailuresHarmless strengthened: a master holds the result from the
\* moment its main operation is over; a replica holds it when its inner
\* broadcast succeeded, which its flag records until the agreement; and the
\* broadcast a replica receives was entered by a master that is in the inner
\* loop itself.
EnteredInv ==
  \A p \in Proc : "replicate" \in entered[p] => stage[p] = "replicate"
MastersHold ==
  \A m \in Masters(Proc) :
      HasResult(JobOf[m]) /\ (stage[m] = "replicate" \/ pc[m] \notin {"call", "comm"})
          => m \in filled
FlaggedHold ==
  \A p \in Live :
      HasResult(JobOf[p]) /\ p \in flagged /\ stage[p] = "replicate"
        /\ pc[p] \in {"agree", "ack", "shrink"}
          => p \in filled
DataInv ==
  EnteredInv /\ (NoMasterDied => MastersHold /\ FlaggedHold /\ DataCorrect)

\* The step of one process p preserves the invariant if it does so for p.
LEMMA OneProcess ==
  ASSUME TypeOK, DataInv, NEW p \in Proc, p \in Live,
         UNCHANGED <<dead, stage>>,
         \A q \in Proc : q # p => /\ q \in flagged' <=> q \in flagged
                                  /\ q \in filled' <=> q \in filled
                                  /\ pc'[q] = pc[q]
                                  /\ entered'[q] = entered[q],
         "replicate" \in entered'[p] => stage[p] = "replicate",
         NoMasterDied /\ p \in Masters(Proc) /\ HasResult(JobOf[p])
            /\ (stage[p] = "replicate" \/ pc'[p] \notin {"call", "comm"})
            => p \in filled',
         NoMasterDied /\ HasResult(JobOf[p]) /\ p \in flagged'
            /\ stage[p] = "replicate" /\ pc'[p] \in {"agree", "ack", "shrink"}
            => p \in filled',
         pc'[p] # "done"
  PROVE  DataInv'
<1>1. EnteredInv'
  BY DEF DataInv, EnteredInv
<1>2. NoMasterDied' <=> NoMasterDied
  BY DEF NoMasterDied
<1>3. ASSUME NoMasterDied PROVE MastersHold'
  BY <1>3 DEF DataInv, MastersHold, Masters, HasResult
<1>4. ASSUME NoMasterDied PROVE FlaggedHold'
  BY <1>4 DEF DataInv, FlaggedHold, Live, HasResult
<1>5. ASSUME NoMasterDied PROVE DataCorrect'
  BY <1>5 DEF DataInv, DataCorrect, Live, HasResult
<1> QED BY <1>1, <1>2, <1>3, <1>4, <1>5 DEF DataInv

\* A step of all live processes between the agreement and the handler
\* preserves the invariant: it forgets flags and touches no buffer.
LEMMA AllInHandler ==
  ASSUME DataInv, UNCHANGED <<dead, stage, filled>>,
         \A p \in Live : /\ pc[p] \in {"agree", "shrink"}
                         /\ pc'[p] \in {"agree", "ack"}
                         /\ p \in flagged' => p \in flagged,
         \A p \in Proc : "replicate" \in entered'[p]
                            => "replicate" \in entered[p]
  PROVE  DataInv'
<1>1. EnteredInv'
  BY DEF DataInv, EnteredInv
<1>2. NoMasterDied' <=> NoMasterDied
  BY DEF NoMasterDied
<1>3. ASSUME NoMasterDied PROVE MastersHold'
  <2>1. \A m \in Masters(Proc) : m \in Live
    BY <1>3 DEF NoMasterDied, Masters, Live
  <2> QED BY <1>3, <2>1 DEF DataInv, MastersHold, HasResult
<1>4. ASSUME NoMasterDied PROVE FlaggedHold'
  BY <1>4 DEF DataInv, FlaggedHold, Live, HasResult
<1>5. DataCorrect'
  BY DEF DataCorrect, Live
<1> QED BY <1>1, <1>2, <1>3, <1>4, <1>5 DEF DataInv

\* A step of p that leaves the buffers alone and goes into the operation, or
\* past it in the main stage.
LEMMA DataEnter ==
  ASSUME TypeOK, WorldInv, DataInv, Op.flag = "assigned", Op.comm = "active",
         NEW p \in Proc, p \in Live, pc[p] = "call", EnterStage(p),
         UNCHANGED <<dead, world, stage, filled>>
  PROVE  DataInv'
<1>0. \A q \in Proc : "replicate" \in entered[q] => stage[q] = "replicate"
  BY DEF DataInv, EnteredInv
<1>1. CASE TakesPart(p)
  <2>1. /\ pc' = [pc EXCEPT ![p] = "comm"]
        /\ entered' = [entered EXCEPT ![p] = @ \union {stage[p]}]
        /\ flagged' = flagged
    BY <1>1, Zenon DEF EnterStage
  <2>2. pc'[p] = "comm" /\ entered'[p] = entered[p] \union {stage[p]}
    BY <2>1 DEF TypeOK
  <2>3. NoMasterDied /\ p \in Masters(Proc) /\ HasResult(JobOf[p])
           /\ stage[p] = "replicate" => p \in filled
    BY DEF DataInv, MastersHold
  <2> QED BY <1>0, <2>1, <2>2, <2>3, OneProcess DEF TypeOK
<1>2. CASE ~TakesPart(p)
  <2>1. /\ pc' = [pc EXCEPT ![p] = "agree"]
        /\ entered' = [entered EXCEPT ![p] = @ \union {"agree"}]
        /\ flagged' = Put(flagged, p, FlagAfter(p, p \in mpi_ok'))
    BY <1>2, Zenon DEF EnterStage, GoAgree
  <2>2. Op.replicate = "everyJob"
    BY CollectiveAssumption DEF Collectives, MPI_Scatter, MPI_Bcast, MPI_Gather,
       MPI_Allgather, MPI_Reduce, MPI_Allreduce
  <2>3. stage[p] = "main" /\ p \notin Masters(world)
    BY <1>2, <2>2 DEF TakesPart, Comm, world_job_comm, active_comm, Workers,
       WorldInv, TypeOK
  <2>4. NoMasterDied => p \notin Masters(Proc)
    BY <2>3, MastersStay
  <2>5. pc'[p] = "agree" /\ entered'[p] = entered[p] \union {"agree"}
    BY <2>1 DEF TypeOK
  <2>6. \A q \in Proc : q # p => (q \in flagged' <=> q \in flagged)
    BY <2>1 DEF Put
  <2> QED BY <1>0, <2>1, <2>3, <2>4, <2>5, <2>6, OneProcess DEF TypeOK
<1> QED BY <1>1, <1>2

\* What a successful operation leaves in the buffer of p is the result,
\* unless p is a replica in the main stage or has no result to receive.
LEMMA ReceivedResult ==
  ASSUME TypeOK, WorldInv, DataInv, NoMasterDied, Op.comm = "active",
         NEW p \in Proc, p \in Live, DataSent(p),
         HasResult(JobOf[p]), stage[p] = "replicate" \/ p \in Masters(Proc)
  PROVE  Received(p)
<1>1. JobOf[p] \in Job
  BY JobAssumption
<1>2. CASE stage[p] = "replicate"
  <2> DEFINE m == Head(JobOf[p], world)
  <2>1. Root(p) = m /\ m \in Masters(Proc) /\ JobOf[m] = JobOf[p]
    BY <1>1, <1>2, MastersStay DEF Root
  <2>2. "replicate" \in entered[m]
    BY <1>2, <2>1 DEF DataSent, Flow
  <2>3. m \in Proc
    BY <2>1 DEF Masters
  <2>4. stage[m] = "replicate"
    BY <2>2, <2>3 DEF DataInv, EnteredInv
  <2>5. m \in filled
    BY <2>1, <2>4 DEF DataInv, MastersHold
  <2> QED BY <1>2, <2>1, <2>5 DEF Received
<1>3. CASE stage[p] # "replicate"
  <2>1. p = Head(JobOf[p], world)
    BY <1>1, <1>3, MastersStay DEF Masters
  <2> QED BY <1>3, <2>1 DEF Received, Root, HasResult
<1> QED BY <1>2, <1>3

\* Every step keeps the invariant.
LEMMA DataStep ==
  ASSUME TypeOK, WorldInv, DataInv, Op.flag = "assigned", Op.comm = "active",
         [Next]_vars
  PROVE  DataInv'
<1>1. ASSUME NEW p \in Proc, StartTrial(p) PROVE DataInv'
  <2>1. EnterStage(p) /\ UNCHANGED <<dead, world, stage, filled>>
    BY <1>1 DEF StartTrial, ulfmVars
  <2>2. p \in Live /\ pc[p] = "call"
    BY <1>1 DEF StartTrial, Running
  <2> QED BY <2>1, <2>2, DataEnter
<1>2. ASSUME NEW p \in Proc, AbortTrials(p) PROVE DataInv'
  BY <1>2 DEF AbortTrials, DataInv, EnteredInv, MastersHold, FlaggedHold,
              DataCorrect, NoMasterDied, HasResult, Live
<1>3. ASSUME NEW p \in Proc, StartReplicate(p) PROVE DataInv'
  <2>1. EnterStage(p) /\ UNCHANGED <<dead, world, stage, filled>>
    BY <1>3 DEF StartReplicate, ulfmVars
  <2>2. p \in Live /\ pc[p] = "call"
    BY <1>3 DEF StartReplicate, Running
  <2> QED BY <2>1, <2>2, DataEnter
<1>4. ASSUME NEW p \in Proc, OpSucceeds(p) PROVE DataInv'
  <2>0. GoAgree(p, TRUE)
    BY <1>4, Zenon DEF OpSucceeds
  <2>1. /\ p \in Live /\ pc[p] = "comm" /\ DataSent(p)
        /\ UNCHANGED <<dead, world, stage>>
        /\ filled' = Put(filled, p, Received(p))
    BY <1>4, Zenon DEF OpSucceeds, Running, ulfmVars
  <2>2. \A q \in Proc : q # p => /\ q \in flagged' <=> q \in flagged
                                 /\ q \in filled' <=> q \in filled
                                 /\ pc'[q] = pc[q]
                                 /\ entered'[q] = entered[q]
    <3>1. \A q \in Proc : q # p => /\ q \in flagged' <=> q \in flagged
                                   /\ q \in filled' <=> q \in filled
      BY <2>0, <2>1, Zenon DEF GoAgree, Put
    <3>2. \A q \in Proc : q # p => pc'[q] = pc[q] /\ entered'[q] = entered[q]
      BY <2>0 DEF GoAgree, TypeOK
    <3> QED BY <3>1, <3>2
  <2>3. pc'[p] = "agree" /\ entered'[p] = entered[p] \union {"agree"}
    BY <2>0 DEF GoAgree, TypeOK
  <2>4. Received(p) => p \in filled'
    BY <2>1 DEF Put
  <2>5. NoMasterDied /\ HasResult(JobOf[p])
           /\ (stage[p] = "replicate" \/ p \in Masters(Proc)) => p \in filled'
    BY <2>1, <2>4, ReceivedResult
  <2>6. "replicate" \in entered[p] => stage[p] = "replicate"
    BY DEF DataInv, EnteredInv
  <2> QED BY <2>1, <2>2, <2>3, <2>5, <2>6, OneProcess
<1>5. ASSUME NEW p \in Proc, OpFails(p) PROVE DataInv'
  <2>0. GoAgree(p, FALSE)
    BY <1>5, Zenon DEF OpFails
  <2>1. /\ p \in Live /\ pc[p] = "comm"
        /\ Comm(p) \intersect dead # {}
        /\ UNCHANGED <<dead, world, stage>>
    BY <1>5 DEF OpFails, Running, ulfmVars
  <2>2. /\ \A q \in Proc : q # p => (q \in filled' <=> q \in filled)
        /\ p \in filled /\ Received(p) /\ stage[p] = "replicate" => p \in filled'
    BY <1>5 DEF OpFails, Spoils
  <2>3. \A q \in Proc : q # p => /\ q \in flagged' <=> q \in flagged
                                 /\ pc'[q] = pc[q]
                                 /\ entered'[q] = entered[q]
    <3>1. \A q \in Proc : q # p => (q \in flagged' <=> q \in flagged)
      BY <2>0 DEF GoAgree, Put
    <3>2. \A q \in Proc : q # p => pc'[q] = pc[q] /\ entered'[q] = entered[q]
      BY <2>0 DEF GoAgree, TypeOK
    <3> QED BY <3>1, <3>2
  <2>4. /\ pc'[p] = "agree" /\ entered'[p] = entered[p] \union {"agree"}
        /\ p \notin flagged'
    BY <2>0 DEF GoAgree, Put, FlagAfter, TypeOK
  <2>5. ASSUME NoMasterDied, p \in Masters(Proc), HasResult(JobOf[p])
        PROVE  p \in filled'
    <3>1. stage[p] = "replicate"
      <4>1. Masters(world) \intersect dead = {}
        BY <2>5, MastersStay DEF NoMasterDied
      <4> QED BY <2>1, <4>1 DEF Comm, active_comm, TypeOK
    <3>2. p \in filled
      BY <2>5, <3>1 DEF DataInv, MastersHold
    <3>3. Root(p) = p
      <4>1. JobOf[p] \in Job
        BY JobAssumption
      <4> QED BY <2>5, <3>1, <4>1, MastersStay DEF Root, Masters
    <3> QED BY <2>2, <3>1, <3>2, <3>3 DEF Received
  <2>6. "replicate" \in entered[p] => stage[p] = "replicate"
    BY DEF DataInv, EnteredInv
  <2> QED BY <2>1, <2>2, <2>3, <2>4, <2>5, <2>6, OneProcess
<1>6. ASSUME NEW p \in Proc, AckFailures(p) PROVE DataInv'
  <2>1. /\ p \in Live /\ pc[p] = "ack" /\ pc' = [pc EXCEPT ![p] = "shrink"]
        /\ UNCHANGED <<dead, stage, filled, flagged, entered>>
    BY <1>6 DEF AckFailures, Running
  <2>2. /\ pc'[p] = "shrink"
        /\ \A q \in Proc : q # p => pc'[q] = pc[q]
    BY <2>1 DEF TypeOK
  <2> QED BY <2>1, <2>2, OneProcess
          DEF DataInv, EnteredInv, MastersHold, FlaggedHold
<1>7. ASSUME NEW p \in Proc, Crash(p) PROVE DataInv'
  BY <1>7 DEF Crash, DataInv, EnteredInv, MastersHold, FlaggedHold,
              DataCorrect, NoMasterDied, HasResult, Live
<1>8. CASE AgreeSucceeds
  <2> DEFINE f == world \subseteq flagged
  <2>1. /\ \A p \in Live : pc[p] = "agree"
        /\ stage' = [p \in Proc |-> IF p \in Live THEN NextStage(p, f)
                                                   ELSE stage[p]]
        /\ pc' = [p \in Proc |->
                    IF p \notin Live THEN pc[p]
                    ELSE IF Returns(p, f) THEN "done" ELSE "call"]
        /\ entered' = [p \in Proc |-> {}]
        /\ UNCHANGED <<dead, world, filled>>
    BY <1>8 DEF AgreeSucceeds, AllAgreeing, ulfmVars
  <2>2. Op.replicate = "everyJob"
    BY CollectiveAssumption DEF Collectives, MPI_Scatter, MPI_Bcast, MPI_Gather,
       MPI_Allgather, MPI_Reduce, MPI_Allreduce
  <2>3. \A p \in Live : Returns(p, f) => p \in flagged /\ stage[p] = "replicate"
    BY <2>2 DEF Returns, WorldInv
  <2> HIDE DEF f
  <2>4. \A p \in Live : /\ pc'[p] \in {"done", "call"}
                        /\ pc'[p] = "done" => Returns(p, f)
    BY <2>1 DEF Live
  <2>5. NoMasterDied' <=> NoMasterDied
    BY <2>1 DEF NoMasterDied
  <2>6. ASSUME NoMasterDied PROVE MastersHold'
    <3>1. \A m \in Masters(Proc) : m \in Live
      BY <2>6 DEF NoMasterDied, Masters, Live
    <3> QED BY <2>1, <2>6, <3>1 DEF DataInv, MastersHold, HasResult
  <2>7. FlaggedHold'
    BY <2>1, <2>4 DEF FlaggedHold, Live
  <2>8. ASSUME NoMasterDied PROVE DataCorrect'
    BY <2>1, <2>3, <2>4, <2>8
    DEF DataInv, FlaggedHold, DataCorrect, HasResult, Live
  <2>9. EnteredInv'
    BY <2>1 DEF EnteredInv
  <2> QED BY <2>5, <2>6, <2>7, <2>8, <2>9 DEF DataInv
<1>9. CASE AgreeFails
  <2>1. /\ \A p \in Live : pc[p] = "agree"
        /\ pc' = [p \in Proc |-> IF p \in Live THEN "ack" ELSE pc[p]]
        /\ UNCHANGED <<dead, world, stage, filled, entered>>
        /\ \A p \in Live : p \in flagged' => p \in flagged
    BY <1>9 DEF AgreeFails, AllAgreeing, ulfmVars
  <2>2. \A p \in Live : pc'[p] = "ack"
    BY <2>1 DEF Live
  <2> QED BY <2>1, <2>2, AllInHandler
<1>10. CASE Shrink
  <2>1. /\ UNCHANGED <<dead, stage, filled>>
        /\ \A p \in Live : pc[p] = "shrink"
    BY <1>10 DEF Shrink
  <2>2. CASE ShrinkAborts
    BY <2>1, <2>2
    DEF ShrinkAborts, DataInv, EnteredInv, MastersHold, FlaggedHold,
        DataCorrect, NoMasterDied, HasResult, Live
  <2>3. ASSUME NEW F \in ShrinkChoices, ShrinksTo(world \ F) PROVE DataInv'
    <3>1. \A p \in Live : pc'[p] = "agree"
      BY <2>3 DEF ShrinksTo, ShrinkChoices, WorldInv, Live
    <3>2. flagged' \subseteq flagged
      BY <2>3 DEF ShrinksTo, FlaggedAfterShrink
    <3>3. \A p \in Proc : "replicate" \notin entered'[p]
      BY <2>3 DEF ShrinksTo
    <3> QED BY <2>1, <3>1, <3>2, <3>3, AllInHandler
  <2> QED BY <1>10, <2>2, <2>3, ShrinkCases
<1>11. CASE Finished \/ UNCHANGED vars
  BY <1>11 DEF Finished, vars, DataInv, EnteredInv, MastersHold, FlaggedHold,
               DataCorrect, NoMasterDied, HasResult, Live
<1> QED BY <1>1, <1>2, <1>3, <1>4, <1>5, <1>6, <1>7, <1>8, <1>9, <1>10,
           <1>11 DEF Next

\* MPI_Scatter, MPI_Gather, MPI_Allgather and MPI_Allreduce: whatever replicas
\* die, however many and whenever, every worker that returns holds the
\* result, as long as no master dies.
THEOREM ReplicaFailuresHarmlessHolds ==
  ASSUME Op.flag = "assigned", Op.comm = "active"
  PROVE  Spec => []ReplicaFailuresHarmless
<1>1. Init => DataInv
  BY DEF Init, DataInv, EnteredInv, MastersHold, FlaggedHold, DataCorrect,
         HasResult, Live, Masters
<1>2. TypeOK /\ WorldInv /\ DataInv /\ [Next]_vars => DataInv'
  BY DataStep
<1>3. DataInv => ReplicaFailuresHarmless
  BY DEF DataInv, ReplicaFailuresHarmless, NoMasterDied
<1> QED BY <1>1, <1>2, <1>3, WorldSafe, PTL DEF Spec

-----------------------------------------------------------------------------
(* MPI_Bcast, which runs on the world communicator itself.                 *)

\* Every worker of the root job holds the data from the start and passes on
\* nothing else; a receiver that failed to get it keeps flag = 0 until the
\* agreement, through any number of shrinks.
BcastInv ==
  /\ \A p \in Proc : stage[p] = "main"
  /\ \A p \in Proc : JobOf[p] = RootJob => p \in filled
  /\ \A p \in Live : p \in flagged /\ pc[p] \in {"agree", "ack", "shrink"}
        => p \in filled
  /\ \A p \in Live : pc[p] = "done" => p \in filled

\* Whatever arrives comes from a worker of the root job.
LEMMA BcastReceived ==
  ASSUME TypeOK, WorldInv, BcastInv, Op.comm = "world", NEW p \in Proc
  PROVE  Received(p)
<1>1. Head(RootJob, world) \in Workers(RootJob, world)
  <2>1. world \in SUBSET Proc
    BY DEF TypeOK
  <2> QED BY <2>1, HeadExists, CollectiveAssumption DEF WorldInv
<1>2. Head(RootJob, world) \in filled
  BY <1>1 DEF Workers, BcastInv, TypeOK
<1> QED BY <1>2 DEF Received, Root, BcastInv

LEMMA BcastStep ==
  ASSUME TypeOK, WorldInv, BcastInv, Op.comm = "world", [Next]_vars
  PROVE  BcastInv'
<1>0. Op.flag = "assigned" /\ Op.data = "blocks"
  BY CollectiveAssumption DEF Collectives, MPI_Scatter, MPI_Bcast, MPI_Gather,
     MPI_Allgather, MPI_Reduce, MPI_Allreduce
<1>1. ASSUME NEW p \in Proc, StartTrial(p) PROVE BcastInv'
  <2>1. /\ p \in Live /\ EnterStage(p)
        /\ UNCHANGED <<dead, stage, filled>>
    BY <1>1 DEF StartTrial, Running, ulfmVars
  <2>2. p \in Comm(p)
    BY <2>1 DEF Comm, BcastInv, WorldInv
  <2>3. TakesPart(p)
    BY <2>2 DEF TakesPart, BcastInv
  <2>4. pc' = [pc EXCEPT ![p] = "comm"] /\ flagged' = flagged
    BY <2>1, <2>3, Zenon DEF EnterStage
  <2> QED BY <2>1, <2>4 DEF BcastInv, Live, TypeOK
<1>2. ASSUME NEW p \in Proc, AbortTrials(p) PROVE BcastInv'
  BY <1>2 DEF AbortTrials, BcastInv, Live
<1>3. ASSUME NEW p \in Proc, StartReplicate(p) PROVE BcastInv'
  BY <1>3 DEF StartReplicate, BcastInv
<1>4. ASSUME NEW p \in Proc, OpSucceeds(p) PROVE BcastInv'
  <2>0. GoAgree(p, TRUE)
    BY <1>4, Zenon DEF OpSucceeds
  <2>1. UNCHANGED <<dead, stage>> /\ filled' = Put(filled, p, Received(p))
    BY <1>4, Zenon DEF OpSucceeds, ulfmVars
  <2>2. filled' = filled \union {p}
    BY <2>1, BcastReceived DEF Put
  <2>3. \A q \in Proc : q # p => (q \in flagged' <=> q \in flagged)
    BY <2>0, Zenon DEF GoAgree, Put
  <2>4. \A q \in Proc : q # p => pc'[q] = pc[q]
    BY <2>0 DEF GoAgree, TypeOK
  <2> QED BY <2>1, <2>2, <2>3, <2>4 DEF BcastInv, Live
<1>5. ASSUME NEW p \in Proc, OpFails(p) PROVE BcastInv'
  <2>1. /\ UNCHANGED <<dead, stage>>
        /\ pc' = [pc EXCEPT ![p] = "ack"]
        /\ flagged' = flagged \ {p}
    BY <1>5 DEF OpFails, ulfmVars
  <2>2. filled' = filled
    BY <1>0, <1>5, BcastReceived DEF OpFails, Spoils
  <2> QED BY <2>1, <2>2 DEF BcastInv, Live, TypeOK
<1>6. ASSUME NEW p \in Proc, AckFailures(p) PROVE BcastInv'
  <2>1. /\ pc[p] = "ack" /\ pc' = [pc EXCEPT ![p] = "shrink"]
        /\ UNCHANGED <<dead, stage, filled, flagged>>
    BY <1>6 DEF AckFailures
  <2> QED BY <2>1 DEF BcastInv, Live, TypeOK
<1>7. ASSUME NEW p \in Proc, Crash(p) PROVE BcastInv'
  BY <1>7 DEF Crash, BcastInv, Live
<1>8. CASE AgreeSucceeds
  <2> DEFINE f == world \subseteq flagged
  <2>1. /\ \A p \in Live : pc[p] = "agree"
        /\ stage' = [p \in Proc |-> IF p \in Live THEN NextStage(p, f)
                                                   ELSE stage[p]]
        /\ pc' = [p \in Proc |->
                    IF p \notin Live THEN pc[p]
                    ELSE IF Returns(p, f) THEN "done" ELSE "call"]
        /\ UNCHANGED <<dead, filled>>
    BY <1>8 DEF AgreeSucceeds, AllAgreeing, ulfmVars
  <2>2. Op.replicate = "no"
    BY CollectiveAssumption DEF Collectives, MPI_Scatter, MPI_Bcast, MPI_Gather,
       MPI_Allgather, MPI_Reduce, MPI_Allreduce
  <2>3. \A p \in Proc : NextStage(p, f) = "main"
    BY <2>2 DEF NextStage, BcastInv
  <2>4. \A p \in Live : Returns(p, f) => p \in flagged
    BY DEF Returns, WorldInv
  <2> HIDE DEF f
  <2>5. \A p \in Live : /\ pc'[p] \in {"done", "call"}
                        /\ pc'[p] = "done" => Returns(p, f)
    BY <2>1 DEF Live
  <2> QED BY <2>1, <2>3, <2>4, <2>5 DEF BcastInv, Live
<1>9. CASE AgreeFails
  <2>1. /\ \A p \in Live : pc[p] = "agree"
        /\ pc' = [p \in Proc |-> IF p \in Live THEN "ack" ELSE pc[p]]
        /\ UNCHANGED <<dead, stage, filled>>
        /\ \A p \in Live : p \in flagged' => p \in flagged
    BY <1>9 DEF AgreeFails, AllAgreeing, ulfmVars
  <2> QED BY <2>1 DEF BcastInv, Live
<1>10. CASE Shrink
  <2>1. /\ UNCHANGED <<dead, stage, filled>>
        /\ \A p \in Live : pc[p] = "shrink"
    BY <1>10 DEF Shrink
  <2>2. CASE ShrinkAborts
    BY <2>1, <2>2 DEF ShrinkAborts, BcastInv, Live
  <2>3. ASSUME NEW F \in ShrinkChoices, ShrinksTo(world \ F) PROVE BcastInv'
    <3>1. \A p \in Live : pc'[p] = "agree"
      BY <2>3 DEF ShrinksTo, ShrinkChoices, WorldInv, Live
    <3>2. flagged' \subseteq flagged
      BY <2>3 DEF ShrinksTo, FlaggedAfterShrink
    <3> QED BY <2>1, <3>1, <3>2 DEF BcastInv, Live
  <2> QED BY <1>10, <2>2, <2>3, ShrinkCases
<1>11. CASE Finished \/ UNCHANGED vars
  BY <1>11 DEF Finished, vars, BcastInv, Live
<1> QED BY <1>1, <1>2, <1>3, <1>4, <1>5, <1>6, <1>7, <1>8, <1>9, <1>10,
           <1>11 DEF Next

\* MPI_Bcast: however many processes crash, and whenever, a process that
\* returns from the call holds the data.
THEOREM BcastDataCorrect ==
  ASSUME Op.comm = "world"
  PROVE  Spec => []DataCorrect
<1>1. Init => BcastInv
  BY DEF Init, BcastInv, Workers, Live
<1>2. TypeOK /\ WorldInv /\ BcastInv /\ [Next]_vars => BcastInv'
  BY BcastStep
<1>3. BcastInv => DataCorrect
  BY DEF BcastInv, DataCorrect
<1> QED BY <1>1, <1>2, <1>3, WorldSafe, PTL DEF Spec

=============================================================================

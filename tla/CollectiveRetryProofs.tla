----------------------- MODULE CollectiveRetryProofs -----------------------
(***************************************************************************)
(* How often a collective call repeats its operations, and what a process  *)
(* knows of the failure when it decides to, for the calls on active_comm   *)
(* (all but MPI_Bcast); and what a replica that took over has to broadcast *)
(* in MPI_Reduce.                                                          *)
(***************************************************************************)
EXTENDS CollectiveProofs

-----------------------------------------------------------------------------
(* The step of a single process.                                           *)

\* The top of the outer loop, where the next attempt is counted.
AtTop(p) == pc[p] = "call" /\ stage[p] = "main"

\* What StartTrial, StartReplicate, OpSucceeds and OpFails have in common:
\* p goes on to its operation or to the agreement; a flag that is not set
\* there comes from an operation that failed, which p has seen now or, where
\* mpi_status is kept, before.
LocalMove(p) ==
  /\ aborted = 0 /\ p \in Live /\ pc[p] \in {"call", "comm"}
  /\ UNCHANGED <<dead, world, prevWorld, last_group_failed, aborted, stage>>
  /\ \A q \in Proc \ {p} : /\ pc'[q] = pc[q] /\ entered'[q] = entered[q]
                           /\ q \in flagged' <=> q \in flagged
                           /\ q \in mpi_ok' <=> q \in mpi_ok
                           /\ seen'[q] = seen[q]
                           /\ total_trails'[q] = total_trails[q]
  /\ \/ pc'[p] = "comm" /\ entered'[p] = entered[p] \union {stage[p]}
     \/ pc'[p] = "agree" /\ (p \notin flagged' => p \notin mpi_ok')
  /\ seen[p] \subseteq seen'[p] /\ seen'[p] \subseteq seen[p] \union (dead \intersect world)
  /\ p \notin mpi_ok' => \/ seen'[p] # {}
                         \/ p \notin mpi_ok /\ (Op.status = "kept" \/ pc'[p] = "comm")
  /\ total_trails'[p] = IF AtTop(p) THEN total_trails[p] + 1 ELSE total_trails[p]

\* Operations on active_comm and world_job_comm only have members of the world.
LEMMA CommInWorld ==
  ASSUME TypeOK, NEW p \in Proc
  PROVE  Comm(p) \subseteq world
BY DEF Comm, world_job_comm, active_comm, Workers, Masters

\* Entering a stage and going on to the agreement leave the other processes
\* alone.
LEMMA GoAgreeMoves ==
  ASSUME TypeOK, NEW p \in Proc, NEW ok, GoAgree(p, ok)
  PROVE  /\ \A q \in Proc \ {p} : /\ pc'[q] = pc[q] /\ entered'[q] = entered[q]
                                  /\ q \in flagged' <=> q \in flagged
         /\ pc'[p] = "agree" /\ (p \notin flagged' => ~ok)
<1>1. \A q \in Proc \ {p} : q \in flagged' <=> q \in flagged
  BY DEF GoAgree, Put
<1>2. p \notin flagged' => ~ok
  BY DEF GoAgree, Put, FlagAfter
<1> QED BY <1>1, <1>2 DEF GoAgree, TypeOK

LEMMA EnterMoves ==
  ASSUME TypeOK, NEW p \in Proc, EnterStage(p)
  PROVE  /\ \A q \in Proc \ {p} : /\ pc'[q] = pc[q] /\ entered'[q] = entered[q]
                                  /\ q \in flagged' <=> q \in flagged
         /\ \/ /\ TakesPart(p)
               /\ pc'[p] = "comm" /\ entered'[p] = entered[p] \union {stage[p]}
            \/ /\ ~TakesPart(p)
               /\ pc'[p] = "agree" /\ (p \notin flagged' => p \notin mpi_ok')
<1>1. CASE TakesPart(p)
  BY <1>1 DEF EnterStage, TypeOK
<1>2. CASE ~TakesPart(p)
  <2>1. GoAgree(p, p \in mpi_ok')
    BY <1>2, Zenon DEF EnterStage
  <2> QED BY <1>2, <2>1, GoAgreeMoves, Zenon
<1> QED BY <1>1, <1>2

LEMMA LocalMoves ==
  ASSUME TypeOK, Op.comm # "world", NEW p \in Proc,
         StartTrial(p) \/ StartReplicate(p) \/ OpSucceeds(p) \/ OpFails(p)
  PROVE  LocalMove(p)
<1>0. Op.status \in {"kept", "reset"}
  BY CollectiveAssumption DEF Collectives, MPI_Scatter, MPI_Bcast, MPI_Gather,
     MPI_Allgather, MPI_Reduce, MPI_Allreduce
<1>1. CASE StartTrial(p)
  <2>1. EnterStage(p) /\ mpi_ok' = (IF Op.status = "reset" THEN mpi_ok \union {p} ELSE mpi_ok)
    BY <1>1 DEF StartTrial
  <2>2. /\ aborted = 0 /\ p \in Live /\ AtTop(p)
        /\ total_trails' = [total_trails EXCEPT ![p] = @ + 1]
        /\ UNCHANGED <<dead, world, prevWorld, last_group_failed, aborted, stage, seen>>
    BY <1>1 DEF StartTrial, Running, AtTop, ulfmVars
  <2> QED BY <1>0, <2>1, <2>2, EnterMoves DEF LocalMove, AtTop, TypeOK
<1>2. CASE StartReplicate(p)
  <2>1. EnterStage(p) /\ mpi_ok' = (IF TakesPart(p) THEN mpi_ok ELSE mpi_ok \union {p})
    BY <1>2 DEF StartReplicate
  <2>2. /\ aborted = 0 /\ p \in Live /\ ~AtTop(p) /\ pc[p] = "call"
        /\ UNCHANGED <<dead, world, prevWorld, last_group_failed, aborted, stage, seen,
                       total_trails>>
    BY <1>2 DEF StartReplicate, Running, AtTop, ulfmVars
  <2> QED BY <2>1, <2>2, EnterMoves DEF LocalMove, TypeOK
<1>3. CASE OpSucceeds(p)
  <2>1. GoAgree(p, TRUE)
    BY <1>3, Zenon DEF OpSucceeds
  <2>2. /\ aborted = 0 /\ p \in Live /\ ~AtTop(p) /\ pc[p] = "comm"
        /\ mpi_ok' = mpi_ok \union {p}
        /\ UNCHANGED <<dead, world, prevWorld, last_group_failed, aborted, stage, seen,
                       total_trails>>
    BY <1>3 DEF OpSucceeds, Running, AtTop, ulfmVars
  <2>3. /\ \A q \in Proc \ {p} : /\ pc'[q] = pc[q] /\ entered'[q] = entered[q]
                                 /\ q \in flagged' <=> q \in flagged
        /\ pc'[p] = "agree" /\ p \in flagged'
    BY <2>1, GoAgreeMoves
  <2> QED BY <2>2, <2>3 DEF LocalMove
<1>4. CASE OpFails(p)
  <2>1. GoAgree(p, FALSE)
    BY <1>4, Zenon DEF OpFails
  <2>2. /\ aborted = 0 /\ p \in Live /\ ~AtTop(p) /\ pc[p] = "comm"
        /\ mpi_ok' = mpi_ok \ {p}
        /\ UNCHANGED <<dead, world, prevWorld, last_group_failed, aborted, stage,
                       total_trails>>
    BY <1>4 DEF OpFails, Running, AtTop, ulfmVars
  <2>3. PICK R \in SUBSET (Comm(p) \intersect dead) :
           R # {} /\ seen' = [seen EXCEPT ![p] = @ \union R]
    BY <1>4 DEF OpFails
  <2>4. R \subseteq dead \intersect world
    BY CommInWorld
  <2>5. /\ seen'[p] = seen[p] \union R
        /\ \A q \in Proc \ {p} : seen'[q] = seen[q]
    BY <2>3 DEF TypeOK
  <2> QED BY <2>1, <2>2, <2>3, <2>4, <2>5, GoAgreeMoves DEF LocalMove
<1> QED BY <1>1, <1>2, <1>3, <1>4

-----------------------------------------------------------------------------
(* The error handler.                                                      *)

\* The live processes are in the handler as soon as a member of the world
\* is, dead or not; who takes part in the agreement is in it or in the
\* handler; a process learns only of failures of others, in the world; and
\* one that shrinks has acknowledged something and everything it has seen.
HandlerInv ==
  /\ \A p \in Live, q \in world : InHandler(q) => InHandler(p)
  /\ \A q \in Proc : "agree" \in entered[q] => pc[q] \in {"agree", "ack", "shrink"}
  /\ \A q \in world : seen[q] \subseteq (dead \intersect world) \ {q}
  /\ \A q \in Proc : pc[q] = "shrink" => seen[q] = {} /\ last_group_failed[q] # {}

\* The processes that a shrink removes: every failure acknowledged, and every
\* dead process that had not reached the shrink.
LEMMA ShrinkRemoves ==
  ASSUME TypeOK, WorldInv, HandlerInv, NEW F \in ShrinkChoices,
         Live # {}, \A p \in Live : pc[p] = "shrink"
  PROVE  /\ F # {} /\ F \subseteq dead \intersect world
         /\ \A p \in Live : last_group_failed[p] \subseteq F /\ last_group_failed[p] # {}
         /\ \A q \in world \ F : pc[q] = "shrink"
<1>1. /\ F \subseteq dead \intersect world
      /\ \A p \in Live : last_group_failed[p] \subseteq F
      /\ \A q \in (dead \intersect world) \ F : pc[q] = "shrink"
  BY DEF ShrinkChoices
<1>2. \A p \in Live : last_group_failed[p] # {}
  BY DEF HandlerInv, Live
<1>3. \A q \in world \ F : pc[q] = "shrink"
  BY <1>1 DEF Live, TypeOK
<1> QED BY <1>1, <1>2, <1>3

LEMMA HandlerStep ==
  ASSUME Op.comm # "world", TypeOK, WorldInv, HandlerInv, [Next]_vars
  PROVE  HandlerInv'
<1> USE DEF InHandler
<1>1. ASSUME NEW p \in Proc, LocalMove(p) PROVE HandlerInv'
  <2>1. p \in Live /\ pc[p] \in {"call", "comm"} /\ pc'[p] \in {"comm", "agree"}
    BY <1>1 DEF LocalMove
  <2>2. \A q \in Live, r \in world : pc'[r] \notin {"ack", "shrink"}
    <3>1. \A r \in world : pc[r] \notin {"ack", "shrink"}
      BY <2>1 DEF HandlerInv
    <3> QED BY <1>1, <2>1, <3>1 DEF LocalMove, TypeOK
  <2>3. \A q \in Proc : "agree" \in entered'[q] => pc'[q] \in {"agree", "ack", "shrink"}
    <3>1. "agree" \notin entered[p] /\ stage[p] # "agree"
      BY <2>1 DEF HandlerInv, TypeOK
    <3> QED BY <1>1, <3>1 DEF LocalMove, HandlerInv
  <2>4. \A q \in world : seen'[q] \subseteq (dead \intersect world) \ {q}
    BY <1>1, <2>1 DEF LocalMove, HandlerInv, Live, TypeOK
  <2>5. \A q \in Proc : pc'[q] = "shrink" => seen'[q] = {} /\ last_group_failed'[q] # {}
    BY <1>1, <2>1 DEF LocalMove, HandlerInv
  <2>6. UNCHANGED <<dead, world>>
    BY <1>1 DEF LocalMove
  <2> QED BY <2>2, <2>3, <2>4, <2>5, <2>6 DEF HandlerInv, Live
<1>2. ASSUME NEW p \in Proc, AbortTrials(p) PROVE HandlerInv'
  BY <1>2 DEF AbortTrials, HandlerInv, Live
<1>3. ASSUME NEW p \in Proc, AckFailures(p) PROVE HandlerInv'
  <2>1. PICK S \in SUBSET (dead \intersect world) :
           S # {} /\ last_group_failed' = [last_group_failed EXCEPT ![p] = S]
    BY <1>3 DEF AckFailures
  <2>2. /\ p \in Live /\ pc[p] = "ack"
        /\ pc' = [pc EXCEPT ![p] = "shrink"]
        /\ seen' = [seen EXCEPT ![p] = {}]
        /\ UNCHANGED <<dead, world, entered>>
    BY <1>3 DEF AckFailures, Running
  <2>3. \A q \in Proc : pc'[q] = (IF q = p THEN "shrink" ELSE pc[q])
    BY <2>2 DEF TypeOK
  <2>4. \A q \in Proc : seen'[q] = (IF q = p THEN {} ELSE seen[q])
    BY <2>2 DEF TypeOK
  <2>5. \A q \in Proc :
           last_group_failed'[q] = (IF q = p THEN S ELSE last_group_failed[q])
    BY <2>1 DEF TypeOK
  <2>6. \A q \in Live : InHandler(q) \/ q = p
    BY <2>2 DEF HandlerInv, WorldInv
  <2> QED BY <2>1, <2>2, <2>3, <2>4, <2>5, <2>6 DEF HandlerInv, Live, TypeOK
<1>4. ASSUME NEW p \in Proc, Crash(p) PROVE HandlerInv'
  <2>1. dead' = dead \union {p} /\ UNCHANGED <<world, pc, entered, seen, last_group_failed>>
    BY <1>4 DEF Crash
  <2> QED BY <2>1 DEF HandlerInv, Live
<1>5. CASE AgreeSucceeds
  <2>1. /\ \A p \in Live : pc[p] = "agree"
        /\ \A p \in Proc : p \notin Live => pc'[p] = pc[p]
        /\ \A p \in Live : pc'[p] \in {"done", "call"}
        /\ \A p \in Proc : entered'[p] = {}
        /\ Live # {}
        /\ UNCHANGED <<dead, world, seen, last_group_failed>>
    BY <1>5 DEF AgreeSucceeds, AllAgreeing, ulfmVars, Live
  <2>2. \A q \in world : pc'[q] \notin {"ack", "shrink"}
    BY <2>1 DEF HandlerInv, TypeOK
  <2>3. \A q \in Proc : pc'[q] = "shrink" => pc[q] = "shrink"
    BY <2>1
  <2> QED BY <2>1, <2>2, <2>3 DEF HandlerInv, Live
<1>6. CASE AgreeFails
  <2>1. PICK R \in SUBSET (dead \intersect world) :
           seen' = [p \in Proc |-> IF p \in Live THEN seen[p] \union R ELSE seen[p]]
    BY <1>6 DEF AgreeFails
  <2>2. /\ \A p \in Live : pc[p] = "agree"
        /\ pc' = [p \in Proc |-> IF p \in Live THEN "ack" ELSE pc[p]]
        /\ UNCHANGED <<dead, world, entered, last_group_failed>>
    BY <1>6 DEF AgreeFails, AllAgreeing, ulfmVars
  <2>3. \A p \in Proc : /\ pc'[p] = (IF p \in Live THEN "ack" ELSE pc[p])
                        /\ seen'[p] = (IF p \in Live THEN seen[p] \union R ELSE seen[p])
    BY <2>1, <2>2
  <2> HIDE DEF Live
  <2>4. \A p \in Live : p \notin dead /\ p \in Proc
    BY DEF Live
  <2>5. Live' = Live
    BY <2>2 DEF Live
  <2>6. ASSUME NEW q \in world PROVE seen'[q] \subseteq (dead \intersect world) \ {q}
    <3>1. q \in Proc /\ seen[q] \subseteq (dead \intersect world) \ {q}
      BY DEF HandlerInv, TypeOK
    <3>2. q \in Live => R \subseteq (dead \intersect world) \ {q}
      BY <2>4
    <3> QED BY <2>3, <3>1, <3>2
  <2> QED BY <2>2, <2>3, <2>4, <2>5, <2>6 DEF HandlerInv
<1>7. CASE Shrink
  <2>1. /\ UNCHANGED <<dead, seen, last_group_failed>>
        /\ Live # {} /\ \A p \in Live : pc[p] = "shrink"
    BY <1>7 DEF Shrink
  <2>2. CASE ShrinkAborts
    BY <2>1, <2>2 DEF ShrinkAborts, HandlerInv, Live
  <2>3. ASSUME NEW F \in ShrinkChoices, ShrinksTo(world \ F)
        PROVE  HandlerInv'
    <3>1. /\ F # {} /\ F \subseteq dead \intersect world
          /\ \A q \in world \ F : pc[q] = "shrink"
      BY <2>1, ShrinkRemoves
    <3>2. /\ world' = world \ F
          /\ \A p \in Proc : pc'[p] = (IF p \in world \ F THEN "agree" ELSE pc[p])
          /\ \A p \in Proc : "agree" \in entered'[p] => p \in Live
      BY <2>3 DEF ShrinksTo
    <3>3. \A q \in world' : seen'[q] = {}
      BY <2>1, <3>1, <3>2 DEF HandlerInv, TypeOK
    <3>4. \A p \in Live : p \in world'
      BY <3>1, <3>2 DEF WorldInv, Live
    <3>5. Live' = Live
      BY <2>1 DEF Live
    <3> QED BY <2>1, <3>2, <3>3, <3>4, <3>5 DEF HandlerInv, TypeOK
  <2> QED BY <1>7, <2>2, <2>3, ShrinkCases
<1>8. CASE Finished \/ UNCHANGED vars
  BY <1>8 DEF Finished, vars, HandlerInv, Live
<1> QED BY <1>1, <1>2, <1>3, <1>4, <1>5, <1>6, <1>7, <1>8, LocalMoves DEF Next

-----------------------------------------------------------------------------
(* What a process knows when it repeats the inner broadcast or more.       *)

\* Once the world has been shrunk, every process outside of the handler has
\* acknowledged a failure that the previous world contained.  Before that, a
\* process whose mpi_status or flag tells of a failed operation has seen the
\* failure and not acknowledged it yet.
GroupInv ==
  /\ world # Proc => \A p \in Live : ~InHandler(p) => last_group_failed[p] \intersect prevWorld # {}
  /\ world = Proc => \A q \in Proc : ~InHandler(q) =>
        /\ q \notin mpi_ok => seen[q] # {}
        /\ "agree" \in entered[q] /\ q \notin flagged => seen[q] # {}

\* A flag that is agreed not to be set although the world is complete was
\* left behind by a process that died after it had seen the failure of
\* another.
LEMMA TwoDead ==
  ASSUME TypeOK, HandlerInv, AgreeSucceeds, NEW x \in world, seen[x] # {}
  PROVE  /\ x \in dead
         /\ \E y \in dead \intersect world : y # x
BY DEF HandlerInv, AgreeSucceeds, Live, TypeOK

LEMMA AgreeingOutside ==
  ASSUME TypeOK, HandlerInv, AgreeSucceeds, NEW x \in world
  PROVE  "agree" \in entered[x] /\ ~InHandler(x)
BY DEF HandlerInv, AgreeSucceeds, AllAgreeing, InHandler, Live, TypeOK

LEMMA GroupStep ==
  ASSUME MaxCrash <= 1, Op.comm # "world", TypeOK, WorldInv, LockStepInv,
         HandlerInv, GroupInv, [Next]_vars
  PROVE  GroupInv'
<1> USE DEF InHandler
<1>1. ASSUME NEW p \in Proc, LocalMove(p) PROVE GroupInv'
  <2>1. p \in Live /\ pc[p] \in {"call", "comm"} /\ pc'[p] \in {"comm", "agree"}
    BY <1>1 DEF LocalMove
  <2>2. UNCHANGED <<dead, world, prevWorld, last_group_failed>>
    BY <1>1 DEF LocalMove
  <2>3. \A q \in Proc : pc'[q] \in {"ack", "shrink"} <=> pc[q] \in {"ack", "shrink"}
    BY <1>1, <2>1 DEF LocalMove
  <2>4. ASSUME world = Proc
        PROVE  /\ p \notin mpi_ok' => seen'[p] # {}
               /\ "agree" \in entered'[p] /\ p \notin flagged' => seen'[p] # {}
    <3>1. p \notin mpi_ok => seen[p] # {}
      BY <2>1, <2>4 DEF GroupInv
    <3>2. p \notin mpi_ok' => seen'[p] # {}
      BY <1>1, <3>1 DEF LocalMove
    <3>3. "agree" \notin entered[p] /\ stage[p] # "agree"
      BY <2>1 DEF HandlerInv, TypeOK
    <3> QED BY <1>1, <3>2, <3>3 DEF LocalMove
  <2>5. ASSUME world = Proc, NEW q \in Proc, pc'[q] \notin {"ack", "shrink"}
        PROVE  /\ q \notin mpi_ok' => seen'[q] # {}
               /\ "agree" \in entered'[q] /\ q \notin flagged' => seen'[q] # {}
    <3>1. CASE q = p
      BY <2>4, <2>5, <3>1
    <3>2. CASE q # p
      BY <1>1, <2>3, <2>5, <3>2 DEF LocalMove, GroupInv
    <3> QED BY <3>1, <3>2
  <2>6. Live' = Live /\ Live \subseteq Proc
    BY <2>2 DEF Live
  <2> QED BY <2>2, <2>3, <2>5, <2>6 DEF GroupInv
<1>2. ASSUME NEW p \in Proc, AbortTrials(p) PROVE GroupInv'
  BY <1>2 DEF AbortTrials, GroupInv, Live
<1>3. ASSUME NEW p \in Proc, AckFailures(p) PROVE GroupInv'
  <2>1. /\ p \in Live /\ pc[p] = "ack"
        /\ pc' = [pc EXCEPT ![p] = "shrink"]
        /\ seen' = [seen EXCEPT ![p] = {}]
        /\ UNCHANGED <<dead, world, prevWorld, entered, mpi_ok, flagged>>
        /\ \E S : last_group_failed' = [last_group_failed EXCEPT ![p] = S]
    BY <1>3 DEF AckFailures, Running
  <2>2. \A q \in Proc : q # p => /\ pc'[q] = pc[q] /\ seen'[q] = seen[q]
                                 /\ last_group_failed'[q] = last_group_failed[q]
    BY <2>1 DEF TypeOK
  <2>3. pc'[p] = "shrink"
    BY <2>1 DEF TypeOK
  <2> QED BY <2>1, <2>2, <2>3 DEF GroupInv, Live
<1>4. ASSUME NEW p \in Proc, Crash(p) PROVE GroupInv'
  BY <1>4 DEF Crash, GroupInv, Live
<1>5. CASE AgreeSucceeds
  <2>1. /\ \A p \in Live : pc[p] = "agree"
        /\ \A p \in Proc : p \notin Live => pc'[p] = pc[p]
        /\ \A p \in Proc : entered'[p] = {}
        /\ UNCHANGED <<dead, world, prevWorld, mpi_ok, seen, last_group_failed>>
    BY <1>5 DEF AgreeSucceeds, AllAgreeing, ulfmVars, Live
  <2>2. \A p \in Live : pc[p] \notin {"ack", "shrink"} /\ p \in Proc
    BY <2>1 DEF Live
  <2>3. \A q \in Proc : pc'[q] \notin {"ack", "shrink"} => pc[q] \notin {"ack", "shrink"}
    BY <2>1, <2>2
  <2> QED BY <2>1, <2>2, <2>3 DEF GroupInv, Live
<1>6. CASE AgreeFails
  <2>1. /\ pc' = [p \in Proc |-> IF p \in Live THEN "ack" ELSE pc[p]]
        /\ \A p \in Proc \ Live : seen'[p] = seen[p]
        /\ \A p \in Proc \ Live : p \in flagged' <=> p \in flagged
        /\ UNCHANGED <<dead, world, prevWorld, mpi_ok, entered, last_group_failed>>
    BY <1>6 DEF AgreeFails, ulfmVars
  <2>2. \A p \in Proc : pc'[p] = (IF p \in Live THEN "ack" ELSE pc[p])
    BY <2>1
  <2>3. Live' = Live /\ Live \subseteq Proc
    BY <2>1 DEF Live
  <2> QED BY <2>1, <2>2, <2>3 DEF GroupInv
<1>7. CASE Shrink
  <2>1. /\ UNCHANGED <<dead, seen, last_group_failed, mpi_ok>>
        /\ Live # {} /\ \A p \in Live : pc[p] = "shrink"
    BY <1>7 DEF Shrink
  <2>2. CASE ShrinkAborts
    BY <2>1, <2>2 DEF ShrinkAborts, GroupInv, Live
  <2>3. ASSUME NEW F \in ShrinkChoices, ShrinksTo(world \ F)
        PROVE  GroupInv'
    <3>1. /\ F # {} /\ F \subseteq dead \intersect world
          /\ \A p \in Live : last_group_failed[p] \subseteq F /\ last_group_failed[p] # {}
      BY <2>1, ShrinkRemoves
    <3>2. world' = world \ F /\ prevWorld' = world
      BY <2>3 DEF ShrinksTo
    <3>3. world' # Proc
      BY <3>1, <3>2 DEF TypeOK
    <3>4. \A p \in Live' : last_group_failed'[p] \intersect prevWorld' # {}
      BY <2>1, <3>1, <3>2 DEF Live
    <3> QED BY <3>3, <3>4 DEF GroupInv
  <2> QED BY <1>7, <2>2, <2>3, ShrinkCases
<1>8. CASE Finished \/ UNCHANGED vars
  BY <1>8 DEF Finished, vars, GroupInv, Live
<1> QED BY <1>1, <1>2, <1>3, <1>4, <1>5, <1>6, <1>7, <1>8, LocalMoves DEF Next

\* With at most one crash, whenever a process repeats the inner broadcast or
\* the main operation, is_failed_node_world_job_comm_root is given groups
\* that have been set: a failure of the previous world has been acknowledged.
THEOREM FailureGroupRecordedHolds ==
  ASSUME MaxCrash <= 1, Op.comm # "world"
  PROVE  Spec => FailureGroupRecorded
<1> DEFINE Inv == TypeOK /\ WorldInv /\ LockStepInv /\ HandlerInv /\ GroupInv
           Told == \A p \in Live :
                      stage[p] = "replicate" /\ pc[p] = "agree" /\ pc'[p] = "call"
                        => last_group_failed[p] \intersect prevWorld # {}
<1>1. Init => Inv
  <2> SUFFICES ASSUME Init PROVE Inv
    OBVIOUS
  <2>1. TypeOK
    BY CollectiveAssumption DEF Init, Workers, TypeOK
  <2>2. WorldInv
    BY CollectiveAssumption DEF Init, WorldInv, Live
  <2>3. LockStepInv
    BY DEF Init, LockStepInv, LockStep, InHandler, Live
  <2>4. HandlerInv
    BY DEF Init, HandlerInv, InHandler, Live
  <2>5. GroupInv
    BY DEF Init, GroupInv
  <2> QED BY <2>1, <2>2, <2>3, <2>4, <2>5
<1>2. Inv /\ [Next]_vars => Inv'
  BY TypeStep, WorldStep, LockStepStep, HandlerStep, GroupStep
<1>3. Inv /\ [Next]_vars => [Told]_vars
  <2> SUFFICES ASSUME Inv, Next, NEW p \in Live,
                      stage[p] = "replicate", pc[p] = "agree", pc'[p] = "call"
               PROVE  last_group_failed[p] \intersect prevWorld # {}
    OBVIOUS
  <2>0. p \in Proc
    BY DEF Live
  <2>1. \A q \in Proc : ~LocalMove(q)
    BY <2>0 DEF LocalMove
  <2>2. \A q \in Proc : ~AckFailures(q) /\ ~AbortTrials(q) /\ ~Crash(q)
    BY <2>0 DEF AckFailures, AbortTrials, Crash, TypeOK
  <2>3. ~AgreeFails /\ ~Shrink /\ ~Finished
    BY <2>0 DEF AgreeFails, Shrink, Finished, vars
  <2>4. AgreeSucceeds
    BY <2>1, <2>2, <2>3, LocalMoves DEF Next
  <2>5. CASE world # Proc
    BY <2>5 DEF GroupInv, InHandler
  <2>6. CASE world = Proc
    <3>1. PICK x \in world : x \notin flagged
      BY <2>0, <2>4 DEF AgreeSucceeds, Returns
    <3>2. seen[x] # {}
      BY <2>4, <2>6, <3>1, AgreeingOutside DEF GroupInv
    <3> QED BY <2>4, <3>2, TwoDead DEF LockStepInv
  <2> QED BY <2>5, <2>6
<1> HIDE DEF Inv
<1> QED BY <1>1, <1>2, <1>3, PTL DEF Spec, FailureGroupRecorded

-----------------------------------------------------------------------------
(* Attempts and failures in MPI_Scatter.                                   *)

\* The processes that the shrinks have removed.
Removed == Cardinality(Proc \ world)

\* Nobody takes part in the agreement with a flag that is not set, except
\* for a failure that it has seen and not acknowledged yet.
Clean ==
  \A q \in world :
      "agree" \in entered[q] /\ ~InHandler(q) /\ q \notin flagged => seen[q] # {}

\* Two members of the world died and will not take part in the agreement or
\* in a shrink: the next shrink removes both.
Doomed ==
  \E d, e \in dead \intersect world :
      /\ d # e
      /\ "agree" \notin entered[d] /\ pc[d] # "shrink"
      /\ "agree" \notin entered[e] /\ pc[e] # "shrink"

\* After a shrink, all attempts made so far are paid for by removed processes.
Settled ==
  \A p \in Live : /\ pc[p] \in {"agree", "ack", "shrink"}
                  /\ total_trails[p] <= Removed

\* All attempts but the current one are paid for by removed processes; one
\* more may be owed to two dead processes that have not been removed yet.
Paid(p) ==
  total_trails[p] + (IF AtTop(p) THEN 1 ELSE 0)
      <= Removed + (IF Doomed THEN 2 ELSE 1)

RetryInv ==
  /\ aborted = 0 => (\A p \in Live : Paid(p)) /\ (Clean \/ Settled)
  /\ aborted # 0 => RetriesPaidByFailures
  /\ aborted = 10 => NO_TRIALS <= 1 + Cardinality(dead)

LEMMA Counts ==
  ASSUME TypeOK, WorldInv
  PROVE  /\ Removed \in Nat /\ Cardinality(dead) \in Nat
         /\ Removed <= Cardinality(dead)
         /\ Doomed => Removed + 2 <= Cardinality(dead)
<1>1. /\ IsFiniteSet(dead) /\ IsFiniteSet(Proc \ world)
      /\ Proc \ world \subseteq dead
  BY ProcAssumption, FS_Subset DEF TypeOK, WorldInv, Live
<1>2. Removed \in Nat /\ Cardinality(dead) \in Nat /\ Removed <= Cardinality(dead)
  BY <1>1, FS_CardinalityType, FS_Subset DEF Removed
<1>3. ASSUME Doomed PROVE Removed + 2 <= Cardinality(dead)
  <2>1. PICK d \in dead \intersect world, e \in dead \intersect world : d # e
    BY <1>3 DEF Doomed
  <2> DEFINE A == (Proc \ world) \union {d}
             B == A \union {e}
  <2>2. IsFiniteSet(A) /\ Cardinality(A) = Removed + 1
    BY <1>1, FS_AddElement DEF Removed
  <2>3. IsFiniteSet(B) /\ Cardinality(B) = Cardinality(A) + 1
    <3>1. e \notin A
      BY <2>1
    <3> HIDE DEF A
    <3> QED BY <2>2, <3>1, FS_AddElement
  <2>4. B \subseteq dead
    BY <1>1
  <2> HIDE DEF A, B
  <2>5. Cardinality(B) <= Cardinality(dead)
    BY <1>1, <2>4, FS_Subset
  <2> QED BY <1>2, <2>2, <2>3, <2>5
<1> QED BY <1>2, <1>3

\* The processes that a shrink removes pay for what is owed.
LEMMA ShrinkPays ==
  ASSUME TypeOK, NEW F \in SUBSET world, F # {}
  PROVE  /\ Cardinality(Proc \ (world \ F)) >= Removed + 1
         /\ (\E d, e \in F : d # e) => Cardinality(Proc \ (world \ F)) >= Removed + 2
<1> DEFINE N == Proc \ (world \ F)
           O == Proc \ world
<1>1. IsFiniteSet(N) /\ IsFiniteSet(O) /\ O \subseteq N /\ F \subseteq N /\ F \intersect O = {}
  BY ProcAssumption, FS_Subset DEF TypeOK
<1>2. Removed = Cardinality(O)
  BY DEF Removed
<1> HIDE DEF N, O
<1>3. Cardinality(N) \in Nat /\ Cardinality(O) \in Nat
  BY <1>1, FS_CardinalityType
<1>4. ASSUME NEW d \in F
      PROVE  /\ IsFiniteSet(O \union {d}) /\ O \union {d} \subseteq N
             /\ Cardinality(O \union {d}) = Cardinality(O) + 1
  BY <1>1, FS_AddElement
<1>5. Cardinality(N) >= Cardinality(O) + 1
  <2>1. PICK d \in F : TRUE
    OBVIOUS
  <2>2. Cardinality(O \union {d}) <= Cardinality(N)
    BY <1>1, <1>4, FS_Subset
  <2> QED BY <1>3, <1>4, <2>2
<1>6. ASSUME NEW d \in F, NEW e \in F, d # e
      PROVE  Cardinality(N) >= Cardinality(O) + 2
  <2> DEFINE A == O \union {d}
  <2>1. /\ IsFiniteSet(A) /\ A \subseteq N
        /\ Cardinality(A) = Cardinality(O) + 1 /\ e \notin A
    BY <1>1, <1>4, <1>6
  <2> HIDE DEF A
  <2>2. /\ IsFiniteSet(A \union {e}) /\ A \union {e} \subseteq N
        /\ Cardinality(A \union {e}) = Cardinality(A) + 1
    BY <1>1, <2>1, FS_AddElement
  <2>3. Cardinality(A \union {e}) <= Cardinality(N)
    BY <1>1, <2>2, FS_Subset
  <2> QED BY <1>3, <2>1, <2>2, <2>3
<1> QED BY <1>2, <1>5, <1>6 DEF N

\* While the call runs, the number of attempts is bounded by the failures.
LEMMA PaidBound ==
  ASSUME TypeOK, WorldInv, NEW p \in Proc, Paid(p)
  PROVE  /\ total_trails[p] <= 1 + Cardinality(dead)
         /\ AtTop(p) => total_trails[p] + 1 <= 1 + Cardinality(dead)
<1>1. total_trails[p] \in Nat
  BY DEF TypeOK
<1> QED BY <1>1, Counts DEF Paid

LEMMA RetryStep ==
  ASSUME Op = MPI_Scatter, TypeOK, WorldInv, HandlerInv, RetryInv, [Next]_vars
  PROVE  RetryInv'
<1> USE DEF InHandler
<1>0. Op.comm # "world" /\ Op.status = "reset" /\ Op.replicate = "everyJob"
  BY DEF MPI_Scatter
<1>1. ASSUME NEW p \in Proc, LocalMove(p) PROVE RetryInv'
  <2>1. /\ p \in Live /\ pc[p] \in {"call", "comm"} /\ pc'[p] \in {"comm", "agree"}
        /\ UNCHANGED <<dead, world, stage>> /\ aborted = 0 /\ aborted' = 0
    BY <1>1 DEF LocalMove
  <2>2. (\A q \in Live : Paid(q)) /\ Clean
    BY <2>1 DEF RetryInv, Settled
  <2>3. Doomed => Doomed'
    BY <1>1, <2>1 DEF LocalMove, Doomed, Live, TypeOK
  <2>4. Removed' = Removed /\ Removed \in Nat
    BY <2>1, Counts DEF Removed
  <2>5. ASSUME NEW q \in Live PROVE Paid(q)'
    <3>1. q \in Proc /\ total_trails[q] \in Nat
      BY DEF Live, TypeOK
    <3>2. total_trails'[q] + (IF AtTop(q)' THEN 1 ELSE 0)
             = total_trails[q] + (IF AtTop(q) THEN 1 ELSE 0)
      BY <1>1, <2>1, <3>1 DEF LocalMove, AtTop
    <3> QED BY <2>2, <2>3, <2>4, <3>1, <3>2 DEF Paid
  <2>6. Clean'
    <3>1. "agree" \notin entered[p] /\ stage[p] # "agree"
      BY <2>1 DEF HandlerInv, TypeOK
    <3>2. "agree" \in entered'[p] /\ p \notin flagged' => seen'[p] # {}
      BY <1>0, <1>1, <3>1 DEF LocalMove
    <3> QED BY <1>1, <2>1, <2>2, <3>2 DEF LocalMove, Clean, TypeOK
  <2>7. Live' = Live
    BY <2>1 DEF Live
  <2> QED BY <2>1, <2>5, <2>6, <2>7 DEF RetryInv
<1>2. ASSUME NEW p \in Proc, AbortTrials(p) PROVE RetryInv'
  <2>1. /\ p \in Live /\ AtTop(p) /\ aborted = 0 /\ aborted' = 10
        /\ total_trails[p] + 1 >= NO_TRIALS
        /\ total_trails' = [total_trails EXCEPT ![p] = @ + 1]
        /\ UNCHANGED dead
    BY <1>2 DEF AbortTrials, Running, AtTop
  <2>2. Cardinality(dead) \in Nat /\ NO_TRIALS \in Nat
    BY Counts, CollectiveAssumption
  <2>3. ASSUME NEW q \in Live
        PROVE  /\ q \in Proc /\ total_trails[q] \in Nat
               /\ total_trails[q] <= 1 + Cardinality(dead)
               /\ AtTop(q) => total_trails[q] + 1 <= 1 + Cardinality(dead)
    <3>1. q \in Proc /\ total_trails[q] \in Nat
      BY DEF Live, TypeOK
    <3>2. Paid(q)
      BY <2>1 DEF RetryInv
    <3> QED BY <3>1, <3>2, PaidBound
  <2>4. \A q \in Live : total_trails'[q] <= 1 + Cardinality(dead)
    BY <2>1, <2>3 DEF TypeOK
  <2>5. NO_TRIALS <= 1 + Cardinality(dead)
    BY <2>1, <2>2, <2>3
  <2> QED BY <2>1, <2>4, <2>5 DEF RetryInv, RetriesPaidByFailures, Live
<1>3. ASSUME NEW p \in Proc, AckFailures(p) PROVE RetryInv'
  <2>1. /\ p \in Live /\ pc[p] = "ack" /\ aborted = 0
        /\ pc' = [pc EXCEPT ![p] = "shrink"]
        /\ seen' = [seen EXCEPT ![p] = {}]
        /\ UNCHANGED <<dead, world, aborted, stage, total_trails, flagged, entered>>
    BY <1>3 DEF AckFailures, Running
  <2>2. \A q \in Proc : /\ pc'[q] = (IF q = p THEN "shrink" ELSE pc[q])
                        /\ seen'[q] = (IF q = p THEN {} ELSE seen[q])
    BY <2>1 DEF TypeOK
  <2>3. Live' = Live /\ Live \subseteq Proc /\ Removed' = Removed
    BY <2>1 DEF Live, Removed
  <2>4. Doomed => Doomed'
    BY <2>1, <2>2 DEF Doomed, Live, TypeOK
  <2>5. ASSUME NEW q \in Live PROVE Paid(q)'
    <3>1. q \in Proc /\ total_trails[q] \in Nat /\ Removed \in Nat
      BY Counts DEF Live, TypeOK
    <3>2. AtTop(q)' <=> AtTop(q)
      BY <2>1, <2>2, <3>1 DEF AtTop
    <3> QED BY <2>1, <2>3, <2>4, <3>1, <3>2 DEF RetryInv, Paid
  <2>6. Clean => Clean'
    BY <2>1, <2>2 DEF Clean, TypeOK
  <2>7. Settled => Settled'
    BY <2>1, <2>2, <2>3 DEF Settled
  <2> QED BY <2>1, <2>3, <2>5, <2>6, <2>7 DEF RetryInv
<1>4. ASSUME NEW p \in Proc, Crash(p) PROVE RetryInv'
  <2>1. /\ dead' = dead \union {p} /\ aborted = 0
        /\ UNCHANGED <<world, aborted, stage, pc, total_trails, flagged, entered, seen>>
    BY <1>4 DEF Crash, Running
  <2>2. Live' \subseteq Live /\ Live \subseteq Proc /\ Removed' = Removed
    BY <2>1 DEF Live, Removed
  <2>3. Doomed => Doomed'
    BY <2>1 DEF Doomed
  <2>4. ASSUME NEW q \in Live PROVE Paid(q)'
    <3>1. q \in Proc /\ total_trails[q] \in Nat /\ Removed \in Nat
      BY Counts DEF Live, TypeOK
    <3> QED BY <2>1, <2>2, <2>3, <3>1 DEF RetryInv, Paid, AtTop
  <2>5. (Clean => Clean') /\ (Settled => Settled')
    BY <2>1, <2>2 DEF Clean, Settled
  <2> QED BY <2>1, <2>2, <2>4, <2>5 DEF RetryInv
<1>5. CASE AgreeSucceeds
  <2> DEFINE f == world \subseteq flagged
  <2>1. /\ \A p \in Live : pc[p] = "agree"
        /\ \A p \in Proc : p \notin Live => pc'[p] = pc[p]
        /\ \A p \in Live : stage'[p] = NextStage(p, f)
        /\ \A p \in Proc : entered'[p] = {}
        /\ UNCHANGED <<dead, world, aborted, total_trails>> /\ aborted = 0
        /\ Live \subseteq Proc
    BY <1>5 DEF AgreeSucceeds, AllAgreeing, ulfmVars, Live
  <2>2. Clean'
    BY <2>1 DEF Clean, TypeOK
  <2>3. Live' = Live /\ Removed' = Removed /\ Removed \in Nat
    BY <2>1, Counts DEF Live, Removed
  <2>4. ~Doomed
    BY <1>5 DEF Doomed, AgreeSucceeds
  <2>5. ASSUME NEW p \in Live
        PROVE  /\ total_trails[p] \in Nat /\ total_trails[p] <= Removed + 1
               /\ Settled => total_trails[p] <= Removed
    <3>1. Paid(p) /\ ~AtTop(p)
      BY <2>1 DEF RetryInv, AtTop
    <3> QED BY <2>1, <2>3, <2>4, <3>1 DEF Paid, TypeOK, Settled
  <2>6. CASE f
    <3>1. \A p \in Live : ~AtTop(p)'
      <4>1. \A p \in Live : stage[p] = "main" => stage'[p] = "replicate"
        BY <1>0, <2>1, <2>6 DEF NextStage
      <4>2. \A p \in Live : stage[p] = "replicate" => stage'[p] = "replicate"
        BY <1>0, <2>1, <2>6 DEF NextStage
      <4> QED BY <2>1, <4>1, <4>2 DEF AtTop, TypeOK
    <3>2. \A p \in Live : Paid(p)'
      BY <2>1, <2>3, <2>5, <3>1 DEF Paid
    <3> QED BY <2>1, <2>2, <2>3, <3>2 DEF RetryInv
  <2>7. CASE ~f /\ Settled
    <3>1. \A p \in Live : Paid(p)'
      BY <2>1, <2>3, <2>5, <2>7 DEF Paid
    <3> QED BY <2>1, <2>2, <2>3, <3>1 DEF RetryInv
  <2>8. CASE ~f /\ Clean
    <3>1. PICK x \in world : x \notin flagged
      BY <2>8
    <3>2. x \in dead /\ \E y \in dead \intersect world : y # x
      BY <1>5, <2>8, <3>1, AgreeingOutside, TwoDead DEF Clean
    <3>3. PICK y \in dead \intersect world : y # x
      BY <3>2
    <3>4. pc[x] # "shrink" /\ pc[y] # "shrink"
      BY <1>5, <3>3, AgreeingOutside
    <3>5. x \in Proc \ Live /\ y \in Proc \ Live
      BY <3>2, <3>3 DEF Live, TypeOK
    <3>6. Doomed'
      BY <2>1, <3>2, <3>3, <3>4, <3>5 DEF Doomed
    <3>7. \A p \in Live : Paid(p)'
      BY <2>1, <2>3, <2>5, <3>6 DEF Paid
    <3> QED BY <2>1, <2>2, <2>3, <3>7 DEF RetryInv
  <2> HIDE DEF f
  <2> QED BY <2>1, <2>6, <2>7, <2>8 DEF RetryInv
<1>6. CASE AgreeFails
  <2>1. /\ pc' = [p \in Proc |-> IF p \in Live THEN "ack" ELSE pc[p]]
        /\ \A p \in Proc \ Live : seen'[p] = seen[p]
        /\ \A p \in Proc \ Live : p \in flagged' <=> p \in flagged
        /\ \A p \in Live : pc[p] = "agree"
        /\ UNCHANGED <<dead, world, entered, stage, total_trails, aborted>> /\ aborted = 0
    BY <1>6 DEF AgreeFails, AllAgreeing, ulfmVars
  <2>2. \A p \in Proc : pc'[p] = (IF p \in Live THEN "ack" ELSE pc[p])
    BY <2>1
  <2>3. Live' = Live /\ Live \subseteq Proc /\ Removed' = Removed
    BY <2>1 DEF Live, Removed
  <2>4. Doomed => Doomed'
    BY <2>1, <2>2 DEF Doomed, Live, TypeOK
  <2>5. ASSUME NEW q \in Live PROVE Paid(q)'
    <3>1. q \in Proc /\ total_trails[q] \in Nat /\ Removed \in Nat
      BY Counts DEF Live, TypeOK
    <3>2. ~AtTop(q)' /\ ~AtTop(q)
      BY <2>1, <2>2, <3>1 DEF AtTop
    <3> QED BY <2>1, <2>3, <2>4, <3>1, <3>2 DEF RetryInv, Paid
  <2>6. Clean => Clean'
    BY <2>1, <2>2, <2>3 DEF Clean, TypeOK
  <2>7. Settled => Settled'
    BY <2>1, <2>2, <2>3 DEF Settled
  <2> QED BY <2>1, <2>3, <2>5, <2>6, <2>7 DEF RetryInv
<1>7. CASE Shrink
  <2>1. /\ UNCHANGED <<dead, total_trails, stage>> /\ aborted = 0
        /\ Live # {} /\ \A p \in Live : pc[p] = "shrink"
    BY <1>7 DEF Shrink
  <2>2. ASSUME NEW p \in Live
        PROVE  /\ p \in Proc /\ total_trails[p] \in Nat /\ ~AtTop(p) /\ Paid(p)
    BY <2>1 DEF Live, TypeOK, RetryInv, AtTop
  <2>3. CASE ShrinkAborts
    <3>1. \A p \in Live : total_trails[p] <= 1 + Cardinality(dead)
      BY <2>2, PaidBound
    <3> QED BY <2>1, <2>3, <3>1 DEF ShrinkAborts, RetryInv, RetriesPaidByFailures, Live
  <2>4. ASSUME NEW F \in ShrinkChoices, ShrinksTo(world \ F)
        PROVE  RetryInv'
    <3>1. /\ F # {} /\ F \subseteq dead \intersect world
          /\ \A q \in world \ F : pc[q] = "shrink"
      BY <2>1, ShrinkRemoves
    <3>2. /\ world' = world \ F /\ aborted' = 0
          /\ \A p \in Proc : pc'[p] = (IF p \in world \ F THEN "agree" ELSE pc[p])
      BY <2>1, <2>4 DEF ShrinksTo
    <3>3. Doomed => \E d, e \in F : d # e
      BY <3>1 DEF Doomed
    <3>4. Removed' >= Removed + (IF Doomed THEN 2 ELSE 1)
      BY <3>1, <3>2, <3>3, ShrinkPays DEF Removed
    <3>5. Removed' \in Nat /\ Removed \in Nat
      <4>1. IsFiniteSet(Proc \ world')
        BY ProcAssumption, FS_Subset
      <4> QED BY <4>1, FS_CardinalityType, Counts DEF Removed
    <3>6. ASSUME NEW p \in Live PROVE total_trails'[p] <= Removed' /\ pc'[p] = "agree"
      <4>1. p \in world \ F
        BY <3>1 DEF Live, WorldInv
      <4>2. total_trails[p] <= Removed + (IF Doomed THEN 2 ELSE 1)
        BY <2>2, <3>5 DEF Paid
      <4> QED BY <2>1, <2>2, <3>2, <3>4, <3>5, <4>1, <4>2
    <3>7. Live' = Live
      BY <2>1 DEF Live
    <3>8. Settled'
      BY <3>6, <3>7 DEF Settled
    <3>9. \A p \in Live : Paid(p)'
      BY <2>1, <2>2, <3>5, <3>6 DEF Paid, AtTop
    <3> QED BY <3>2, <3>7, <3>8, <3>9 DEF RetryInv
  <2> QED BY <1>7, <2>3, <2>4, ShrinkCases
<1>8. CASE Finished \/ UNCHANGED vars
  BY <1>8 DEF Finished, vars, RetryInv, RetriesPaidByFailures, Paid, AtTop, Doomed,
              Removed, Clean, Settled, Live
<1> QED BY <1>0, <1>1, <1>2, <1>3, <1>4, <1>5, <1>6, <1>7, <1>8, LocalMoves DEF Next

\* The inductive invariant of the two theorems below.
ScatterInv == TypeOK /\ WorldInv /\ HandlerInv /\ RetryInv

LEMMA ScatterInvariant ==
  ASSUME Op = MPI_Scatter
  PROVE  Spec => []ScatterInv
<1>1. Init => ScatterInv
  <2> SUFFICES ASSUME Init PROVE ScatterInv
    OBVIOUS
  <2>1. TypeOK
    BY CollectiveAssumption DEF Init, Workers, TypeOK
  <2>2. WorldInv
    BY CollectiveAssumption DEF Init, WorldInv, Live
  <2>3. HandlerInv
    BY DEF Init, HandlerInv, InHandler, Live
  <2>4. Clean
    BY DEF Init, Clean
  <2>5. \A p \in Live : Paid(p)
    BY <2>1, <2>2, Counts DEF Init, Paid, Live
  <2> QED BY <2>1, <2>2, <2>3, <2>4, <2>5 DEF ScatterInv, RetryInv, Init
<1>2. ScatterInv /\ [Next]_vars => ScatterInv'
  <2>1. Op.comm # "world"
    BY DEF MPI_Scatter
  <2> QED BY <2>1, TypeStep, WorldStep, HandlerStep, RetryStep DEF ScatterInv
<1> QED BY <1>1, <1>2, PTL DEF Spec

\* However many processes fail, and whenever, MPI_Scatter makes at most one
\* attempt more than there are failures.
THEOREM RetriesPaidByFailuresHolds ==
  ASSUME Op = MPI_Scatter
  PROVE  Spec => []RetriesPaidByFailures
<1>1. ScatterInv => RetriesPaidByFailures
  <2> SUFFICES ASSUME ScatterInv, aborted = 0, NEW p \in Live
               PROVE  total_trails[p] <= 1 + Cardinality(dead)
    BY DEF ScatterInv, RetryInv, RetriesPaidByFailures
  <2> QED BY PaidBound DEF ScatterInv, RetryInv, Live
<1> QED BY <1>1, ScatterInvariant, PTL

\* MPI_Scatter only gives up with PMPI_Abort(world, 10) after NO_TRIALS - 1
\* processes have failed.
THEOREM AbortNeedsFailures ==
  ASSUME Op = MPI_Scatter
  PROVE  Spec => [](aborted = 10 => NO_TRIALS <= 1 + Cardinality(dead))
<1>1. ScatterInv => (aborted = 10 => NO_TRIALS <= 1 + Cardinality(dead))
  BY DEF ScatterInv, RetryInv
<1> QED BY <1>1, ScatterInvariant, PTL

-----------------------------------------------------------------------------
(* MPI_Reduce: the replica that takes over from the master of the root.    *)

\* The master of the root now.
RootHead == Head(RootJob, world)

\* With one crash there is one shrink, and after it everybody knows who died.
ShrunkInv ==
  \/ world = Proc
  \/ /\ world = Proc \ dead /\ prevWorld = Proc /\ dead # {}
     /\ \A p \in Live : last_group_failed[p] = dead /\ ~InHandler(p)

\* The root's master h holds the result from its main operation on.  Until
\* the next agreement there are exceptions: h has just taken over and
\* withdrawn its flag; its main operation failed because a master died, and it
\* has that failure to report; or it has reported it and the replica of the
\* dead master has withdrawn its flag.
Withdrawn(x) == world # Proc /\ pc[x] = "agree" /\ x \notin flagged
Reporting(h) ==
  /\ world = Proc /\ dead \intersect Masters(Proc) # {}
  /\ pc[h] = "agree" => seen[h] # {}
Holds(h) ==
  /\ stage[h] = "replicate" => h \in filled \/ (FirstMaster \in dead /\ Withdrawn(h))
  /\ stage[h] = "main" /\ pc[h] \in {"agree", "ack", "shrink"} =>
        h \in filled \/ (\E x \in Live : Withdrawn(x)) \/ Reporting(h)
TakeoverInv == RootHead \in Live => Holds(RootHead)

\* What MPI_Reduce does differently from the other functions.
LEMMA ReduceOp ==
  ASSUME Op = MPI_Reduce
  PROVE  /\ Op.comm = "active" /\ Op.comm # "world" /\ Op.flow = "toRoot"
         /\ Op.flag = "onSuccess" /\ Op.replicate = "rootJob"
BY DEF MPI_Reduce

\* The head of the root's job is a master in every world of the call.
LEMMA RootHeadIs ==
  ASSUME TypeOK, WorldInv
  PROVE  /\ RootHead \in Workers(RootJob, world) /\ RootHead \in world /\ RootHead \in Proc
         /\ JobOf[RootHead] = RootJob /\ RootHead \in Masters(world)
         /\ \A p \in Masters(world) : JobOf[p] = RootJob => p = RootHead
<1>1. RootHead \in Workers(RootJob, world)
  <2>1. world \in SUBSET Proc /\ Workers(RootJob, world) # {}
    BY CollectiveAssumption DEF TypeOK, WorldInv
  <2> QED BY <2>1, HeadExists DEF RootHead
<1> QED BY <1>1 DEF Workers, Masters, RootHead, TypeOK

\* The first crash is the only one.
LEMMA NoneDead ==
  ASSUME TypeOK, MaxCrash <= 1, Cardinality(dead) < MaxCrash
  PROVE  dead = {}
<1>1. dead \subseteq Proc
  BY DEF TypeOK
<1>2. IsFiniteSet(dead)
  BY ONLY <1>1, ProcAssumption, FS_Subset
<1>3. Cardinality(dead) \in Nat
  BY ONLY <1>2, FS_CardinalityType
<1>4. Cardinality(dead) = 0
  BY <1>3, CollectiveAssumption
<1> QED BY ONLY <1>2, <1>4, FS_EmptySet

\* One crash leads to one shrink.
LEMMA ShrunkStep ==
  ASSUME MaxCrash <= 1, Op.comm # "world", TypeOK, WorldInv, LockStepInv, ShrunkInv, [Next]_vars
  PROVE  ShrunkInv'
<1> USE DEF InHandler
<1>1. ASSUME NEW p \in Proc, LocalMove(p) PROVE ShrunkInv'
  <2>1. /\ UNCHANGED <<dead, world, prevWorld, last_group_failed>>
        /\ \A q \in Proc \ {p} : pc'[q] = pc[q]
        /\ pc'[p] \in {"comm", "agree"}
    BY <1>1 DEF LocalMove
  <2> QED BY <2>1 DEF ShrunkInv, Live
<1>2. ASSUME NEW p \in Proc, AbortTrials(p) PROVE ShrunkInv'
  BY <1>2 DEF AbortTrials, ShrunkInv, Live
<1>3. ASSUME NEW p \in Proc, AckFailures(p) PROVE ShrunkInv'
  <2>1. p \in Live /\ InHandler(p) /\ UNCHANGED world
    BY <1>3 DEF AckFailures, Running
  <2> QED BY <2>1 DEF ShrunkInv
<1>4. ASSUME NEW p \in Proc, Crash(p) PROVE ShrunkInv'
  <2>1. Cardinality(dead) < MaxCrash /\ UNCHANGED world
    BY <1>4 DEF Crash
  <2>2. dead = {}
    BY <2>1, NoneDead
  <2> QED BY <2>1, <2>2 DEF ShrunkInv
<1>5. CASE AgreeSucceeds
  <2>1. /\ \A p \in Live : pc'[p] \in {"done", "call"}
        /\ UNCHANGED <<dead, world, prevWorld, last_group_failed>>
    BY <1>5 DEF AgreeSucceeds, ulfmVars, Live
  <2> QED BY <2>1 DEF ShrunkInv, Live
<1>6. CASE AgreeFails
  <2>1. dead \intersect world # {} /\ UNCHANGED world
    BY <1>6 DEF AgreeFails, ulfmVars
  <2> QED BY <2>1 DEF ShrunkInv
<1>7. CASE Shrink
  <2>1. UNCHANGED <<dead, last_group_failed>> /\ Live # {} /\ \A p \in Live : pc[p] = "shrink"
    BY <1>7 DEF Shrink
  <2>2. CASE ShrinkAborts
    BY <2>1, <2>2 DEF ShrinkAborts, ShrunkInv, Live
  <2>3. ASSUME NEW F \in ShrinkChoices, ShrinksTo(world \ F) PROVE ShrunkInv'
    <3>1. \A p \in Live : last_group_failed[p] = dead /\ dead # {}
      BY <2>1 DEF LockStepInv
    <3>2. F = dead /\ dead # {}
      BY <2>1, <2>3, <3>1 DEF ShrinkChoices
    <3>3. world = Proc
      BY <2>1 DEF ShrunkInv
    <3>4. /\ world' = Proc \ dead /\ prevWorld' = Proc
          /\ \A p \in Live : pc'[p] = "agree"
      BY <2>3, <3>2, <3>3 DEF ShrinksTo, Live
    <3> QED BY <2>1, <3>1, <3>2, <3>4 DEF ShrunkInv, Live
  <2> QED BY <1>7, <2>2, <2>3, ShrinkCases
<1>8. CASE Finished \/ UNCHANGED vars
  BY <1>8 DEF Finished, vars, ShrunkInv, Live
<1> QED BY <1>1, <1>2, <1>3, <1>4, <1>5, <1>6, <1>7, <1>8, LocalMoves DEF Next

\* The buffer of a process changes only in its own operation, and the root's
\* master does not lose the result there.
LEMMA FilledMoves ==
  ASSUME Op = MPI_Reduce, TypeOK, WorldInv, NEW p \in Proc,
         StartTrial(p) \/ StartReplicate(p) \/ OpSucceeds(p) \/ OpFails(p)
  PROVE  /\ \A q \in Proc \ {p} : q \in filled' <=> q \in filled
         /\ p = RootHead /\ p \in filled /\ stage[p] = "replicate" => p \in filled'
         /\ p = RootHead /\ stage[p] = "main" /\ pc'[p] = "agree" =>
               \/ p \in filled'
               \/ Masters(world) \intersect dead # {} /\ seen'[p] # {}
<1>1. /\ RootHead \in Masters(world) /\ JobOf[RootHead] = RootJob
  BY RootHeadIs
<1>2. /\ Op.comm = "active" /\ Op.flow = "toRoot" /\ pc \in [Proc -> PcType]
  BY ReduceOp DEF TypeOK, PcType
<1>3. p = RootHead => Root(p) = p /\ (stage[p] = "main" => Received(p) /\ Comm(p) = Masters(world))
  <2>1. ASSUME p = RootHead PROVE Root(p) = p
    BY <1>1, <2>1 DEF Root, RootHead
  <2>2. ASSUME p = RootHead, stage[p] = "main" PROVE Received(p) /\ Comm(p) = Masters(world)
    BY <1>2, <2>1, <2>2 DEF Received, Comm, active_comm
  <2> QED BY <2>1, <2>2
<1>4. p = RootHead /\ p \in filled => Received(p)
  BY <1>2, <1>3 DEF Received
<1>5. CASE StartTrial(p)
  <2>1. stage[p] = "main" /\ EnterStage(p) /\ UNCHANGED filled
    BY <1>5 DEF StartTrial
  <2>2. p = RootHead => TakesPart(p)
    BY <1>1, <1>3, <2>1 DEF TakesPart
  <2>3. p = RootHead => pc'[p] = "comm"
    BY <1>2, <2>1, <2>2 DEF EnterStage
  <2> QED BY <2>1, <2>3
<1>6. CASE StartReplicate(p)
  BY <1>6 DEF StartReplicate
<1>7. CASE OpSucceeds(p)
  <2>1. filled' = Put(filled, p, Received(p))
    BY <1>7 DEF OpSucceeds
  <2> QED BY <1>3, <1>4, <2>1 DEF Put
<1>8. CASE OpFails(p)
  <2>1. /\ filled' = filled \/ filled' = filled \ {p}
        /\ Received(p) /\ stage[p] = "replicate" => filled' = filled
    BY <1>8 DEF OpFails, Spoils
  <2>2. PICK R \in SUBSET (Comm(p) \intersect dead) :
           R # {} /\ seen' = [seen EXCEPT ![p] = @ \union R]
    BY <1>8 DEF OpFails
  <2>3. seen'[p] # {} /\ Comm(p) \intersect dead # {}
    BY <2>2 DEF TypeOK
  <2> QED BY <1>3, <1>4, <2>1, <2>3
<1> QED BY <1>5, <1>6, <1>7, <1>8

\* The first master of the root is the only process whose death makes another
\* one the root's master; and a process that takes over after a shrink
\* withdraws its flag.
LEMMA TakeoverShrink ==
  ASSUME Op = MPI_Reduce, TypeOK, WorldInv, ShrunkInv, LockStepInv, TakeoverInv,
         Shrink, NEW F \in ShrinkChoices, ShrinksTo(world \ F)
  PROVE  TakeoverInv'
<1>1. /\ UNCHANGED <<dead, stage, filled, last_group_failed>>
      /\ Live # {} /\ \A p \in Live : pc[p] = "shrink"
  BY DEF Shrink
<1>2. dead # {} /\ F = dead /\ world = Proc
  <2>1. \A p \in Live : last_group_failed[p] = dead /\ dead # {}
    BY <1>1 DEF LockStepInv, InHandler
  <2>2. world = Proc
    BY <1>1 DEF ShrunkInv, InHandler
  <2> QED BY <1>1, <2>1, <2>2 DEF ShrinkChoices
<1>3. /\ world' = Proc \ dead /\ world' # Proc /\ dead \subseteq Proc
      /\ \A p \in Live : pc'[p] = "agree"
      /\ \A p \in Live : p \in Masters(Proc \ dead) /\ p \notin Masters(Proc) => p \notin flagged'
  <2>1. /\ world' = Proc \ dead
        /\ pc' = [p \in Proc |-> IF p \in Proc \ dead THEN "agree" ELSE pc[p]]
        /\ flagged' = FlaggedAfterShrink(Proc \ dead)
    BY <1>2 DEF ShrinksTo
  <2>2. flagged' = flagged \ (Live \intersect (Masters(Proc \ dead) \ Masters(Proc)))
    BY <1>2, <2>1, ReduceOp DEF FlaggedAfterShrink
  <2> QED BY <1>2, <2>1, <2>2 DEF Live, TypeOK
<1>4. Live' = Live /\ Live = Proc \ dead
  BY <1>1 DEF Live
<1>5. /\ FirstMaster \in Workers(RootJob, Proc) /\ FirstMaster \in Proc
      /\ \A j \in Job : Workers(j, Proc) # {} /\ Head(j, Proc) \in Workers(j, Proc)
      /\ \A j \in Job : Workers(j, Proc \ dead) # {} /\ Head(j, Proc \ dead) \in Workers(j, Proc \ dead)
  <2>1. \A j \in Job : Workers(j, Proc) # {} /\ Workers(j, Proc \ dead) # {}
    BY <1>2, CollectiveAssumption DEF ShrinksTo
  <2>2. Proc \in SUBSET Proc /\ Proc \ dead \in SUBSET Proc
    OBVIOUS
  <2>3. \A j \in Job : /\ Head(j, Proc) \in Workers(j, Proc)
                       /\ Head(j, Proc \ dead) \in Workers(j, Proc \ dead)
    BY <2>1, <2>2, HeadExists
  <2> QED BY <2>1, <2>3, CollectiveAssumption DEF FirstMaster, Workers
<1>0. PICK h \in Proc : h = Head(RootJob, Proc \ dead)
  BY <1>5, CollectiveAssumption DEF Workers
<1>6. /\ RootHead' = h /\ RootHead = FirstMaster
      /\ h \in Live /\ h \in Proc \ dead /\ JobOf[h] = RootJob /\ h \in Masters(Proc \ dead)
  <2>1. RootHead' = h /\ RootHead = FirstMaster
    BY <1>2, <1>3, <1>0 DEF RootHead, FirstMaster
  <2>2. h \in Proc \ dead /\ JobOf[h] = RootJob
    BY <1>5, <1>0, CollectiveAssumption DEF Workers
  <2> QED BY <1>4, <1>0, <2>1, <2>2 DEF Masters
<1>7. CASE FirstMaster \in dead
  <2>1. h \notin Masters(Proc)
    BY <1>6, <1>7 DEF Masters, FirstMaster
  <2>2. h \notin flagged' /\ pc'[h] = "agree"
    BY <1>3, <1>6, <2>1
  <2>3. Withdrawn(h)'
    BY <1>3, <2>2 DEF Withdrawn
  <2>4. FirstMaster' = FirstMaster
    BY DEF FirstMaster
  <2>5. Holds(h)'
    BY <1>1, <1>4, <1>6, <1>7, <2>3, <2>4 DEF Holds
  <2> QED BY <1>6, <2>5 DEF TakeoverInv
<1>8. CASE FirstMaster \notin dead
  <2>1. h = FirstMaster
    BY <1>5, <1>8, <1>0, HeadStable, CollectiveAssumption DEF FirstMaster
  <2>2. Holds(h)
    BY <1>6, <2>1 DEF TakeoverInv
  <2>3. pc[h] = "shrink" /\ pc[h] # "agree"
    BY <1>1, <1>6
  <2>4. stage[h] = "replicate" => h \in filled
    BY <2>2, <2>3 DEF Holds, Withdrawn
  <2>5. stage[h] = "main" => h \in filled \/ dead \intersect Masters(Proc) # {}
    <3>1. \A x \in Live : ~Withdrawn(x)
      BY <1>2 DEF Withdrawn
    <3> QED BY <2>2, <2>3, <3>1 DEF Holds, Reporting
  <2>6. ASSUME dead \intersect Masters(Proc) # {}
        PROVE  \E x \in Live : Withdrawn(x)'
    <3>1. PICK d \in dead : d \in Masters(Proc)
      BY <2>6
    <3>2. d \in Proc /\ JobOf[d] \in Job /\ d = Head(JobOf[d], Proc)
      BY <1>3, <3>1, JobAssumption DEF Masters
    <3>3. PICK x \in Proc \ dead : x = Head(JobOf[d], Proc \ dead) /\ JobOf[x] = JobOf[d]
      BY <1>5, <3>2 DEF Workers
    <3>4. x \in Masters(Proc \ dead) /\ x \notin Masters(Proc)
      BY <3>1, <3>2, <3>3 DEF Masters
    <3>5. x \in Live /\ pc'[x] = "agree" /\ x \notin flagged'
      BY <1>3, <1>4, <3>3, <3>4
    <3> QED BY <1>3, <3>5 DEF Withdrawn
  <2>7. Holds(h)'
    BY <1>1, <1>4, <2>4, <2>5, <2>6 DEF Holds
  <2> QED BY <1>6, <2>7 DEF TakeoverInv
<1> QED BY <1>7, <1>8

\* The agreement: if it succeeds after the main operation, the root's master
\* has the result; if a withdrawn flag makes it fail after the inner
\* broadcast, the main operation is done again.
LEMMA TakeoverAgree ==
  ASSUME Op = MPI_Reduce, RootDeathSeen, TypeOK, WorldInv, ShrunkInv, LockStepInv,
         TakeoverInv, AgreeSucceeds
  PROVE  TakeoverInv'
<1>0. PICK h \in Proc : h = RootHead
  BY RootHeadIs
<1> DEFINE f == world \subseteq flagged
<1>1. /\ \A p \in Live : pc[p] = "agree" /\ seen[p] = {}
      /\ \A p \in Live : stage'[p] = NextStage(p, f)
      /\ \A p \in Live : pc'[p] \in {"done", "call"}
      /\ UNCHANGED <<dead, world, filled>>
  BY DEF AgreeSucceeds, AllAgreeing, ulfmVars, Live
<1>2. RootHead' = h /\ Live' = Live
  BY <1>0, <1>1 DEF RootHead, Live
<1> SUFFICES ASSUME h \in Live PROVE stage'[h] = "replicate" => h \in filled
  <2>1. h \in Live => pc'[h] \notin {"agree", "ack", "shrink"}
    BY <1>1
  <2> QED BY <1>1, <1>2, <2>1 DEF TakeoverInv, Holds
<1>3. Holds(h) /\ stage[h] \in {"main", "replicate"}
  BY <1>0 DEF TakeoverInv, TypeOK
<1>4. CASE stage[h] = "main"
  <2>1. stage'[h] = "replicate" => f
    BY <1>1, <1>4 DEF NextStage
  <2>2. f => ~ \E x \in Live : Withdrawn(x)
    BY DEF Withdrawn, WorldInv
  <2>3. ~Reporting(h)
    BY <1>1 DEF Reporting
  <2> HIDE DEF f
  <2> QED BY <1>1, <1>3, <1>4, <2>1, <2>2, <2>3 DEF Holds
<1>5. CASE stage[h] = "replicate" /\ h \notin filled
  <2>1. FirstMaster \in dead /\ Withdrawn(h)
    BY <1>3, <1>5 DEF Holds
  <2>2. ~f
    BY <2>1 DEF Withdrawn, WorldInv
  <2>3. /\ dead = {FirstMaster} /\ world = Proc \ {FirstMaster} /\ prevWorld = Proc
        /\ last_group_failed[h] = {FirstMaster}
    <3>1. dead = {FirstMaster}
      BY <2>1 DEF LockStepInv
    <3> QED BY <2>1, <3>1 DEF ShrunkInv, Withdrawn
  <2>4. Workers(RootJob, Proc \ {FirstMaster}) # {}
    BY <2>3, CollectiveAssumption DEF WorldInv
  <2>5. is_failed_node_world_job_comm_root(last_group_failed[h], prevWorld, world)
    BY <2>3, <2>4 DEF RootDeathSeen
  <2> HIDE DEF f
  <2>6. NextStage(h, f) = "main"
    BY <1>5, <2>2, <2>5 DEF NextStage
  <2> QED BY <1>1, <2>6
<1> QED BY <1>3, <1>4, <1>5

\* The step of a single process: only the root's master itself can change
\* what it holds, and it does in its own operation.
LEMMA TakeoverLocal ==
  ASSUME Op = MPI_Reduce, TypeOK, WorldInv, ShrunkInv, TakeoverInv, NEW p \in Proc,
         StartTrial(p) \/ StartReplicate(p) \/ OpSucceeds(p) \/ OpFails(p)
  PROVE  TakeoverInv'
<1>0. PICK h \in Proc : h = RootHead
  BY RootHeadIs
<1>1. LocalMove(p)
  BY LocalMoves, ReduceOp
<1>2. /\ p \in Live /\ pc[p] \in {"call", "comm"} /\ pc'[p] \in {"comm", "agree"}
      /\ \A q \in Proc \ {p} : pc'[q] = pc[q] /\ seen'[q] = seen[q]
                                /\ (q \in flagged' <=> q \in flagged)
      /\ UNCHANGED <<dead, world, stage>>
  BY <1>1 DEF LocalMove
<1>3. RootHead' = h /\ Live' = Live /\ FirstMaster' = FirstMaster /\ Live \subseteq Proc
  BY <1>0, <1>2 DEF RootHead, Live, FirstMaster
<1>4. \A x \in Proc : Withdrawn(x) => Withdrawn(x)'
  BY <1>2 DEF Withdrawn
<1> SUFFICES ASSUME h \in Live PROVE Holds(h)'
  BY <1>3 DEF TakeoverInv
<1>5. Holds(h)
  BY <1>0 DEF TakeoverInv
<1>6. CASE h # p
  <2>1. h \in filled' <=> h \in filled
    BY <1>6, FilledMoves
  <2>2. Reporting(h) => Reporting(h)'
    BY <1>2, <1>6 DEF Reporting
  <2>3. pc'[h] = pc[h] /\ stage'[h] = stage[h]
    BY <1>2, <1>6
  <2> QED BY <1>2, <1>3, <1>4, <1>5, <2>1, <2>2, <2>3 DEF Holds
<1>7. CASE h = p
  <2>1. /\ p \in filled /\ stage[p] = "replicate" => p \in filled'
        /\ stage[p] = "main" /\ pc'[p] = "agree" =>
               \/ p \in filled'
               \/ Masters(world) \intersect dead # {} /\ seen'[p] # {}
    BY <1>0, <1>7, FilledMoves
  <2>2. stage[p] = "replicate" => p \in filled'
    BY <1>2, <1>5, <1>7, <2>1 DEF Holds, Withdrawn
  <2>3. Masters(world) \intersect dead # {} => world = Proc
    <3>1. Masters(world) \subseteq world
      BY DEF Masters
    <3> QED BY <3>1 DEF ShrunkInv
  <2>4. stage[p] = "main" /\ pc'[p] = "agree" => p \in filled' \/ Reporting(p)'
    BY <1>2, <2>1, <2>3 DEF Reporting
  <2> QED BY <1>2, <1>7, <2>2, <2>4 DEF Holds
<1> QED BY <1>6, <1>7

\* The root's master keeps the result, or the failure that cost it is still
\* to be reported.
LEMMA TakeoverStep ==
  ASSUME Op = MPI_Reduce, MaxCrash <= 1, RootDeathSeen, TypeOK, WorldInv, LockStepInv,
         ShrunkInv, TakeoverInv, [Next]_vars
  PROVE  TakeoverInv'
<1>0. PICK h \in Proc : h = RootHead
  BY RootHeadIs
<1>1. TakeoverInv /\ h \in Live => Holds(h)
  BY <1>0 DEF TakeoverInv
<1>2. ASSUME NEW p \in Proc, AbortTrials(p) PROVE TakeoverInv'
  <2>1. UNCHANGED <<dead, world, pc, stage, flagged, filled, seen>>
    BY <1>2 DEF AbortTrials
  <2> QED BY <2>1 DEF TakeoverInv, Holds, Withdrawn, Reporting, RootHead, FirstMaster, Live
<1>3. ASSUME NEW p \in Proc, AckFailures(p) PROVE TakeoverInv'
  <2>1. /\ p \in Live /\ pc[p] = "ack" /\ pc' = [pc EXCEPT ![p] = "shrink"]
        /\ seen' = [seen EXCEPT ![p] = {}]
        /\ UNCHANGED <<dead, world, stage, flagged, filled>>
    BY <1>3 DEF AckFailures, Running
  <2>2. \A q \in Proc : /\ pc'[q] = (IF q = p THEN "shrink" ELSE pc[q])
                        /\ seen'[q] = (IF q = p THEN {} ELSE seen[q])
    BY <2>1 DEF TypeOK
  <2>3. RootHead' = h /\ Live' = Live /\ FirstMaster' = FirstMaster /\ Live \subseteq Proc
    BY <1>0, <2>1 DEF RootHead, Live, FirstMaster
  <2>4. \A x \in Proc : Withdrawn(x) => Withdrawn(x)'
    BY <2>1, <2>2 DEF Withdrawn
  <2>5. Reporting(h) => Reporting(h)'
    BY <2>1, <2>2 DEF Reporting
  <2>6. pc'[h] \in {"agree", "ack", "shrink"} => pc[h] \in {"agree", "ack", "shrink"}
    BY <2>1, <2>2
  <2>7. h \in Live => Holds(h)'
    BY <1>1, <2>1, <2>3, <2>4, <2>5, <2>6 DEF Holds
  <2> QED BY <2>3, <2>7 DEF TakeoverInv
<1>4. ASSUME NEW p \in Proc, Crash(p) PROVE TakeoverInv'
  <2>1. /\ dead' = dead \union {p} /\ Cardinality(dead) < MaxCrash
        /\ UNCHANGED <<world, pc, stage, flagged, filled, seen>>
    BY <1>4 DEF Crash
  <2>2. dead = {}
    BY <2>1, NoneDead
  <2>3. world = Proc
    BY <2>2 DEF ShrunkInv
  <2>4. RootHead' = h /\ Live' \subseteq Live
    BY <1>0, <2>1 DEF RootHead, Live
  <2>5. ASSUME h \in Live' PROVE Holds(h)'
    <3>1. (stage[h] = "replicate" => h \in filled)
            /\ (stage[h] = "main" /\ pc[h] \in {"agree", "ack", "shrink"} => h \in filled)
      BY <1>1, <2>2, <2>3, <2>4, <2>5 DEF Holds, Withdrawn, Reporting
    <3> QED BY <2>1, <3>1 DEF Holds
  <2> QED BY <2>4, <2>5 DEF TakeoverInv
<1>5. CASE AgreeFails
  <2>1. /\ pc' = [p \in Proc |-> IF p \in Live THEN "ack" ELSE pc[p]]
        /\ \A p \in Live : pc[p] = "agree"
        /\ UNCHANGED <<dead, world, stage, filled>>
        /\ dead \intersect world # {}
    BY <1>5 DEF AgreeFails, AllAgreeing, ulfmVars
  <2>2. world = Proc
    BY <2>1 DEF ShrunkInv
  <2>3. RootHead' = h /\ Live' = Live
    BY <1>0, <2>1 DEF RootHead, Live
  <2>4. ASSUME h \in Live PROVE Holds(h)'
    <3>1. /\ stage[h] = "replicate" => h \in filled
          /\ stage[h] = "main" => h \in filled \/ Reporting(h)
      BY <1>1, <2>1, <2>2, <2>4 DEF Holds, Withdrawn
    <3>2. pc'[h] = "ack"
      BY <2>1, <2>4
    <3>3. Reporting(h) => Reporting(h)'
      BY <2>1, <3>2 DEF Reporting
    <3> QED BY <2>1, <3>1, <3>3 DEF Holds
  <2> QED BY <2>3, <2>4 DEF TakeoverInv
<1>6. CASE Shrink
  <2>1. CASE ShrinkAborts
    <3>1. UNCHANGED <<dead, world, pc, stage, flagged, filled, seen>>
      BY <1>6, <2>1 DEF Shrink, ShrinkAborts
    <3> QED BY <3>1 DEF TakeoverInv, Holds, Withdrawn, Reporting, RootHead, FirstMaster, Live
  <2> QED BY <1>6, <2>1, ShrinkCases, TakeoverShrink
<1>7. CASE Finished \/ UNCHANGED vars
  <2>1. UNCHANGED <<dead, world, pc, stage, flagged, filled, seen>>
    BY <1>7 DEF Finished, vars
  <2> QED BY <2>1 DEF TakeoverInv, Holds, Withdrawn, Reporting, RootHead, FirstMaster, Live
<1> QED BY <1>2, <1>3, <1>4, <1>5, <1>6, <1>7, TakeoverLocal, TakeoverAgree DEF Next

\* The broadcast of MPI_Reduce to the replicas starts from a buffer that holds
\* the reduction, whoever is the root's master by then: if at most one process
\* fails, in every layout in which is_failed_node_world_job_comm_root notices
\* the death of the root's master.
THEOREM BroadcastsResultHolds ==
  ASSUME Op = MPI_Reduce, MaxCrash <= 1, RootDeathSeen
  PROVE  Spec => []BroadcastsResult
<1> DEFINE Inv == TypeOK /\ WorldInv /\ LockStepInv /\ ShrunkInv /\ TakeoverInv
<1>1. Init => Inv
  <2> SUFFICES ASSUME Init PROVE Inv
    OBVIOUS
  <2>1. TypeOK
    BY CollectiveAssumption DEF Init, Workers, TypeOK
  <2>2. WorldInv
    BY CollectiveAssumption DEF Init, WorldInv, Live
  <2>3. LockStepInv
    BY DEF Init, LockStepInv, LockStep, InHandler, Live
  <2>4. ShrunkInv
    BY DEF Init, ShrunkInv
  <2>5. TakeoverInv
    <3>1. \A h \in Proc : stage[h] = "main" /\ pc[h] = "call"
      BY DEF Init
    <3> QED BY <2>1, <2>2, <3>1, RootHeadIs DEF TakeoverInv, Holds
  <2> QED BY <2>1, <2>2, <2>3, <2>4, <2>5
<1>2. Inv /\ [Next]_vars => Inv'
  BY ReduceOp, TypeStep, WorldStep, LockStepStep, ShrunkStep, TakeoverStep
<1>3. Inv => BroadcastsResult
  <2> SUFFICES ASSUME Inv, NEW p \in Masters(world) \ dead,
                      stage[p] = "replicate", pc[p] = "comm", HasResult(JobOf[p])
               PROVE  p \in filled
    BY DEF BroadcastsResult
  <2>1. JobOf[p] = RootJob
    BY ReduceOp DEF HasResult
  <2>2. p = RootHead /\ p \in Live
    BY <2>1, RootHeadIs DEF Live
  <2> QED BY <2>2 DEF TakeoverInv, Holds, Withdrawn
<1> HIDE DEF Inv
<1> QED BY <1>1, <1>2, <1>3, PTL DEF Spec

=============================================================================

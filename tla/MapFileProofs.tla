--------------------------- MODULE MapFileProofs ---------------------------
(***************************************************************************)
(* Theorems about MapFile, for every number of processes, jobs, calls,     *)
(* maps and restarts and every pattern of pending receives.                *)
(*                                                                         *)
(* Type correctness holds unconditionally.  That the processes stay        *)
(* together, and that they implement one program, holds if no map is       *)
(* written before all processes have adopted the one before, and the       *)
(* program does not stop while its checkpoints are written or start again  *)
(* under a map that does not mark every line: the code has no protection   *)
(* against any of these.                                                   *)
(***************************************************************************)
EXTENDS MapFile, SequenceTheorems, TLAPS

USE DEF nodeVars, ckptVars

-----------------------------------------------------------------------------
(* The jobs of a map.                                                      *)

\* Every process finds its job in the map.
LEMMA JobInType ==
  ASSUME NEW v \in 1..MaxVer, NEW p \in Proc
  PROVE  /\ JobIn(v, p) \in Job
         /\ \E i \in DOMAIN RankList[v][JobIn(v, p)] : RankList[v][JobIn(v, p)][i] = p
<1>0. \A w \in 1..MaxVer, q \in Proc :
         \E j \in Job, i \in 1..Cardinality(Proc) :
            i \in DOMAIN RankList[w][j] /\ RankList[w][j][i] = q
  BY ONLY MapFileAssumption
<1>1. \E j \in Job, i \in 1..Cardinality(Proc) :
         i \in DOMAIN RankList[v][j] /\ RankList[v][j][i] = p
  BY <1>0, Zenon
<1>2. \E j \in Job : \E i \in DOMAIN RankList[v][j] : RankList[v][j][i] = p
  BY <1>1, Zenon
<1> QED BY <1>2, Zenon DEF JobIn

\* Every job has one master: the first rank of its line, which is in no other.
LEMMA MasterOfJob ==
  ASSUME NEW v \in 1..MaxVer, NEW j \in Job
  PROVE  /\ Head(RankList[v][j]) \in Proc
         /\ JobIn(v, Head(RankList[v][j])) = j
<1> DEFINE line == RankList[v][j]
           h == Head(line)
<1>1. line \in Seq(Proc) /\ line # <<>>
  BY MapFileAssumption
<1>2. h \in Proc /\ 1 \in DOMAIN line /\ line[1] = h
  <2> HIDE DEF line
  <2> QED BY <1>1, HeadTailProperties, LenProperties, EmptySeq
<1>3. PICK i \in DOMAIN RankList[v][JobIn(v, h)] :
         RankList[v][JobIn(v, h)][i] = h /\ JobIn(v, h) \in Job
  BY <1>2, JobInType
<1>4. JobIn(v, h) = j
  <2> HIDE DEF h
  <2> QED BY <1>2, <1>3, MapFileAssumption
<1> QED BY <1>2, <1>4

\* A process is on the line of one job only.
LEMMA JobInUnique ==
  ASSUME NEW v \in 1..MaxVer, NEW p \in Proc, NEW j \in Job,
         NEW i \in DOMAIN RankList[v][j], RankList[v][j][i] = p
  PROVE  JobIn(v, p) = j
<1>1. PICK l \in DOMAIN RankList[v][JobIn(v, p)] :
         RankList[v][JobIn(v, p)][l] = p /\ JobIn(v, p) \in Job
  BY JobInType
<1> QED BY <1>1, MapFileAssumption

\* A process on an unmarked line is where it was before.
LEMMA UnmarkedSame ==
  ASSUME NEW v \in 1..(MaxVer - 1), NEW p \in Proc, ~Marked(v + 1, p)
  PROVE  JobIn(v + 1, p) = JobIn(v, p)
<1>1. v \in 1..MaxVer /\ v + 1 \in 1..MaxVer
  BY MapFileAssumption
<1>2. PICK j \in Job : j = JobIn(v + 1, p)
  BY <1>1, JobInType
<1>3. PICK i \in DOMAIN RankList[v + 1][j] : RankList[v + 1][j][i] = p
  BY <1>1, <1>2, JobInType
<1>4. RankList[v + 1][j] = RankList[v][j]
  BY <1>2, MapsAssumption DEF Marked
<1>5. i \in DOMAIN RankList[v][j] /\ RankList[v][j][i] = p
  BY <1>3, <1>4
<1>6. JobIn(v, p) = j
  BY <1>1, <1>5, JobInUnique
<1> QED BY <1>2, <1>6

\* The part of p in the migration of version v, for processes that had
\* adopted the version before it.
Role(v, p) ==
  CASE Marked(v, p) /\ JobIn(v, p) # JobIn(v - 1, p) -> "receiver"
    [] /\ Marked(v, p) /\ JobIn(v, p) = JobIn(v - 1, p)
       /\ p = Head(RankList[v][JobIn(v, p)]) /\ Len(RankList[v][JobIn(v, p)]) > 1
          -> "sender"
    [] OTHER -> "none"

\* Who receives has somebody to receive from: the first of its line.
LEMMA HasSender ==
  ASSUME NEW v \in 1..(MaxVer - 1), NEW p \in Proc, Role(v + 1, p) = "receiver"
  PROVE  \E h \in Proc : JobIn(v + 1, h) = JobIn(v + 1, p) /\ Role(v + 1, h) = "sender"
<1>0. v \in 1..MaxVer /\ v + 1 \in 1..MaxVer /\ (v + 1) - 1 = v
  BY MapFileAssumption
<1>1. Marked(v + 1, p) /\ JobIn(v + 1, p) # JobIn(v, p)
  BY <1>0 DEF Role
<1>2. PICK j \in Job : j = JobIn(v + 1, p)
  BY <1>0, JobInType
<1>3. PICK h \in Proc : h = Head(RankList[v + 1][j]) /\ JobIn(v + 1, h) = j
  BY <1>0, MasterOfJob
<1>4. JobIn(v, h) = j
  <2>1. PICK i \in DOMAIN RankList[v][j] : RankList[v][j][i] = h
    BY <1>3, MapsAssumption
  <2> QED BY <1>0, <2>1, JobInUnique
<1>5. h # p
  BY <1>1, <1>2, <1>4
<1>6. Len(RankList[v + 1][j]) > 1
  <2>0. RankList[v + 1][j] \in Seq(Proc) /\ RankList[v + 1][j] # <<>>
    BY <1>0, MapFileAssumption
  <2>1. PICK line \in Seq(Proc) : line = RankList[v + 1][j] /\ line # <<>>
    BY <2>0, Zenon
  <2>2. PICK i \in DOMAIN line : line[i] = p
    BY <1>0, <1>2, <2>1, JobInType
  <2>3. h = line[1] /\ Len(line) \in Nat /\ DOMAIN line = 1..Len(line)
    BY <1>3, <2>1, HeadTailProperties, LenProperties
  <2> QED BY <1>5, <2>1, <2>2, <2>3
<1>7. Marked(v + 1, h)
  BY <1>1, <1>2, <1>3 DEF Marked
<1>8. Role(v + 1, h) = "sender"
  BY <1>0, <1>3, <1>4, <1>6, <1>7 DEF Role
<1> QED BY <1>2, <1>3, <1>8

\* The job of a process by the map it has parsed.
JobOf(p) == JobIn(map[p], p)

-----------------------------------------------------------------------------
(* Type correctness.                                                       *)

\* What the types rest on: a process in the Allreduce has a time stamp that
\* last_file_update-- can be applied to, one behind init_node has a map, and
\* who restores does not meet in the Allreduce with one who does not.
TypeInv ==
  /\ TypeOK
  /\ file.mtime >= 1
  /\ \A p \in Proc : /\ phase[p] \in {"info", "allreduce"} => last_file_update[p] >= 1
                     /\ phase[p] # "init" => map[p] >= 1
                     /\ phase[p] \notin {"init", "comms", "crashed"} => job_id[p] \in Job
  /\ \A p \in ckpt_restore :
        \/ phase[p] = "info"
        \/ /\ phase[p] \in {"allreduce", "split", "restore", "crashed"}
           /\ \A q \in Proc \ ckpt_restore : phase[q] \in {"barrier", "collective"}

LEMMA MapNatural == /\ NCalls \in Nat /\ NCalls # 0 /\ MaxVer \in Nat /\ MaxVer # 0
                    /\ MaxHalts \in Nat /\ SleepTime \in Nat
  BY MapFileAssumption

CkptType == {None, Torn} \union {Saved(c, v) : c \in 0..(NCalls - 1), v \in 1..MaxVer}

LEMMA TypeInit == Init => TypeInv
<1> SUFFICES ASSUME Init PROVE TypeInv
  OBVIOUS
<1>1. NoCall \in 0..NoCall /\ 0 \in 0..(NCalls - 1) /\ 1 \in 1..MaxVer
  BY MapFileAssumption DEF NoCall
<1>2. \A p \in Proc : "init" \in Phases
  BY DEF Phases, InitPhases
<1> QED BY <1>1, <1>2, MapFileAssumption DEF Init, TypeInv, TypeOK

\* Every step keeps the types.
LEMMA TypeStep == TypeInv /\ [Next]_vars => TypeInv'
<1> SUFFICES ASSUME TypeInv, [Next]_vars PROVE TypeInv'
  OBVIOUS
<1> USE DEF TypeInv, TypeOK
<1>0. {"init", "comms", "stat", "info", "barrier", "allreduce", "parse",
       "split", "open", "save", "rep", "restore", "app", "collective", "crashed"} = Phases
  BY DEF Phases, InitPhases, PollPhases
<1>1. ASSUME NEW p \in Proc, init_node(p) PROVE TypeInv'
  <2>1. ParsedJob(file.ver, p) \in Job \union {NoJob}
    BY JobInType DEF ParsedJob
  <2> QED BY <1>0, <1>1, <2>1 DEF init_node, To
<1>2. ASSUME NEW p \in Proc, set_last_file_update(p) PROVE TypeInv'
  BY <1>0, <1>2 DEF set_last_file_update, To
<1>3. ASSUME NEW p \in Proc, is_file_modified(p) PROVE TypeInv'
  BY <1>0, <1>3 DEF is_file_modified, To
<1>4. ASSUME NEW p \in Proc, parse_map_file(p) PROVE TypeInv'
  <2>1. ParsedJob(file.ver, p) \in Job
    <3>1. job_id[p] \in Job /\ file.ver \in 1..MaxVer
      BY <1>4 DEF parse_map_file
    <3>2. JobIn(file.ver, p) \in Job
      BY <3>1, JobInType
    <3> QED BY ONLY <3>1, <3>2 DEF ParsedJob
  <2>2. Transit(file.ver, p) \in {"none", "sender", "receiver"}
    BY DEF Transit
  <2> QED BY <1>0, <1>4, <2>1, <2>2 DEF parse_map_file, To
<1>5. ASSUME NEW p \in Proc, OpenCkpt(p) PROVE TypeInv'
  <2>1. ckpt' \in [Job -> CkptType]
    <3> HIDE DEF CkptType
    <3>1. ckpt \in [Job -> CkptType] /\ Torn \in CkptType
      BY DEF CkptType
    <3> QED BY <1>5, <3>1 DEF OpenCkpt
  <2> QED BY <1>0, <1>5, <2>1 DEF OpenCkpt, To, CkptType
<1>6. ASSUME NEW p \in Proc, init_ckpt(p) PROVE TypeInv'
  <2>1. Saved(pos[p], map[p]) \in CkptType
    <3>1. pos[p] \in 0..(NCalls - 1) /\ map[p] \in 1..MaxVer
      BY <1>6, MapNatural DEF init_ckpt
    <3>2. \A c \in 0..(NCalls - 1), v \in 1..MaxVer : Saved(c, v) \in CkptType
      BY DEF CkptType
    <3> QED BY <3>1, <3>2
  <2>2. ckpt' \in [Job -> CkptType]
    <3>1. ckpt \in [Job -> CkptType]
      BY DEF CkptType
    <3> HIDE DEF CkptType
    <3> QED BY <1>6, <2>1, <3>1 DEF init_ckpt
  <2>3. cut' \in 0..NoCall
    BY <1>6, MapNatural DEF init_ckpt, NoCall
  <2>4. RepOrCall(p) \in {"rep", "collective"}
    BY DEF RepOrCall
  <2> QED BY <1>0, <1>6, <2>2, <2>3, <2>4 DEF init_ckpt, To, CkptType
<1>7. ASSUME NEW p \in Proc, init_ckpt_restore(p) PROVE TypeInv'
  <2>1. job_id[p] \in Job
    BY <1>7 DEF init_ckpt_restore
  <2>2. ckpt[job_id[p]].pos \in 0..(NCalls - 1)
    <3>1. ckpt[job_id[p]] \in CkptType
      BY <2>1 DEF CkptType
    <3>2. \A c \in CkptType : c.pos \in 0..(NCalls - 1)
      BY MapNatural DEF CkptType, None, Torn, Saved
    <3> QED BY <3>1, <3>2
  <2> QED BY <1>0, <1>7, <2>2 DEF init_ckpt_restore, To
<1>8. CASE InitComms
  BY <1>0, <1>8 DEF InitComms, All
<1>9. CASE save_rep_and_stack_info
  BY <1>0, <1>9 DEF save_rep_and_stack_info, All
<1>10. CASE PMPI_Barrier
  BY <1>0, <1>10 DEF PMPI_Barrier, All
<1>11. CASE PMPI_Allreduce
  <2>1. \A p \in Proc : last_file_update[p] \in Nat /\ last_file_update[p] >= 1
    BY <1>11 DEF PMPI_Allreduce, All
  <2>2. ckpt_restore = {} \/ ckpt_restore = Proc
    BY <1>11 DEF PMPI_Allreduce, All
  <2>3. CASE Postpone /\ \E p \in Proc : RequestPending(p)
    <3>1. ckpt_restore = {}
      BY <2>2, <2>3 DEF RequestPending
    <3>2. last_file_update' \in [Proc -> Nat]
      BY <2>1, <2>3 DEF Postpone
    <3>3. phase' = [p \in Proc |-> "collective"]
      BY <1>11, <2>3 DEF PMPI_Allreduce
    <3> QED BY <1>0, <1>11, <3>1, <3>2, <3>3 DEF PMPI_Allreduce, All
  <2>4. CASE \A p \in Proc : ~RequestPending(p)
    <3>1. /\ phase' = [p \in Proc |-> IF p \in ckpt_restore THEN "split" ELSE "parse"]
          /\ UNCHANGED last_file_update
      BY <1>11, <2>4 DEF PMPI_Allreduce
    <3> QED BY <1>0, <1>11, <2>2, <3>1 DEF PMPI_Allreduce, All
  <2> QED BY <1>11, <2>3, <2>4 DEF PMPI_Allreduce
<1>12. CASE update_comms
  <2>1. \A p \in Proc : RepOrCall(p) \in {"rep", "collective"}
    BY DEF RepOrCall
  <2> QED BY <1>0, <1>12, <2>1 DEF update_comms, All
<1>13. CASE Collective
  <2>1. \A p \in Proc : (pos[p] + 1) % NCalls \in 0..(NCalls - 1)
    BY MapNatural
  <2> QED BY <1>0, <1>13, <2>1 DEF Collective, All
<1>14. CASE WriteToFile
  BY <1>14, MapNatural DEF WriteToFile
<1>15. CASE Halt
  BY <1>0, <1>15, MapNatural DEF Halt
<1>16. CASE UNCHANGED vars
  BY <1>16 DEF vars
<1>17. ASSUME NEW j \in Job, init_rep(j) PROVE TypeInv'
  <2> DEFINE S == {q \in MigrationComm(j) : transit[q] = "sender"}
  <2>1. \A p \in Proc : /\ phase'[p] = phase[p]
                            \/ (phase[p] = "rep" /\ phase'[p] \in {"collective", "crashed"})
                        /\ \E q \in Proc : pos'[p] = pos[q]
    <3>1. ASSUME S # {} PROVE (CHOOSE q \in S : TRUE) \in Proc
      BY <3>1 DEF MigrationComm
    <3> QED BY <1>17, <3>1 DEF init_rep
  <2>2. phase' \in [Proc -> Phases] /\ pos' \in [Proc -> 0..(NCalls - 1)]
    <3>1. DOMAIN phase' = Proc /\ DOMAIN pos' = Proc
          /\ phase' = [p \in Proc |-> phase'[p]] /\ pos' = [p \in Proc |-> pos'[p]]
      BY <1>17 DEF init_rep
    <3> QED BY <1>0, <2>1, <3>1
  <2> QED BY <1>17, <2>1, <2>2 DEF init_rep
<1> QED BY <1>1, <1>2, <1>3, <1>4, <1>5, <1>6, <1>7, <1>8, <1>9, <1>10, <1>11,
           <1>12, <1>13, <1>14, <1>15, <1>16, <1>17 DEF Next, Step, Sync

\* Every variable keeps its type, whenever maps are written and the program
\* stops: last_file_update-- is never applied to a time stamp of 0, and no
\* checkpoint is made before a map was read.
THEOREM MapFileTypeCorrect == Spec => []TypeOK
<1>1. TypeInv => TypeOK
  BY DEF TypeInv
<1> QED BY <1>1, TypeInit, TypeStep, PTL DEF Spec

-----------------------------------------------------------------------------
(* The inductive invariant: at any time the processes are in one stage     *)
(* together.                                                               *)

Undisturbed == ~WritesAnyTime /\ ~HaltsAnyTime

In(S) == \A p \in Proc : phase[p] \in S
SamePos == \A p, q \in Proc : pos[p] = pos[q]
SameMap == \A p, q \in Proc : map[p] = map[q]
LatestMap == \A p \in Proc : map[p] = file.ver
AtStart == \A p \in Proc : pos[p] = 0
TimeKnown == \A p \in Proc : last_file_update[p] = file.mtime
CkptsBefore(v) == \A j \in Job : ckpt[j].ver < v

\* init_node: some have read the map.
Booting ==
  /\ In({"init", "comms"}) /\ AtStart /\ ckpt_restore = {} /\ Bit[file.ver] = Job
  /\ \A p \in Proc : phase[p] = "comms" => map[p] = file.ver

\* set_last_file_update: some have found the checkpoint of their job.
Looking ==
  /\ In({"stat", "info"}) /\ AtStart /\ LatestMap
  /\ \A p \in Proc :
        /\ phase[p] = "info" => last_file_update[p] = file.mtime
        /\ p \in ckpt_restore <=> phase[p] = "info" /\ does_ckpt_file_exists(p)

\* The end of MPI_Init, without checkpoints.
Waiting ==
  /\ In({"barrier"}) /\ AtStart /\ LatestMap /\ TimeKnown /\ ckpt_restore = {}
  /\ \A j \in Job : ckpt[j] = None

\* The end of MPI_Init, with checkpoints.
Restoring ==
  /\ LatestMap /\ TimeKnown /\ ckpt_restore # {}
  /\ \A j \in Job : ckpt[j] # None
  /\ \/ (In({"allreduce"}) \/ In({"split"})) /\ ckpt_restore = Proc /\ AtStart
     \/ /\ In({"restore", "collective"})
        /\ \A p \in Proc : /\ p \in ckpt_restore <=> phase[p] = "restore"
                           /\ phase[p] = "collective" => pos[p] = cut

\* Before, in or after a call in which nobody has found a new map.
Calling ==
  /\ In({"app", "collective"}) /\ SameMap
  /\ \A p, q \in Proc :
        /\ last_file_update[p] = last_file_update[q]
        /\ phase[p] # phase[q] => last_file_update[p] = file.mtime
  /\ \A p \in Proc :
        /\ last_file_update[p] <= file.mtime
        /\ last_file_update[p] < file.mtime => map[p] < file.ver
        /\ map[p] <= file.ver /\ file.ver <= map[p] + 1 /\ CkptsBefore(map[p] + 1)

\* A new map: some have seen it ...
Polling ==
  /\ In({"app", "allreduce"}) /\ SameMap
  /\ \A p \in Proc :
        /\ phase[p] = "app" => last_file_update[p] < file.mtime
        /\ phase[p] = "allreduce" => last_file_update[p] = file.mtime
        /\ file.ver = map[p] + 1 /\ CkptsBefore(map[p] + 1)
  /\ \E p \in Proc : phase[p] = "allreduce"

\* ... or have read it ...
Reading ==
  /\ In({"parse", "split"}) /\ TimeKnown /\ file.ver >= 2
  /\ \A p, q \in Proc :
        /\ phase[p] = "parse" => file.ver = map[p] + 1
        /\ phase[p] = "split" => map[p] = file.ver /\ transit[p] = Role(file.ver, p)
        /\ phase[p] = phase[q] => map[p] = map[q]

\* ... or are writing the checkpoints of their jobs and in a migration.
Saving ==
  /\ In({"open", "save", "rep", "collective"}) /\ LatestMap /\ TimeKnown
  /\ file.ver >= 2
  /\ \E p \in Proc : phase[p] \in {"open", "save", "rep"}
  /\ \A p \in Proc :
        /\ phase[p] \in {"open", "save"} => Master(p)
        /\ phase[p] = "open" => ckpt[JobOf(p)].ver < file.ver
        /\ phase[p] = "save" => ckpt[JobOf(p)] = Torn
        /\ phase[p] \in {"rep", "collective"} /\ Master(p) =>
              ckpt[JobOf(p)] = Saved(pos[p], map[p])
        /\ transit[p] = Role(file.ver, p)

Running ==
  /\ ckpt_restore = {} /\ SamePos
  /\ \/ Calling
     \/ Polling /\ CkptsBefore(file.ver)
     \/ Reading /\ CkptsBefore(file.ver)
     \/ Saving

Together == Booting \/ Looking \/ Waiting \/ Restoring \/ Running

\* While nobody writes a checkpoint the files of all jobs agree, and whenever
\* they agree they are of the call cut.
CkptsAgree ==
  /\ (\A p \in Proc : phase[p] \notin {"open", "save"}) => Whole
  /\ Whole => \A j \in Job : IF ckpt[j] = None THEN cut = NoCall
                             ELSE ckpt[j].pos = cut
  /\ CkptsBefore(file.ver + 1)

StageInv == Together /\ CkptsAgree

\* Everybody is in the job its map gives it, whether its line was marked or not.
JobKnown == \A p \in Proc : phase[p] # "init" => job_id[p] = JobOf(p)

\* The stage by the phase of any of the processes.
LEMMA StageByPhase ==
  ASSUME StageInv, NEW p \in Proc
  PROVE  /\ phase[p] \in {"init", "comms"} => Booting
         /\ phase[p] \in {"stat", "info"} => Looking
         /\ phase[p] = "barrier" => Waiting
         /\ phase[p] = "app" => 
               Running /\ (Calling \/ (Polling /\ CkptsBefore(file.ver)))
         /\ phase[p] = "allreduce" =>
               Restoring \/ (Running /\ Polling /\ CkptsBefore(file.ver))
         /\ phase[p] = "parse" => Running /\ Reading /\ CkptsBefore(file.ver)
         /\ phase[p] = "split" =>
               Restoring \/ (Running /\ Reading /\ CkptsBefore(file.ver))
         /\ phase[p] \in {"open", "save", "rep"} => Running /\ Saving
         /\ phase[p] = "restore" => Restoring
         /\ phase[p] = "collective" => Restoring \/ (Running /\ (Calling \/ Saving))
         /\ phase[p] # "crashed"
<1>1. /\ Booting => phase[p] \in {"init", "comms"}
      /\ Looking => phase[p] \in {"stat", "info"}
      /\ Waiting => phase[p] = "barrier"
      /\ Restoring => phase[p] \in {"allreduce", "split", "restore", "collective"}
  BY DEF Booting, Looking, Waiting, Restoring, In
<1>2. /\ Calling => phase[p] \in {"app", "collective"}
      /\ Polling => phase[p] \in {"app", "allreduce"}
      /\ Reading => phase[p] \in {"parse", "split"}
      /\ Saving => phase[p] \in {"open", "save", "rep", "collective"}
  BY DEF Calling, Polling, Reading, Saving, In
<1> QED BY <1>1, <1>2 DEF StageInv, Together, Running

\* The checkpoint files agree as before if nobody touches them.
LEMMA CkptsKept ==
  ASSUME CkptsAgree, UNCHANGED <<ckpt, cut, file>>,
         \A p \in Proc : phase[p] \in {"open", "save"} => phase'[p] \in {"open", "save"}
  PROVE  CkptsAgree'
  BY DEF CkptsAgree, Whole, CkptsBefore

\* The jobs of the files that are read and written.
LEMMA JobOfType ==
  ASSUME TypeInv, NEW p \in Proc, phase[p] # "init"
  PROVE  JobOf(p) \in Job /\ map[p] \in 1..MaxVer
  BY JobInType DEF TypeInv, TypeOK, JobOf

LEMMA CkptVer ==
  ASSUME TypeInv
  PROVE  \A j \in Job : ckpt[j].ver \in Nat /\ ckpt[j].pos \in 0..(NCalls - 1)
<1>1. \A c \in CkptType : c.ver \in Nat /\ c.pos \in 0..(NCalls - 1)
  BY MapNatural DEF CkptType, None, Torn, Saved
<1>2. \A j \in Job : ckpt[j] \in CkptType
  BY DEF TypeInv, TypeOK, CkptType
<1> QED BY <1>1, <1>2

FullInv == Undisturbed /\ TypeInv /\ StageInv /\ JobKnown

\* The job of a checkpoint file.
LEMMA JobIs ==
  ASSUME FullInv, NEW p \in Proc, phase[p] # "init"
  PROVE  job_id[p] = JobOf(p) /\ JobOf(p) \in Job
  BY JobOfType DEF FullInv, JobKnown

-----------------------------------------------------------------------------
(* The steps of MPI_Init.                                                  *)

LEMMA StageInit == Init => StageInv
<1> SUFFICES ASSUME Init PROVE StageInv
  OBVIOUS
<1>1. Booting
  BY MapsAssumption DEF Init, Booting, In, AtStart
<1>2. CkptsAgree
  BY DEF Init, CkptsAgree, Whole, CkptsBefore, None, Torn
<1> QED BY <1>1, <1>2 DEF StageInv, Together

LEMMA Stage_init_node ==
  ASSUME FullInv, NEW p \in Proc, init_node(p) PROVE StageInv'
<1>1. Booting /\ CkptsAgree
  BY StageByPhase DEF FullInv, StageInv, init_node
<1>2. phase \in [Proc -> Phases] /\ map \in [Proc -> 0..MaxVer]
  BY DEF FullInv, TypeInv, TypeOK
<1>3. Booting'
  BY <1>1, <1>2 DEF Booting, init_node, To, In, AtStart
<1>4. CkptsAgree'
  BY <1>1, <1>2, CkptsKept DEF init_node, To
<1> QED BY <1>3, <1>4 DEF StageInv, Together

\* In MPI_Init everybody gets a job.
LEMMA AllHaveJobs ==
  ASSUME FullInv, InitComms PROVE phase' = [q \in Proc |-> "stat"]
<1>1. \A q \in Proc : phase[q] = "comms"
  BY DEF InitComms, All
<1>2. \A q \in Proc : job_id[q] \in Job
  BY <1>1, JobIs
<1>3. NoJob \notin Job
  BY MapFileAssumption
<1>4. ~\E q \in Proc : job_id[q] = NoJob
  BY ONLY <1>2, <1>3
<1> QED BY <1>4 DEF InitComms

LEMMA Stage_InitComms ==
  ASSUME FullInv, InitComms PROVE StageInv'
<1>1. PICK p \in Proc : phase[p] = "comms"
  BY MapFileAssumption DEF InitComms, All
<1>2. Booting /\ CkptsAgree
  BY <1>1, StageByPhase DEF FullInv, StageInv
<1>3. phase' = [q \in Proc |-> "stat"]
  BY AllHaveJobs
<1>4. Looking'
  BY <1>2, <1>3 DEF Booting, Looking, InitComms, All, In, AtStart, LatestMap,
              does_ckpt_file_exists
<1>5. CkptsAgree'
  BY <1>2, CkptsKept DEF InitComms, All
<1> QED BY <1>4, <1>5 DEF StageInv, Together

LEMMA Stage_set_last_file_update ==
  ASSUME FullInv, NEW p \in Proc, set_last_file_update(p) PROVE StageInv'
<1>1. Looking /\ CkptsAgree
  BY StageByPhase DEF FullInv, StageInv, set_last_file_update
<1>2. phase \in [Proc -> Phases] /\ last_file_update \in [Proc -> Nat]
  BY DEF FullInv, TypeInv, TypeOK
<1>3. \A q \in Proc : does_ckpt_file_exists(q)' = does_ckpt_file_exists(q)
  BY DEF set_last_file_update, does_ckpt_file_exists
<1>4. Looking'
  BY <1>1, <1>2, <1>3 DEF Looking, set_last_file_update, To, In, AtStart, LatestMap
<1>5. CkptsAgree'
  BY <1>1, <1>2, CkptsKept DEF set_last_file_update, To
<1> QED BY <1>4, <1>5 DEF StageInv, Together

\* Either all processes have found a checkpoint or none has.
LEMMA Stage_save_rep_and_stack_info ==
  ASSUME FullInv, save_rep_and_stack_info PROVE StageInv'
<1>1. PICK p \in Proc : phase[p] = "info"
  BY MapFileAssumption DEF save_rep_and_stack_info, All
<1>2. Looking /\ CkptsAgree
  BY <1>1, StageByPhase DEF FullInv, StageInv
<1>3. \A j, k \in Job : ckpt[j] = ckpt[k]
  BY <1>2 DEF CkptsAgree, Looking, In, Whole
<1>4. \A q \in Proc : phase[q] = "info" /\ job_id[q] \in Job
  <2>1. \A q \in Proc : phase[q] = "info"
    BY DEF save_rep_and_stack_info, All
  <2> QED BY <2>1, JobIs
<1>5. CkptsAgree'
  BY <1>2, <1>4, CkptsKept DEF save_rep_and_stack_info
<1>6. ckpt_restore \subseteq Proc
  BY DEF FullInv, TypeInv, TypeOK
<1>7. CASE \A j \in Job : ckpt[j] = None
  <2>1. ckpt_restore = {}
    BY <1>2, <1>4, <1>6, <1>7 DEF Looking, does_ckpt_file_exists
  <2>2. Waiting'
    BY <1>2, <1>4, <1>7, <2>1 DEF Looking, Waiting, save_rep_and_stack_info, In,
       AtStart, LatestMap, TimeKnown
  <2> QED BY <1>5, <2>2 DEF StageInv, Together
<1>8. CASE \A j \in Job : ckpt[j] # None
  <2>1. ckpt_restore = Proc
    BY <1>2, <1>4, <1>6, <1>8 DEF Looking, does_ckpt_file_exists
  <2>2. Restoring'
    BY <1>1, <1>2, <1>4, <1>8, <2>1 DEF Looking, Restoring, save_rep_and_stack_info, In,
       AtStart, LatestMap, TimeKnown
  <2> QED BY <1>5, <2>2 DEF StageInv, Together
<1> QED BY <1>3, <1>7, <1>8

LEMMA Stage_PMPI_Barrier ==
  ASSUME FullInv, PMPI_Barrier PROVE StageInv'
<1>1. PICK p \in Proc : phase[p] = "barrier"
  BY MapFileAssumption DEF PMPI_Barrier, All
<1>2. Waiting /\ CkptsAgree
  BY <1>1, StageByPhase DEF FullInv, StageInv
<1>3. file.ver \in Nat /\ file.mtime \in Nat
  BY DEF FullInv, TypeInv, TypeOK
<1>4. Calling'
  BY <1>2, <1>3 DEF Waiting, Calling, PMPI_Barrier, In, LatestMap, SameMap, TimeKnown,
     CkptsBefore, None
<1>5. CkptsAgree'
  BY <1>2, CkptsKept DEF PMPI_Barrier, All
<1>6. (ckpt_restore = {} /\ SamePos)'
  BY <1>2 DEF Waiting, AtStart, SamePos, PMPI_Barrier
<1> QED BY <1>4, <1>5, <1>6 DEF StageInv, Together, Running

-----------------------------------------------------------------------------
(* The steps of a poll.                                                    *)

\* Whether the first process that looks finds a new map decides it for all.
LEMMA Stage_is_file_modified ==
  ASSUME FullInv, NEW p \in Proc, is_file_modified(p) PROVE StageInv'
<1>1. Running /\ CkptsAgree /\ (Calling \/ (Polling /\ CkptsBefore(file.ver)))
  BY StageByPhase DEF FullInv, StageInv, is_file_modified
<1>2. /\ phase \in [Proc -> Phases] /\ last_file_update \in [Proc -> Nat]
      /\ file.ver \in Nat /\ file.mtime \in Nat /\ map \in [Proc -> Nat]
      /\ ckpt_restore = {} /\ phase[p] = "app"
  BY <1>1 DEF FullInv, TypeInv, TypeOK, Running, is_file_modified
<1>3. CkptsAgree'
  BY <1>1, <1>2, CkptsKept DEF is_file_modified, To
<1>4. (ckpt_restore = {} /\ SamePos)' /\ SamePos
  BY <1>1 DEF Running, SamePos, is_file_modified
<1>5. UNCHANGED <<file, map, ckpt, ckpt_restore>>
  BY DEF is_file_modified
<1>6. CASE last_file_update[p] < file.mtime
  <2>1. /\ phase' = [phase EXCEPT ![p] = "allreduce"]
        /\ last_file_update' = [last_file_update EXCEPT ![p] = file.mtime]
    BY <1>2, <1>6 DEF is_file_modified, Modified, To
  <2>2. CASE Calling
    <3>1. \A q \in Proc : phase[q] = "app" /\ last_file_update[q] < file.mtime
      BY <1>2, <1>6, <2>2 DEF Calling, In
    <3>2. /\ CkptsBefore(file.ver) /\ SameMap
          /\ \A q \in Proc : file.ver = map[q] + 1 /\ CkptsBefore(map[q] + 1)
      <4>1. \A q \in Proc : file.ver = map[q] + 1 /\ CkptsBefore(map[q] + 1)
        BY <1>2, <2>2, <3>1 DEF Calling
      <4>2. \A j \in Job : ckpt[j].ver \in Nat
        BY CkptVer DEF FullInv
      <4> QED BY <1>2, <2>2, <4>1, <4>2 DEF Calling, SameMap, CkptsBefore
    <3>3. Polling'
      BY <1>2, <1>5, <2>1, <3>1, <3>2 DEF Polling, In, SameMap, CkptsBefore
    <3> QED BY <1>3, <1>4, <1>5, <3>2, <3>3 DEF StageInv, Together, Running, CkptsBefore
  <2>3. CASE Polling /\ CkptsBefore(file.ver)
    <3>1. Polling'
      BY <1>2, <1>5, <2>1, <2>3 DEF Polling, In, SameMap, CkptsBefore
    <3> QED BY <1>3, <1>4, <1>5, <2>3, <3>1 DEF StageInv, Together, Running, CkptsBefore
  <2> QED BY <1>1, <2>2, <2>3
<1>7. CASE ~(last_file_update[p] < file.mtime)
  <2>1. phase' = [phase EXCEPT ![p] = "collective"] /\ UNCHANGED last_file_update
    BY <1>2, <1>7 DEF is_file_modified, Modified, To
  <2>2. Calling
    BY <1>1, <1>2, <1>7 DEF Polling
  <2>3. last_file_update[p] = file.mtime
    BY <1>2, <1>7, <2>2 DEF Calling
  <2>4. \A q \in Proc : last_file_update[q] = file.mtime
    BY <2>2, <2>3 DEF Calling
  <2>5. Calling'
    BY <1>2, <1>5, <2>1, <2>2, <2>4 DEF Calling, In, SameMap, CkptsBefore
  <2> QED BY <1>3, <1>4, <2>5 DEF StageInv, Together, Running
<1> QED BY <1>6, <1>7

LEMMA Stage_PMPI_Allreduce ==
  ASSUME FullInv, PMPI_Allreduce PROVE StageInv'
<1>1. PICK p \in Proc : phase[p] = "allreduce"
  BY MapFileAssumption DEF PMPI_Allreduce, All
<1>2. CkptsAgree /\ (Restoring \/ (Running /\ Polling /\ CkptsBefore(file.ver)))
  BY <1>1, StageByPhase DEF FullInv, StageInv
<1>3. /\ phase \in [Proc -> Phases] /\ last_file_update \in [Proc -> Nat]
      /\ file.ver \in Nat /\ file.mtime \in Nat /\ map \in [Proc -> Nat]
      /\ file.mtime >= 1 /\ \A q \in Proc : phase[q] = "allreduce"
  BY DEF FullInv, TypeInv, TypeOK, PMPI_Allreduce, All
<1>4. UNCHANGED <<file, map, pos, ckpt, ckpt_restore, cut>>
  BY DEF PMPI_Allreduce
<1>5. CkptsAgree'
  BY <1>2, <1>3, <1>4, CkptsKept
<1>6. CASE Restoring
  <2>1. ckpt_restore = Proc
    BY <1>1, <1>6 DEF Restoring, In
  <2>2. /\ phase' = [q \in Proc |-> "split"] /\ UNCHANGED last_file_update
    BY <1>1, <2>1 DEF PMPI_Allreduce, RequestPending
  <2>3. In({"split"})' /\ AtStart'
    BY <1>1, <1>4, <1>6, <2>2 DEF Restoring, In, AtStart
  <2>4. Restoring'
    BY <1>4, <1>6, <2>1, <2>2, <2>3 DEF Restoring, LatestMap, TimeKnown
  <2> QED BY <1>5, <2>4 DEF StageInv, Together
<1>7. CASE Running /\ Polling /\ CkptsBefore(file.ver)
  <2>1. ckpt_restore = {} /\ SamePos /\ (ckpt_restore = {} /\ SamePos)'
    BY <1>4, <1>7 DEF Running, SamePos
  <2>2. \A q \in Proc : last_file_update[q] = file.mtime
    BY <1>3, <1>7 DEF Polling
  <2>3. CASE Postpone /\ phase' = [q \in Proc |-> "collective"]
    <3>1. \A q \in Proc : last_file_update'[q] = file.mtime - 1
      BY <2>2, <2>3 DEF Postpone
    <3>2. \A q \in Proc : file.ver = map[q] + 1 /\ CkptsBefore(map[q] + 1)
      BY <1>7, <2>3 DEF Polling
    <3>3. Calling'
      BY <1>3, <1>4, <1>7, <2>3, <3>1, <3>2 DEF Calling, Polling, In, SameMap, CkptsBefore
    <3> QED BY <1>5, <2>1, <3>3 DEF StageInv, Together, Running
  <2>4. CASE UNCHANGED last_file_update /\ phase' = [q \in Proc |-> "parse"]
    <3>1. file.ver >= 2
      BY <1>1, <1>3, <1>7 DEF Polling, FullInv, TypeInv
    <3>2. Reading'
      BY <1>3, <1>4, <1>7, <2>2, <2>4, <3>1 DEF Reading, Polling, In, SameMap, TimeKnown
    <3> QED BY <1>4, <1>5, <1>7, <2>1, <3>2 DEF StageInv, Together, Running, CkptsBefore
  <2> QED BY <2>1, <2>3, <2>4 DEF PMPI_Allreduce
<1> QED BY <1>2, <1>6, <1>7

LEMMA Stage_parse_map_file ==
  ASSUME FullInv, NEW p \in Proc, parse_map_file(p) PROVE StageInv'
<1>1. CkptsAgree /\ Running /\ Reading /\ CkptsBefore(file.ver)
  BY StageByPhase DEF FullInv, StageInv, parse_map_file
<1>2. /\ phase \in [Proc -> Phases] /\ map \in [Proc -> Nat] /\ file.ver \in Nat
  BY DEF FullInv, TypeInv, TypeOK
<1>3. CkptsAgree'
  BY <1>1, <1>2, CkptsKept DEF parse_map_file, To
<1>4. (ckpt_restore = {} /\ SamePos)'
  BY <1>1 DEF Running, SamePos, parse_map_file
<1>5. Reading'
  <2>1. file.ver = map[p] + 1 /\ file.ver - 1 = map[p] /\ phase[p] = "parse"
    BY <1>1, <1>2 DEF Reading, parse_map_file
  <2>2. Transit(file.ver, p) = Role(file.ver, p)
    <3>1. job_id[p] = JobIn(file.ver - 1, p)
      BY <2>1, JobIs DEF JobOf
    <3> QED BY <3>1 DEF Transit, Role
  <2>3. transit \in [Proc -> {"none", "sender", "receiver"}]
    BY DEF FullInv, TypeInv, TypeOK
  <2>4. /\ UNCHANGED <<file, last_file_update>> /\ phase' = [phase EXCEPT ![p] = "split"]
        /\ map' = [map EXCEPT ![p] = file.ver]
        /\ transit' = [transit EXCEPT ![p] = Role(file.ver, p)]
    BY <2>2 DEF parse_map_file, To
  <2>5. \A q \in Proc : Role(file.ver, q)' = Role(file.ver, q)
    BY <2>4
  <2> QED BY <1>1, <1>2, <2>1, <2>3, <2>4, <2>5 DEF Reading, In, TimeKnown
<1>6. CkptsBefore(file.ver)'
  BY <1>1 DEF CkptsBefore, parse_map_file
<1> QED BY <1>3, <1>4, <1>5, <1>6 DEF StageInv, Together, Running

LEMMA Stage_update_comms ==
  ASSUME FullInv, update_comms PROVE StageInv'
<1>1. PICK p \in Proc : phase[p] = "split"
  BY MapFileAssumption DEF update_comms, All
<1>2. CkptsAgree /\ (Restoring \/ (Running /\ Reading /\ CkptsBefore(file.ver)))
  BY <1>1, StageByPhase DEF FullInv, StageInv
<1>3. /\ file.ver \in 1..MaxVer /\ \A q \in Proc : phase[q] = "split"
      /\ \A q \in Proc : JobOf(q) \in Job
  BY JobOfType DEF FullInv, TypeInv, TypeOK, update_comms, All
<1>4. UNCHANGED <<file, map, transit, pos, last_file_update, ckpt, ckpt_restore, cut>>
  BY DEF update_comms
<1>5. CkptsAgree'
  BY <1>2, <1>3, <1>4, CkptsKept
<1>6. CASE Restoring
  <2>1. ckpt_restore = Proc
    BY <1>1, <1>6 DEF Restoring, In
  <2>2. phase' = [q \in Proc |-> "restore"]
    BY <2>1 DEF update_comms
  <2>3. Restoring'
    BY <1>4, <1>6, <2>1, <2>2 DEF Restoring, In, AtStart, LatestMap, TimeKnown
  <2> QED BY <1>5, <2>3 DEF StageInv, Together
<1>7. CASE Running /\ Reading /\ CkptsBefore(file.ver)
  <2>1. ckpt_restore = {} /\ SamePos /\ (ckpt_restore = {} /\ SamePos)'
    BY <1>4, <1>7 DEF Running, SamePos
  <2>2. phase' = [q \in Proc |-> IF Master(q) THEN "open" ELSE RepOrCall(q)]
        /\ \A q \in Proc : RepOrCall(q) \in {"rep", "collective"}
    BY <2>1 DEF update_comms, RepOrCall
  <2>3. LatestMap /\ TimeKnown
    BY <1>3, <1>7 DEF Reading, LatestMap
  <2>4. \E q \in Proc : Master(q)
    <3> DEFINE h == Head(RankList[file.ver][JobOf(p)])
    <3>1. h \in Proc /\ JobIn(file.ver, h) = JobOf(p)
      BY <1>3, MasterOfJob
    <3>2. Master(h)
      BY <2>3, <3>1 DEF Master, JobOf, LatestMap
    <3> QED BY <3>1, <3>2
  <2>5. Saving'
    <3>2. file.ver >= 2 /\ \A q \in Proc : transit[q] = Role(file.ver, q)
      BY <1>3, <1>7 DEF Reading
    <3>3. (In({"open", "save", "rep", "collective"}) /\ LatestMap /\ TimeKnown)'
      BY <1>4, <2>2, <2>3 DEF In, LatestMap, TimeKnown
    <3>4. \E q \in Proc : phase'[q] \in {"open", "save", "rep"}
      BY <2>2, <2>4
    <3>5. \A q \in Proc : /\ phase'[q] \in {"open", "save"} => Master(q)
                          /\ phase'[q] # "save"
                          /\ phase'[q] \in {"rep", "collective"} => ~Master(q)
      BY <2>2
    <3>6. \A q \in Proc : ckpt[JobOf(q)].ver < file.ver
      BY <1>3, <1>7 DEF CkptsBefore
    <3>7. (file.ver >= 2)'
      BY <1>4, <3>2
    <3>8. ASSUME NEW q \in Proc
          PROVE  /\ phase'[q] \in {"open", "save"} => Master(q)'
                 /\ (phase[q] = "open" => ckpt[JobOf(q)].ver < file.ver)'
                 /\ (phase[q] = "save" => ckpt[JobOf(q)] = Torn)'
                 /\ (phase[q] \in {"rep", "collective"} /\ Master(q) =>
                       ckpt[JobOf(q)] = Saved(pos[q], map[q]))'
                 /\ (transit[q] = Role(file.ver, q))'
      <4>1. Master(q)' <=> Master(q)
        BY <1>4 DEF Master
      <4>2. (transit[q] = Role(file.ver, q))'
        BY <1>4, <3>2
      <4>3. (ckpt[JobOf(q)].ver < file.ver)'
        BY <1>4, <3>6 DEF JobOf
      <4>4. /\ phase'[q] \in {"open", "save"} => Master(q)
            /\ phase'[q] # "save" /\ (phase'[q] \in {"rep", "collective"} => ~Master(q))
        BY <3>5
      <4> QED BY <4>1, <4>2, <4>3, <4>4
    <3> QED BY <3>3, <3>4, <3>7, <3>8 DEF Saving
  <2> QED BY <1>5, <2>1, <2>5 DEF StageInv, Together, Running
<1> QED BY <1>2, <1>6, <1>7

-----------------------------------------------------------------------------
(* The checkpoints.                                                        *)

\* Two masters are of two jobs.
LEMMA MastersDiffer ==
  ASSUME LatestMap, NEW p \in Proc, NEW q \in Proc,
         Master(p), Master(q), JobOf(p) = JobOf(q)
  PROVE  p = q
  BY DEF Master, LatestMap, JobOf

LEMMA Stage_OpenCkpt ==
  ASSUME FullInv, NEW p \in Proc, OpenCkpt(p) PROVE StageInv'
<1>1. CkptsAgree /\ Running /\ Saving /\ phase[p] = "open"
  BY StageByPhase DEF FullInv, StageInv, OpenCkpt
<1>2. /\ phase \in [Proc -> Phases] /\ ckpt \in [Job -> CkptType] /\ file.ver \in Nat
      /\ JobOf(p) \in Job
  BY <1>1, JobOfType DEF FullInv, TypeInv, TypeOK, CkptType
<1>3. /\ UNCHANGED <<file, map, transit, pos, last_file_update, ckpt_restore, cut>>
      /\ phase' = [phase EXCEPT ![p] = "save"]
      /\ ckpt' = [ckpt EXCEPT ![JobOf(p)] = Torn]
  <2>1. job_id[p] = JobOf(p)
    BY <1>1, JobIs
  <2> QED BY <2>1 DEF OpenCkpt, To
<1>4. \A q \in Proc : /\ Master(q)' = Master(q) /\ JobOf(q)' = JobOf(q)
                      /\ Role(file.ver, q)' = Role(file.ver, q)
  BY <1>3 DEF Master, JobOf
<1>5. \A q \in Proc : JobOf(q) = JobOf(p) /\ Master(q) => q = p
  BY <1>1, MastersDiffer DEF Saving
<1>6. Saving'
  <2>1. \A q \in Proc : q # p /\ Master(q) => ckpt'[JobOf(q)] = ckpt[JobOf(q)]
    BY <1>2, <1>3, <1>5
  <2>2. ckpt'[JobOf(p)] = Torn
    BY <1>2, <1>3
  <2>3. (In({"open", "save", "rep", "collective"}) /\ LatestMap /\ TimeKnown)'
    BY <1>1, <1>2, <1>3 DEF Saving, In, LatestMap, TimeKnown
  <2>4. \E q \in Proc : phase'[q] \in {"open", "save", "rep"}
    BY <1>2, <1>3
  <2> QED BY <1>1, <1>2, <1>3, <1>4, <2>1, <2>2, <2>3, <2>4 DEF Saving
<1>7. CkptsAgree'
  <2>1. ~Whole'
    BY <1>2, <1>3 DEF Whole
  <2>2. phase'[p] = "save"
    BY <1>2, <1>3
  <2>3. CkptsBefore(file.ver + 1)'
    BY <1>1, <1>2, <1>3 DEF CkptsAgree, CkptsBefore, Torn
  <2> QED BY <2>1, <2>2, <2>3 DEF CkptsAgree
<1> QED BY <1>1, <1>3, <1>6, <1>7 DEF StageInv, Together, Running, SamePos

\* The checkpoint is complete with the last of its files and not before: the
\* files of the masters that have not written are torn or of an older map.
LEMMA LastCkpt ==
  ASSUME FullInv, NEW p \in Proc, init_ckpt(p)
  PROVE  IF \A q \in Proc \ {p} : phase[q] \notin {"open", "save"}
         THEN cut' = pos[p] /\ \A j \in Job : ckpt'[j] = Saved(pos[p], map[p])
         ELSE cut' = cut
<1>1. Running /\ Saving /\ phase[p] = "save" /\ SamePos /\ LatestMap
  BY StageByPhase DEF FullInv, StageInv, init_ckpt, Running, Saving
<1>2. /\ ckpt \in [Job -> CkptType] /\ file.ver \in 1..MaxVer
      /\ \A q \in Proc : phase[q] # "init" => JobOf(q) \in Job
      /\ JobOf(p) \in Job
  BY <1>1, JobOfType DEF FullInv, TypeInv, TypeOK, CkptType
<1>3. ckpt' = [ckpt EXCEPT ![JobOf(p)] = Saved(pos[p], map[p])]
  <2>1. job_id[p] = JobOf(p)
    BY <1>1, JobIs
  <2> QED BY <2>1 DEF init_ckpt
<1>4. cut' = IF \A j, k \in Job : ckpt'[j] = ckpt'[k] THEN pos[p] ELSE cut
  BY DEF init_ckpt
<1>5. CASE \A q \in Proc \ {p} : phase[q] \notin {"open", "save"}
  <2>1. ASSUME NEW j \in Job PROVE ckpt'[j] = Saved(pos[p], map[p])
    <3> DEFINE h == Head(RankList[file.ver][j])
    <3>1. h \in Proc /\ JobIn(file.ver, h) = j
      BY <1>2, MasterOfJob
    <3>2. Master(h) /\ JobOf(h) = j
      BY <1>1, <3>1 DEF Master, JobOf, LatestMap
    <3> HIDE DEF h
    <3>3. CASE h = p
      BY <1>2, <1>3, <3>2, <3>3
    <3>4. CASE h # p
      <4>1. JobOf(p) # j
        BY <1>1, <3>1, <3>2, <3>4, MastersDiffer DEF Saving
      <4>2. phase[h] \in {"rep", "collective"}
        BY <1>1, <1>5, <3>1, <3>4 DEF Saving, In
      <4>3. ckpt[j] = Saved(pos[h], map[h])
        BY <1>1, <3>1, <3>2, <4>2 DEF Saving
      <4> QED BY <1>1, <1>2, <1>3, <3>1, <4>1, <4>3 DEF SamePos, LatestMap
    <3> QED BY <3>3, <3>4
  <2> QED BY <1>4, <1>5, <2>1
<1>6. ASSUME NEW q \in Proc \ {p}, phase[q] \in {"open", "save"} PROVE cut' = cut
  <2>1. JobOf(q) \in Job /\ JobOf(q) # JobOf(p)
    BY <1>1, <1>2, <1>6, MastersDiffer DEF Saving
  <2>2. ckpt'[JobOf(q)] = ckpt[JobOf(q)] /\ ckpt'[JobOf(p)] = Saved(pos[p], map[p])
    BY <1>2, <1>3, <2>1
  <2>3. ckpt[JobOf(q)] = Torn \/ ckpt[JobOf(q)].ver < file.ver
    BY <1>1, <1>6 DEF Saving
  <2>4. Saved(pos[p], map[p]).ver = file.ver /\ Saved(pos[p], map[p]) # Torn
    BY <1>1 DEF LatestMap, Saved, Torn
  <2>5. ckpt'[JobOf(q)] # ckpt'[JobOf(p)]
    BY <1>2, <2>2, <2>3, <2>4
  <2> QED BY <1>2, <1>4, <2>1, <2>5
<1> QED BY <1>5, <1>6

LEMMA Stage_init_ckpt ==
  ASSUME FullInv, NEW p \in Proc, init_ckpt(p) PROVE StageInv'
<1>1. CkptsAgree /\ Running /\ Saving /\ phase[p] = "save"
  BY StageByPhase DEF FullInv, StageInv, init_ckpt
<1>2. /\ phase \in [Proc -> Phases] /\ ckpt \in [Job -> CkptType]
      /\ file.ver \in Nat /\ file.mtime \in Nat /\ JobOf(p) \in Job
  BY <1>1, JobOfType DEF FullInv, TypeInv, TypeOK, CkptType
<1>3. /\ UNCHANGED <<file, map, transit, pos, last_file_update, ckpt_restore>>
      /\ phase' = [phase EXCEPT ![p] = RepOrCall(p)]
      /\ RepOrCall(p) \in {"rep", "collective"}
      /\ ckpt' = [ckpt EXCEPT ![JobOf(p)] = Saved(pos[p], map[p])]
  <2>1. job_id[p] = JobOf(p)
    BY <1>1, JobIs
  <2> QED BY <2>1 DEF init_ckpt, To, RepOrCall
<1>4. CkptsBefore(file.ver + 1)'
  <2>1. Saved(pos[p], map[p]).ver = file.ver
    BY <1>1 DEF Saving, LatestMap, Saved
  <2> QED BY <1>1, <1>2, <1>3, <2>1 DEF CkptsAgree, CkptsBefore
<1>5. ckpt'[JobOf(p)] = Saved(pos[p], map[p]) /\ Saved(pos[p], map[p]).pos = pos[p]
  BY <1>2, <1>3 DEF Saved
<1>6. Saved(pos[p], map[p]) # None /\ Saved(pos[p], map[p]) # Torn
  BY DEF Saved, None, Torn
<1>7. CkptsAgree'
  <2>1. CASE \A q \in Proc \ {p} : phase[q] \notin {"open", "save"}
    <3>1. cut' = pos[p] /\ \A j \in Job : ckpt'[j] = Saved(pos[p], map[p])
      BY <2>1, LastCkpt
    <3> QED BY <1>4, <1>5, <1>6, <3>1 DEF CkptsAgree, Whole
  <2>2. ASSUME NEW q \in Proc \ {p}, phase[q] \in {"open", "save"} PROVE CkptsAgree'
    <3>1. phase'[q] \in {"open", "save"}
      BY <1>2, <1>3, <2>2
    <3>2. Whole' => \A j \in Job : ckpt'[j] = Saved(pos[p], map[p])
      BY <1>2, <1>5 DEF Whole
    <3>3. Whole' => cut' = pos[p]
      BY DEF init_ckpt, Whole
    <3> QED BY <1>4, <1>5, <1>6, <3>1, <3>2, <3>3 DEF CkptsAgree
  <2> QED BY <2>1, <2>2
<1>8. CASE \A q \in Proc : phase'[q] \notin {"open", "save", "rep"}
  <2>1. \A q \in Proc : phase'[q] = "collective"
    BY <1>1, <1>2, <1>3, <1>8 DEF Saving, In
  <2>2. Calling'
    BY <1>1, <1>2, <1>3, <1>4, <2>1
       DEF Calling, Saving, In, SameMap, LatestMap, TimeKnown, CkptsBefore
  <2> QED BY <1>1, <1>3, <1>7, <2>2 DEF StageInv, Together, Running, SamePos
<1>9. CASE \E q \in Proc : phase'[q] \in {"open", "save", "rep"}
  <2>1. \A r \in Proc : /\ Master(r)' = Master(r) /\ JobOf(r)' = JobOf(r)
                        /\ Role(file.ver, r)' = Role(file.ver, r)
    BY <1>3 DEF Master, JobOf
  <2>2. \A r \in Proc : r # p /\ Master(r) => ckpt'[JobOf(r)] = ckpt[JobOf(r)]
    BY <1>1, <1>2, <1>3, MastersDiffer DEF Saving
  <2>3. (In({"open", "save", "rep", "collective"}) /\ LatestMap /\ TimeKnown)'
    BY <1>1, <1>2, <1>3 DEF Saving, In, LatestMap, TimeKnown
  <2>4. Saving'
    BY <1>1, <1>2, <1>3, <1>5, <1>9, <2>1, <2>2, <2>3 DEF Saving
  <2> QED BY <1>1, <1>3, <1>7, <2>4 DEF StageInv, Together, Running, SamePos
<1> QED BY <1>8, <1>9

\* Every migration has its sender, and everybody in it stays in the call.
LEMMA Migration ==
  ASSUME FullInv, NEW j \in Job, init_rep(j)
  PROVE  /\ Running /\ Saving /\ pos' = pos
         /\ \A p \in Proc : \/ phase'[p] = phase[p]
                             \/ (phase[p] = "rep" /\ phase'[p] = "collective")
<1>1. PICK p \in Proc : p \in MigrationComm(j) /\ phase[p] = "rep"
  BY DEF init_rep, MigrationComm
<1>2. Running /\ Saving
  BY <1>1, StageByPhase DEF FullInv
<1>3. PICK v \in 1..(MaxVer - 1) : v + 1 = file.ver
  <2>1. file.ver \in 1..MaxVer /\ file.ver >= 2 /\ MaxVer \in Nat
    BY <1>2, MapNatural DEF Saving, FullInv, TypeInv, TypeOK
  <2> QED BY <2>1
<1>4. \A q \in Proc : phase[q] # "init" /\ job_id[q] = JobIn(file.ver, q)
                      /\ transit[q] = Role(file.ver, q)
  <2>1. \A q \in Proc : phase[q] # "init" /\ map[q] = file.ver /\ transit[q] = Role(file.ver, q)
    BY <1>2 DEF Saving, In, LatestMap
  <2> QED BY <2>1, JobIs DEF JobOf
<1>5. \E s \in MigrationComm(j) : transit[s] = "sender"
  <2>1. CASE transit[p] = "sender"
    BY <1>1, <2>1
  <2>2. CASE transit[p] = "receiver"
    <3>1. PICK h \in Proc : /\ JobIn(v + 1, h) = JobIn(v + 1, p)
                            /\ Role(v + 1, h) = "sender"
      BY <1>3, <1>4, <2>2, HasSender
    <3>2. job_id[h] = j /\ transit[h] = "sender"
      BY <1>1, <1>3, <1>4, <3>1 DEF MigrationComm
    <3> QED BY <3>2 DEF MigrationComm
  <2>3. transit[p] \in {"none", "sender", "receiver"} /\ transit[p] # "none"
    BY <1>1 DEF FullInv, TypeInv, TypeOK, MigrationComm
  <2> QED BY <2>1, <2>2, <2>3
<1>6. PICK S : /\ S = {s \in MigrationComm(j) : transit[s] = "sender"}
               /\ S # {} /\ (CHOOSE s \in S : TRUE) \in Proc
  <2>1. PICK S : S = {s \in MigrationComm(j) : transit[s] = "sender"}
    OBVIOUS
  <2>2. S # {} /\ S \in SUBSET Proc
    BY <1>5, <2>1 DEF MigrationComm
  <2>3. (CHOOSE s \in S : TRUE) \in S
    BY <2>2
  <2> QED BY <2>1, <2>2, <2>3
<1>7. /\ phase' = [q \in Proc |-> IF q \in MigrationComm(j) THEN "collective" ELSE phase[q]]
      /\ pos' = [q \in Proc |-> IF q \in MigrationComm(j) THEN pos[CHOOSE s \in S : TRUE]
                                                         ELSE pos[q]]
  BY <1>6 DEF init_rep
<1>8. pos' = pos
  <2>1. PICK s \in Proc : s = CHOOSE t \in S : TRUE
    BY <1>6, Zenon
  <2>2. \A q \in Proc : pos[s] = pos[q]
    BY <1>2 DEF Running, SamePos
  <2>3. pos = [q \in Proc |-> pos[q]]
    BY DEF FullInv, TypeInv, TypeOK
  <2>4. pos' = [q \in Proc |-> IF q \in MigrationComm(j) THEN pos[s] ELSE pos[q]]
    BY <1>7, <2>1
  <2> QED BY ONLY <2>2, <2>3, <2>4
<1>9. \A q \in MigrationComm(j) : phase[q] = "rep"
  BY DEF init_rep
<1>10. \A q \in Proc : \/ phase'[q] = phase[q]
                       \/ (phase[q] = "rep" /\ phase'[q] = "collective")
  BY ONLY <1>7, <1>9
<1> QED BY ONLY <1>2, <1>8, <1>10

LEMMA Stage_init_rep ==
  ASSUME FullInv, NEW j \in Job, init_rep(j) PROVE StageInv'
<1>1. /\ Running /\ Saving /\ CkptsAgree /\ pos' = pos
      /\ \A p \in Proc : \/ phase'[p] = phase[p]
                          \/ (phase[p] = "rep" /\ phase'[p] = "collective")
      /\ file.ver \in Nat /\ file.mtime \in Nat
  <2>1. CkptsAgree /\ file.ver \in Nat /\ file.mtime \in Nat
    BY DEF FullInv, StageInv, TypeInv, TypeOK
  <2> QED BY <2>1, Migration
<1>2. UNCHANGED <<file, map, transit, last_file_update, ckpt_restore, ckpt, cut>>
  BY DEF init_rep
<1>3. CkptsAgree'
  BY <1>1, <1>2, CkptsKept
<1>4. CASE \A q \in Proc : phase'[q] \notin {"open", "save", "rep"}
  <2>1. \A q \in Proc : phase'[q] = "collective"
    BY <1>1, <1>4 DEF Saving, In
  <2>2. Calling'
    BY <1>1, <1>2, <2>1
       DEF Calling, Saving, In, SameMap, LatestMap, TimeKnown, CkptsAgree, CkptsBefore
  <2> QED BY <1>1, <1>2, <1>3, <2>2 DEF StageInv, Together, Running, SamePos
<1>5. CASE \E q \in Proc : phase'[q] \in {"open", "save", "rep"}
  <2>1. \A r \in Proc : /\ Master(r)' = Master(r) /\ JobOf(r)' = JobOf(r)
                        /\ Role(file.ver, r)' = Role(file.ver, r)
    BY <1>2 DEF Master, JobOf
  <2>2. (In({"open", "save", "rep", "collective"}) /\ LatestMap /\ TimeKnown)'
    BY <1>1, <1>2 DEF Saving, In, LatestMap, TimeKnown
  <2>3. Saving'
    BY <1>1, <1>2, <1>5, <2>1, <2>2 DEF Saving
  <2> QED BY <1>1, <1>2, <1>3, <2>3 DEF StageInv, Together, Running, SamePos
<1> QED BY <1>4, <1>5

\* Everybody restores the same checkpoint.
LEMMA Stage_init_ckpt_restore ==
  ASSUME FullInv, NEW p \in Proc, init_ckpt_restore(p) PROVE StageInv'
<1>1. CkptsAgree /\ Restoring /\ phase[p] = "restore"
  BY StageByPhase DEF FullInv, StageInv, init_ckpt_restore
<1>2. /\ phase \in [Proc -> Phases] /\ pos \in [Proc -> 0..(NCalls - 1)]
      /\ ckpt_restore \subseteq Proc /\ file.ver \in Nat /\ file.mtime \in Nat
      /\ job_id[p] \in Job
  BY <1>1, JobIs DEF FullInv, TypeInv, TypeOK
<1>3. /\ In({"restore", "collective"})
      /\ \A q \in Proc : /\ q \in ckpt_restore <=> phase[q] = "restore"
                         /\ phase[q] = "collective" => pos[q] = cut
  BY <1>1 DEF Restoring, In
<1>4. ckpt[job_id[p]] # Torn /\ ckpt[job_id[p]].pos = cut
  <2>1. Whole
    BY <1>1, <1>3 DEF CkptsAgree, In
  <2> QED BY <1>1, <1>2, <2>1 DEF CkptsAgree, Whole, Restoring
<1>5. /\ UNCHANGED <<file, map, last_file_update, ckpt, cut>>
      /\ pos' = [pos EXCEPT ![p] = cut]
      /\ phase' = [phase EXCEPT ![p] = "collective"]
      /\ ckpt_restore' = ckpt_restore \ {p}
  BY <1>4 DEF init_ckpt_restore, To
<1>6. CkptsAgree'
  BY <1>1, <1>2, <1>3, <1>5, CkptsKept DEF In
<1>7. CASE ckpt_restore' # {}
  <2>1. Restoring'
    BY <1>1, <1>2, <1>3, <1>5, <1>7 DEF Restoring, In, LatestMap, TimeKnown
  <2> QED BY <1>6, <2>1 DEF StageInv, Together
<1>8. CASE ckpt_restore' = {}
  <2>1. \A q \in Proc : phase'[q] = "collective" /\ pos'[q] = cut
    BY <1>2, <1>3, <1>5, <1>8 DEF In
  <2>2. Calling'
    BY <1>1, <1>2, <1>5, <2>1
       DEF Calling, Restoring, In, SameMap, LatestMap, TimeKnown, CkptsAgree, CkptsBefore
  <2> QED BY <1>6, <1>8, <2>1, <2>2 DEF StageInv, Together, Running, SamePos
<1> QED BY <1>7, <1>8

-----------------------------------------------------------------------------
(* The call itself, the manager and the end of the program.                *)

LEMMA Stage_Collective ==
  ASSUME FullInv, Collective PROVE StageInv'
<1>1. PICK p \in Proc : phase[p] = "collective"
  BY MapFileAssumption DEF Collective, All
<1>2. \A q \in Proc : phase[q] = "collective"
  BY DEF Collective, All
<1>3. CkptsAgree /\ Running /\ Calling
  <2>1. ~Saving
    BY <1>2 DEF Saving
  <2>2. ~Restoring
    <3>1. ckpt_restore \subseteq Proc
      BY DEF FullInv, TypeInv, TypeOK
    <3> QED BY <1>1, <1>2, <3>1 DEF Restoring, In
  <2> QED BY <1>1, <2>1, <2>2, StageByPhase DEF FullInv, StageInv
<1>4. CkptsAgree'
  BY <1>2, <1>3, CkptsKept DEF Collective
<1>5. Calling'
  BY <1>2, <1>3 DEF Calling, Collective, In, SameMap, CkptsBefore
<1>6. (ckpt_restore = {} /\ SamePos)'
  BY <1>3 DEF Running, SamePos, Collective
<1> QED BY <1>4, <1>5, <1>6 DEF StageInv, Together, Running

LEMMA Stage_WriteToFile ==
  ASSUME FullInv, WriteToFile PROVE StageInv'
<1>1. PICK ph \in {"app", "collective"} : \A p \in Proc : phase[p] = ph
  BY DEF FullInv, Undisturbed, WriteToFile, Quiet, All
<1>2. PICK p \in Proc : phase[p] = ph
  BY <1>1, MapFileAssumption
<1>3. /\ file \in [ver : 1..MaxVer, mtime : Nat] /\ map \in [Proc -> Nat]
      /\ last_file_update \in [Proc -> Nat] /\ SleepTime \in Nat
      /\ ckpt_restore \subseteq Proc /\ \A q \in Proc : map[q] = file.ver
  BY MapNatural DEF FullInv, TypeInv, TypeOK, Undisturbed, WriteToFile, Quiet
<1>4. /\ file'.ver = file.ver + 1 /\ file'.mtime = file.mtime + SleepTime
      /\ UNCHANGED <<phase, pos, map, last_file_update, ckpt_restore, ckpt, cut>>
  BY DEF WriteToFile
<1>5. CkptsAgree
  BY DEF FullInv, StageInv
<1>6. CkptsAgree'
  <2>1. \A j \in Job : ckpt[j].ver \in Nat
    BY CkptVer DEF FullInv
  <2>2. CkptsBefore(file.ver + 1)'
    BY <1>3, <1>4, <1>5, <2>1 DEF CkptsAgree, CkptsBefore
  <2>3. Whole' = Whole
    BY <1>4 DEF Whole
  <2> QED BY <1>4, <1>5, <2>2, <2>3 DEF CkptsAgree
<1>7. Running /\ Calling
  <2>1. ~Saving /\ ~Polling
    BY <1>1 DEF Saving, Polling
  <2>2. ~Restoring
    BY <1>1, <1>2, <1>3 DEF Restoring, In
  <2> QED BY <1>2, <2>1, <2>2, StageByPhase DEF FullInv
<1>8. Calling'
  BY <1>1, <1>3, <1>4, <1>7 DEF Calling, In, SameMap, CkptsBefore
<1> QED BY <1>4, <1>6, <1>7, <1>8 DEF StageInv, Together, Running, SamePos

LEMMA Stage_Halt ==
  ASSUME FullInv, Halt PROVE StageInv'
<1>1. Whole /\ CkptsAgree /\ Bit[file.ver] = Job
  BY DEF FullInv, Undisturbed, Halt, StageInv
<1>2. CkptsAgree'
  BY <1>1 DEF CkptsAgree, Halt, Whole, CkptsBefore
<1>3. Booting'
  BY <1>1 DEF Halt, Booting, In, AtStart
<1> QED BY <1>2, <1>3 DEF StageInv, Together

\* Every step leaves everybody in the job of its map: MPI_Init reads a map that
\* marks every line, and later a process on an unmarked line was there before.
LEMMA JobsStep ==
  ASSUME FullInv, [Next]_vars PROVE JobKnown'
<1>0. /\ map \in [Proc -> 0..MaxVer] /\ job_id \in [Proc -> Job \union {NoJob}]
      /\ phase \in [Proc -> Phases] /\ file.ver \in 1..MaxVer /\ MaxVer \in Nat
      /\ \A q \in Proc : phase[q] # "init" => job_id[q] = JobOf(q)
  BY MapNatural DEF FullInv, JobKnown, TypeInv, TypeOK
<1>1. ASSUME NEW p \in Proc, NEW ph, To(p, ph), map' = [map EXCEPT ![p] = file.ver],
             job_id' = [job_id EXCEPT ![p] = ParsedJob(file.ver, p)],
             ParsedJob(file.ver, p) = JobIn(file.ver, p)
      PROVE  JobKnown'
  <2>1. \A q \in Proc \ {p} : phase'[q] = phase[q] /\ map'[q] = map[q] /\ job_id'[q] = job_id[q]
    BY <1>0, <1>1 DEF To
  <2>2. map'[p] = file.ver /\ job_id'[p] = JobIn(file.ver, p)
    BY <1>0, <1>1
  <2>3. \A q \in Proc \ {p} : phase'[q] # "init" => job_id'[q] = JobIn(map'[q], q)
    BY <1>0, <2>1 DEF JobOf
  <2> QED BY <2>2, <2>3 DEF JobKnown, JobOf, JobIn
<1>2. ASSUME NEW p \in Proc, init_node(p) PROVE JobKnown'
  <2>1. Bit[file.ver] = Job
    BY <1>2, StageByPhase DEF FullInv, init_node, Booting
  <2>2. ParsedJob(file.ver, p) = JobIn(file.ver, p)
    BY <1>0, <2>1, JobInType DEF ParsedJob, Marked
  <2> QED BY <1>1, <1>2, <2>2 DEF init_node
<1>3. ASSUME NEW p \in Proc, parse_map_file(p) PROVE JobKnown'
  <2>1. PICK v \in 1..(MaxVer - 1) : v + 1 = file.ver /\ map[p] = v
    <3>1. Reading /\ phase[p] = "parse" /\ map[p] \in Nat
      BY <1>0, <1>3, StageByPhase DEF FullInv, parse_map_file
    <3>2. file.ver = map[p] + 1 /\ file.ver >= 2
      BY <3>1 DEF Reading
    <3> QED BY <1>0, <3>1, <3>2
  <2>2. job_id[p] = JobIn(v, p)
    BY <1>0, <1>3, <2>1 DEF JobOf, parse_map_file
  <2>3. ParsedJob(file.ver, p) = JobIn(file.ver, p)
    BY <2>1, <2>2, UnmarkedSame DEF ParsedJob
  <2> QED BY <1>1, <1>3, <2>3 DEF parse_map_file
<1>4. ASSUME UNCHANGED nodeVars, \A q \in Proc : phase'[q] # "init" => phase[q] # "init"
      PROVE  JobKnown'
  BY <1>0, <1>4 DEF JobKnown, JobOf, JobIn
<1>5. ASSUME NEW p \in Proc, \/ set_last_file_update(p) \/ is_file_modified(p)
                             \/ OpenCkpt(p) \/ init_ckpt(p) \/ init_ckpt_restore(p)
      PROVE  JobKnown'
  <2>1. UNCHANGED nodeVars /\ phase[p] # "init" /\ \E ph : To(p, ph)
    BY <1>5 DEF set_last_file_update, is_file_modified, OpenCkpt, init_ckpt,
                init_ckpt_restore
  <2> QED BY <1>0, <1>4, <2>1 DEF To
<1>6. ASSUME Sync PROVE JobKnown'
  <2>1. UNCHANGED nodeVars
    BY <1>6 DEF Sync, InitComms, save_rep_and_stack_info, PMPI_Barrier, PMPI_Allreduce,
                update_comms, init_rep, Collective
  <2>2. ASSUME NEW j \in Job, init_rep(j), NEW q \in Proc PROVE phase'[q] # "init" => phase[q] # "init"
    BY <2>2, Migration
  <2>3. ASSUME NEW q \in Proc, ~\E j \in Job : init_rep(j) PROVE phase[q] # "init"
    BY <1>6, <2>3 DEF Sync, InitComms, save_rep_and_stack_info, PMPI_Barrier, PMPI_Allreduce,
                      update_comms, Collective, All
  <2> QED BY <1>4, <2>1, <2>2, <2>3
<1>7. ASSUME WriteToFile PROVE JobKnown'
  BY <1>4, <1>7 DEF WriteToFile
<1>8. ASSUME Halt PROVE JobKnown'
  BY <1>8 DEF Halt, JobKnown
<1>9. ASSUME UNCHANGED vars PROVE JobKnown'
  BY <1>4, <1>9 DEF vars
<1> QED BY <1>2, <1>3, <1>5, <1>6, <1>7, <1>8, <1>9 DEF Next, Step

\* Every step keeps the processes together.
LEMMA StageStep == FullInv /\ [Next]_vars => FullInv'
<1> SUFFICES ASSUME FullInv, [Next]_vars PROVE FullInv'
  OBVIOUS
<1>1. Undisturbed' /\ TypeInv'
  BY TypeStep DEF FullInv, Undisturbed
<1>2. ASSUME NEW p \in Proc, Step(p) PROVE StageInv'
  BY <1>2, Stage_init_node, Stage_set_last_file_update, Stage_is_file_modified,
     Stage_parse_map_file, Stage_OpenCkpt, Stage_init_ckpt, Stage_init_ckpt_restore
     DEF Step
<1>3. ASSUME Sync PROVE StageInv'
  BY <1>3, Stage_InitComms, Stage_save_rep_and_stack_info, Stage_PMPI_Barrier,
     Stage_PMPI_Allreduce, Stage_update_comms, Stage_init_rep, Stage_Collective DEF Sync
<1>4. ASSUME UNCHANGED vars PROVE StageInv'
  <2> USE <1>4 DEF vars, In, SamePos, SameMap, LatestMap, AtStart, TimeKnown, CkptsBefore,
                   Whole, Master, JobOf, does_ckpt_file_exists,
                   nodeVars
  <2>1. (Booting => Booting') /\ (Looking => Looking') /\ (Waiting => Waiting')
    BY DEF Booting, Looking, Waiting
  <2>2. Restoring => Restoring'
    BY DEF Restoring
  <2>3. (Calling => Calling') /\ (Polling => Polling') /\ (Reading => Reading')
    BY DEF Calling, Polling, Reading
  <2>4. Saving => Saving'
    BY DEF Saving
  <2>5. CkptsAgree => CkptsAgree'
    BY DEF CkptsAgree
  <2> QED BY <2>1, <2>2, <2>3, <2>4, <2>5 DEF FullInv, StageInv, Together, Running
<1>5. StageInv'
  BY <1>2, <1>3, <1>4, Stage_WriteToFile, Stage_Halt DEF Next
<1> QED BY <1>1, <1>5, JobsStep DEF FullInv

LEMMA StageInvariant == Undisturbed /\ Spec => []FullInv
<1>1. Undisturbed /\ Init => FullInv
  BY TypeInit, StageInit DEF FullInv, JobKnown, Init
<1> QED BY <1>1, StageStep, PTL DEF Spec

-----------------------------------------------------------------------------
\* The processes that meet in a collective operation are in the same call and
\* go by the same map, for any sequence of maps, checkpoints, migrations and
\* restarts, if no map is written before the last one was adopted, and the
\* program does not stop while checkpoints are written or start again under a
\* map with an unmarked line.
THEOREM SameCallHolds == ~WritesAnyTime /\ ~HaltsAnyTime /\ Spec => []SameCall
<1>1. FullInv => SameCall
  <2> SUFFICES ASSUME FullInv, NEW p \in Proc, NEW q \in Proc,
                      phase[p] \in {"collective", "split"}, phase[q] = phase[p]
               PROVE  pos[p] = pos[q] /\ map[p] = map[q]
    BY DEF SameCall
  <2>1. CASE Restoring
    <3>1. map[p] = map[q]
      BY <2>1 DEF Restoring, LatestMap
    <3>2. CASE phase[p] = "collective"
      BY <2>1, <3>1, <3>2 DEF Restoring, In
    <3>3. CASE phase[p] = "split"
      BY <2>1, <3>1, <3>3 DEF Restoring, In, AtStart
    <3> QED BY <3>2, <3>3
  <2>2. CASE Running /\ (Calling \/ Saving)
    BY <2>2 DEF Running, SamePos, Calling, Saving, SameMap, LatestMap
  <2>3. CASE Running /\ Reading
    BY <2>3 DEF Running, SamePos, Reading
  <2> QED BY <2>1, <2>2, <2>3, StageByPhase DEF FullInv
<1>2. ~WritesAnyTime /\ ~HaltsAnyTime => Undisturbed
  BY DEF Undisturbed
<1> QED BY <1>1, <1>2, StageInvariant, PTL

-----------------------------------------------------------------------------
(* The refinement of ProgramSpec.                                          *)

\* The common value of a function that is the same everywhere.
LEMMA CommonIs ==
  ASSUME NEW f, NEW v, \A p \in Proc : f[p] = v PROVE Common(f) = v
<1>1. PICK p \in Proc : TRUE
  BY MapFileAssumption
<1>2. (CHOOSE q \in Proc : TRUE) \in Proc
  BY <1>1
<1>3. \E w \in {f[q] : q \in Proc} : \A q \in Proc : f[q] = w
  BY <1>1
<1> QED BY <1>2, <1>3 DEF Common

\* What the one program looks like: nothing before it is up; then the call
\* that all processes are in, the map of all of them or, while some of them
\* still parse a new one, the old map.
View ==
  /\ specUp \in BOOLEAN /\ specDue \in BOOLEAN
  /\ ~specUp => specMap = 0 /\ specPos = 0 /\ ~specDue
  /\ specUp => /\ Running
               /\ \A p \in Proc : specPos = pos[p]
               /\ \A p \in Proc : Parsing = {} \/ p \in Parsing => specMap = map[p]
               /\ specDue <=>
                     Parsing = {} /\ \E p \in Proc : phase[p] \in {"split", "open", "save"}

LEMMA SpecView == FullInv => View
<1> SUFFICES ASSUME FullInv PROVE View
  OBVIOUS
<1>1. specUp \in BOOLEAN /\ specDue \in BOOLEAN
  BY DEF specUp, specDue
<1>2. ~specUp => specMap = 0 /\ specPos = 0 /\ ~specDue
  BY DEF specMap, specPos, specDue
<1>3. ASSUME specUp PROVE Running
  <2>1. PICK p \in Proc : TRUE
    BY MapFileAssumption
  <2>2. phase[p] \notin InitPhases /\ ckpt_restore = {}
    BY <1>3, <2>1 DEF specUp, FullInv, TypeInv, TypeOK
  <2>3. ~Booting /\ ~Looking /\ ~Waiting /\ ~Restoring
    BY <2>2 DEF Booting, Looking, Waiting, Restoring, In, InitPhases
  <2> QED BY <2>3 DEF FullInv, StageInv, Together
<1>4. ASSUME specUp, NEW p \in Proc PROVE specPos = pos[p]
  <2>1. \A q \in Proc : pos[q] = pos[p]
    BY <1>3, <1>4 DEF Running, SamePos
  <2> QED BY <1>4, <2>1, CommonIs DEF specPos
<1>5. ASSUME specUp, NEW p \in Proc, Parsing = {} \/ p \in Parsing
      PROVE  specMap = map[p]
  <2>1. CASE p \in Parsing
    <3>1. Running /\ Reading
      BY <1>5, <2>1, StageByPhase DEF FullInv, Parsing
    <3>2. \A q \in Parsing : map[q] = map[p]
      BY <2>1, <3>1 DEF Reading, Parsing
    <3>3. (CHOOSE q \in Parsing : TRUE) \in Parsing
      BY <2>1
    <3> QED BY <1>5, <2>1, <3>2, <3>3 DEF specMap
  <2>2. CASE Parsing = {}
    <3>1. \A q \in Proc : map[q] = map[p]
      <4>1. Reading => \A q \in Proc : phase[q] = "split"
        BY <2>2 DEF Reading, In, Parsing
      <4> QED BY <1>3, <1>5, <4>1 DEF Running, Calling, Polling, Reading, Saving,
                                      SameMap, LatestMap
    <3> QED BY <1>5, <2>2, <3>1, CommonIs DEF specMap
  <2> QED BY <1>5, <2>1, <2>2
<1>6. specUp => (specDue <=> Parsing = {} /\ \E p \in Proc : phase[p] \in {"split", "open", "save"})
  BY DEF specDue
<1> QED BY <1>1, <1>2, <1>3, <1>4, <1>5, <1>6 DEF View

\* A step that the one program does not notice.
Unseen == UNCHANGED <<file.ver, specUp, specMap, specPos, specDue, cut>>

\* Before the program is up, and after it, there is nothing to notice.
LEMMA DownUnseen ==
  ASSUME View, View', ~specUp, ~specUp', UNCHANGED <<file, cut>> PROVE Unseen
  BY DEF View, Unseen

\* While it is up, a step that parses no map and calls no function is not
\* noticed unless it changes whether a checkpoint is due.
LEMMA UpUnseen ==
  ASSUME View, View', specUp, specUp', UNCHANGED <<file, cut, map, pos>>,
         specDue <=> specDue', Parsing = {} \/ Parsing' = {} \/ Parsing' = Parsing,
         \A p, q \in Proc : map[p] = map[q]
  PROVE  Unseen
<1>1. PICK p \in Proc : TRUE
  BY MapFileAssumption
<1>2. (Parsing # {} => \E q \in Proc : q \in Parsing)
      /\ (Parsing' # {} => \E q \in Proc : q \in Parsing')
  BY DEF Parsing
<1>3. specMap = map[p]
  BY <1>1, <1>2 DEF View
<1>4. specMap' = map'[p]
  BY <1>1, <1>2 DEF View
<1>5. specPos = pos[p] /\ specPos' = pos'[p]
  BY <1>1 DEF View
<1>6. specUp = specUp' /\ specDue = specDue'
  BY DEF View
<1> QED BY <1>3, <1>4, <1>5, <1>6 DEF Unseen

LEMMA RefineInit == Init => OneProgram!Init
<1> SUFFICES ASSUME Init PROVE OneProgram!Init
  OBVIOUS
<1>1. PICK p \in Proc : TRUE
  BY MapFileAssumption
<1>2. ~specUp
  BY <1>1 DEF Init, specUp, InitPhases
<1>3. specMap = 0 /\ specPos = 0 /\ ~specDue
  BY <1>2 DEF specMap, specPos, specDue
<1> QED BY <1>2, <1>3 DEF Init, OneProgram!Init, OneProgram!None, NoCall

\* MPI_Init up to the barrier.
LEMMA RefineStarting ==
  ASSUME FullInv, View, View',
         \/ \E p \in Proc : init_node(p) \/ set_last_file_update(p)
         \/ InitComms \/ save_rep_and_stack_info
  PROVE  Unseen
<1>1. PICK p \in Proc : phase[p] \in InitPhases
  BY MapFileAssumption DEF init_node, set_last_file_update, InitComms,
     save_rep_and_stack_info, All, InitPhases
<1>2. ~specUp
  BY <1>1 DEF specUp
<1>3. phase \in [Proc -> Phases] /\ UNCHANGED <<file, cut>>
  BY DEF FullInv, TypeInv, TypeOK, init_node, set_last_file_update, InitComms,
     save_rep_and_stack_info
<1>4. ~specUp'
  <2>1. ASSUME NEW q \in Proc, init_node(q) \/ set_last_file_update(q) PROVE ~specUp'
    BY <1>3, <2>1 DEF init_node, set_last_file_update, To, specUp, InitPhases
  <2>2. ASSUME InitComms PROVE ~specUp'
    BY <1>1, <2>2, AllHaveJobs DEF specUp, InitPhases
  <2>3. ASSUME save_rep_and_stack_info PROVE ~specUp'
    BY <1>1, <2>3 DEF save_rep_and_stack_info, specUp, InitPhases
  <2> QED BY <2>1, <2>2, <2>3
<1> QED BY <1>2, <1>3, <1>4, DownUnseen

\* The barrier at the end of MPI_Init starts the program from its beginning.
LEMMA RefineBarrier ==
  ASSUME FullInv, View, View', PMPI_Barrier PROVE OneProgram!Start
<1>1. PICK p \in Proc : phase[p] = "barrier"
  BY MapFileAssumption DEF PMPI_Barrier, All
<1>2. Waiting /\ CkptsAgree /\ JobOf(p) \in Job
  BY <1>1, StageByPhase, JobOfType DEF FullInv, StageInv
<1>3. ~specUp /\ specUp'
  BY <1>1, <1>2 DEF specUp, PMPI_Barrier, InitPhases, Waiting
<1>4. cut = NoCall
  BY <1>1, <1>2 DEF CkptsAgree, Waiting, In
<1>5. specMap' = file.ver /\ specPos' = 0 /\ ~specDue'
  <2>1. Parsing' = {} /\ \A q \in Proc : phase'[q] = "app"
    BY DEF PMPI_Barrier, Parsing
  <2>2. map'[p] = file.ver /\ pos'[p] = 0
    BY <1>2 DEF Waiting, AtStart, LatestMap, PMPI_Barrier
  <2> QED BY <1>1, <1>3, <2>1, <2>2 DEF View
<1>6. ~specDue /\ specDue' = specDue
  BY <1>3, <1>5 DEF View
<1> QED BY <1>3, <1>4, <1>5, <1>6 DEF OneProgram!Start, OneProgram!None, NoCall, PMPI_Barrier

\* Looking at the time stamp.
LEMMA RefineModified ==
  ASSUME FullInv, View, View', NEW p \in Proc, is_file_modified(p) PROVE Unseen
<1>1. Running /\ (Calling \/ Polling)
  BY StageByPhase DEF FullInv, is_file_modified
<1>2. phase \in [Proc -> Phases] /\ ckpt_restore = {} /\ phase[p] = "app"
  BY <1>1 DEF FullInv, TypeInv, TypeOK, Running, is_file_modified
<1>3. /\ UNCHANGED <<file, cut, map, pos, ckpt_restore>>
      /\ \A q \in Proc : phase'[q] = phase[q]
                         \/ (q = p /\ phase'[q] \in {"allreduce", "collective"})
  BY <1>2 DEF is_file_modified, To
<1>4. \A q \in Proc : phase[q] \in {"app", "allreduce", "collective"}
  BY <1>1 DEF Calling, Polling, In
<1>5. \A q \in Proc : phase'[q] \in {"app", "allreduce", "collective"}
  BY <1>3, <1>4
<1>6. specUp /\ specUp' /\ Parsing = {} /\ Parsing' = {}
  BY <1>2, <1>3, <1>4, <1>5 DEF specUp, Parsing, InitPhases
<1>7. ~specDue /\ ~specDue'
  BY <1>4, <1>5, <1>6 DEF View
<1>8. \A q, r \in Proc : map[q] = map[r]
  BY <1>1 DEF Calling, Polling, SameMap
<1> QED BY <1>3, <1>6, <1>7, <1>8, UpUnseen

LEMMA RefineAllreduce ==
  ASSUME FullInv, View, View', PMPI_Allreduce PROVE Unseen
<1>1. PICK p \in Proc : phase[p] = "allreduce"
  BY MapFileAssumption DEF PMPI_Allreduce, All
<1>2. Restoring \/ (Running /\ Polling)
  BY <1>1, StageByPhase DEF FullInv
<1>3. /\ UNCHANGED <<file, cut, map, pos, ckpt_restore>>
      /\ \A q \in Proc : phase[q] = "allreduce"
      /\ \A q \in Proc : phase'[q] \in {"collective", "split", "parse"}
  BY DEF PMPI_Allreduce, All
<1>4. CASE Restoring
  <2>1. ckpt_restore = Proc
    BY <1>1, <1>4 DEF Restoring, In
  <2>2. ~specUp /\ ~specUp'
    BY <1>1, <1>3, <2>1 DEF specUp
  <2> QED BY <1>3, <2>2, DownUnseen
<1>5. CASE Running /\ Polling
  <2>1. ckpt_restore = {}
    BY <1>5 DEF Running
  <2>2. specUp /\ specUp' /\ Parsing = {}
    BY <1>3, <2>1 DEF specUp, Parsing, InitPhases
  <2>3. \A q \in Proc : phase'[q] # "split"
    BY <2>1 DEF PMPI_Allreduce
  <2>4. ~specDue /\ ~specDue'
    BY <1>3, <2>2, <2>3 DEF View
  <2>5. \A q, r \in Proc : map[q] = map[r]
    BY <1>5 DEF Polling, SameMap
  <2> QED BY <1>3, <2>2, <2>4, <2>5, UpUnseen
<1> QED BY <1>2, <1>4, <1>5

\* The map is adopted when the last process has parsed it.
LEMMA RefineParse ==
  ASSUME FullInv, View, View', NEW p \in Proc, parse_map_file(p)
  PROVE  Unseen \/ OneProgram!Adopt
<1>1. Running /\ Reading /\ p \in Parsing
  BY StageByPhase DEF FullInv, parse_map_file, Parsing
<1>2. /\ phase \in [Proc -> Phases] /\ map \in [Proc -> Nat] /\ ckpt_restore = {}
      /\ \A q \in Proc : phase[q] \in {"parse", "split"}
      /\ file.ver \in Nat /\ map[p] < file.ver
  BY <1>1 DEF FullInv, TypeInv, TypeOK, Running, Reading, In, Parsing
<1>3. /\ UNCHANGED <<file, cut, pos, ckpt_restore>>
      /\ phase' = [phase EXCEPT ![p] = "split"]
      /\ map' = [map EXCEPT ![p] = file.ver]
  BY DEF parse_map_file, To
<1>4. specUp /\ specUp' /\ ~specDue
  BY <1>1, <1>2, <1>3 DEF specUp, View, InitPhases
<1>5. specMap = map[p] /\ specPos = pos[p] /\ specPos' = pos[p]
  BY <1>1, <1>3, <1>4 DEF View
<1>6. CASE Parsing' = {}
  <2>1. specMap' = file.ver
    BY <1>2, <1>3, <1>4, <1>6 DEF View
  <2>2. specDue'
    BY <1>2, <1>3, <1>4, <1>6 DEF View
  <2>3. OneProgram!Adopt
    BY <1>2, <1>3, <1>4, <1>5, <2>1, <2>2 DEF OneProgram!Adopt, View
  <2> QED BY <2>3
<1>7. CASE Parsing' # {}
  <2>1. PICK q \in Proc : q \in Parsing'
    BY <1>7 DEF Parsing
  <2>2. q # p /\ q \in Parsing /\ map'[q] = map[q]
    BY <1>2, <1>3, <2>1 DEF Parsing
  <2>3. specMap' = map[q] /\ specMap = map[q]
    BY <1>4, <2>1, <2>2 DEF View
  <2>4. ~specDue'
    BY <1>4, <1>7 DEF View
  <2> QED BY <1>3, <1>4, <1>5, <2>3, <2>4 DEF Unseen, View
<1> QED BY <1>6, <1>7

LEMMA RefineComms ==
  ASSUME FullInv, View, View', update_comms PROVE Unseen
<1>1. PICK p \in Proc : phase[p] = "split"
  BY MapFileAssumption DEF update_comms, All
<1>2. Restoring \/ (Running /\ Reading)
  BY <1>1, StageByPhase DEF FullInv
<1>3. /\ UNCHANGED <<file, cut, map, pos, ckpt_restore>>
      /\ \A q \in Proc : phase[q] = "split"
      /\ \A q \in Proc : phase'[q] \in {"restore", "open", "rep", "collective"}
  BY DEF update_comms, All, RepOrCall
<1>4. CASE Restoring
  <2>1. ckpt_restore = Proc
    BY <1>1, <1>4 DEF Restoring, In
  <2>2. ~specUp /\ ~specUp'
    BY <1>1, <1>3, <2>1 DEF specUp
  <2> QED BY <1>3, <2>2, DownUnseen
<1>5. CASE Running /\ Reading
  <2>1. ckpt_restore = {} /\ LatestMap /\ \A q, r \in Proc : map[q] = map[r]
    BY <1>3, <1>5 DEF Running, Reading, LatestMap
  <2>2. specUp /\ specUp' /\ Parsing = {} /\ Parsing' = {}
    BY <1>3, <2>1 DEF specUp, Parsing, InitPhases
  <2>3. \E q \in Proc : phase'[q] = "open"
    <3> DEFINE h == Head(RankList[file.ver][JobOf(p)])
    <3>1. h \in Proc /\ JobIn(file.ver, h) = JobOf(p)
      BY <1>1, MasterOfJob, JobOfType DEF FullInv, TypeInv, TypeOK
    <3>2. Master(h)
      BY <2>1, <3>1 DEF Master, JobOf, LatestMap
    <3> QED BY <2>1, <3>1, <3>2 DEF update_comms
  <2>4. specDue /\ specDue'
    BY <1>1, <2>2, <2>3 DEF View
  <2> QED BY <1>3, <2>1, <2>2, <2>4, UpUnseen
<1> QED BY <1>2, <1>4, <1>5

\* While the masters write, the program is up, with the latest map.
LEMMA SavingView ==
  ASSUME FullInv, NEW p \in Proc, phase[p] \in {"open", "save"}
  PROVE  /\ specUp /\ Parsing = {} /\ ckpt_restore = {} /\ phase \in [Proc -> Phases]
         /\ \A q \in Proc : phase[q] \in {"open", "save", "rep", "collective"}
         /\ \A q, r \in Proc : map[q] = map[r] /\ pos[q] = pos[r]
<1>1. Running /\ Saving
  BY StageByPhase DEF FullInv
<1>2. /\ \A q \in Proc : phase[q] \in {"open", "save", "rep", "collective"}
      /\ ckpt_restore = {}
  BY <1>1 DEF Running, Saving, In
<1> QED BY <1>1, <1>2 DEF specUp, Parsing, InitPhases, Running, Saving, SamePos,
                         LatestMap, FullInv, TypeInv, TypeOK

LEMMA RefineOpen ==
  ASSUME FullInv, View, View', NEW p \in Proc, OpenCkpt(p) PROVE Unseen
<1>1. /\ UNCHANGED <<file, cut, map, pos, ckpt_restore>>
      /\ phase[p] = "open" /\ phase' = [phase EXCEPT ![p] = "save"]
  BY DEF OpenCkpt, To
<1>2. /\ specUp /\ Parsing = {} /\ ckpt_restore = {} /\ phase \in [Proc -> Phases]
      /\ \A q \in Proc : phase[q] \in {"open", "save", "rep", "collective"}
      /\ \A q, r \in Proc : map[q] = map[r]
  BY <1>1, SavingView
<1>3. \A q \in Proc : phase'[q] \in {"open", "save", "rep", "collective"}
  BY <1>1, <1>2
<1>4. specUp' /\ Parsing' = {} /\ phase'[p] = "save"
  BY <1>1, <1>2, <1>3 DEF specUp, Parsing, InitPhases
<1>5. specDue /\ specDue'
  BY <1>1, <1>2, <1>4 DEF View
<1> QED BY <1>1, <1>2, <1>4, <1>5, UpUnseen

\* The checkpoint is made with the last of its files.
LEMMA RefineSave ==
  ASSUME FullInv, View, View', NEW p \in Proc, init_ckpt(p)
  PROVE  Unseen \/ OneProgram!Save
<1>1. /\ UNCHANGED <<file, map, pos, ckpt_restore>>
      /\ phase[p] = "save" /\ phase' = [phase EXCEPT ![p] = RepOrCall(p)]
      /\ RepOrCall(p) \in {"rep", "collective"}
  BY DEF init_ckpt, To, RepOrCall
<1>2. /\ specUp /\ Parsing = {} /\ ckpt_restore = {} /\ phase \in [Proc -> Phases]
      /\ \A q \in Proc : phase[q] \in {"open", "save", "rep", "collective"}
      /\ \A q, r \in Proc : map[q] = map[r]
  BY <1>1, SavingView
<1>3. \A q \in Proc : phase'[q] \in {"open", "save", "rep", "collective"}
  BY <1>1, <1>2
<1>4. specUp' /\ Parsing' = {} /\ specDue
  <2>1. specUp' /\ Parsing' = {}
    BY <1>1, <1>2, <1>3 DEF specUp, Parsing, InitPhases
  <2> QED BY <1>1, <1>2, <2>1 DEF View
<1>5. CASE \A q \in Proc \ {p} : phase[q] \notin {"open", "save"}
  <2>1. cut' = pos[p]
    BY <1>5, LastCkpt
  <2>2. ~specDue'
    BY <1>1, <1>2, <1>3, <1>4, <1>5 DEF View
  <2>3. specMap = map[p] /\ specMap' = map[p] /\ specPos = pos[p] /\ specPos' = pos[p]
    BY <1>1, <1>2, <1>4 DEF View
  <2>4. specUp = specUp'
    BY <1>2, <1>4 DEF View
  <2> QED BY <1>1, <1>4, <2>1, <2>2, <2>3, <2>4 DEF OneProgram!Save
<1>6. ASSUME NEW q \in Proc \ {p}, phase[q] \in {"open", "save"} PROVE Unseen
  <2>1. cut' = cut
    BY <1>6, LastCkpt
  <2>2. phase'[q] \in {"open", "save"}
    BY <1>1, <1>2, <1>6
  <2>3. specDue'
    BY <1>4, <2>2 DEF View
  <2> QED BY <1>1, <1>2, <1>4, <2>1, <2>3, UpUnseen
<1> QED BY <1>5, <1>6

\* The migrations.
LEMMA RefineRep ==
  ASSUME FullInv, View, View', NEW j \in Job, init_rep(j) PROVE Unseen
<1>1. /\ Running /\ Saving /\ UNCHANGED <<file, cut, map, pos, ckpt_restore>>
      /\ \A q \in Proc : \/ phase'[q] = phase[q]
                          \/ (phase[q] = "rep" /\ phase'[q] = "collective")
  <2>1. UNCHANGED <<file, cut, map, ckpt_restore>>
    BY DEF init_rep
  <2> QED BY <2>1, Migration
<1>2. /\ \A q \in Proc : phase[q] \in {"open", "save", "rep", "collective"}
      /\ ckpt_restore = {} /\ \A q, r \in Proc : map[q] = map[r]
  BY <1>1 DEF Running, Saving, In, LatestMap
<1>3. \A q \in Proc : phase'[q] \in {"open", "save", "rep", "collective"}
  BY <1>1, <1>2
<1>4. specUp /\ specUp' /\ Parsing = {} /\ Parsing' = {}
  BY <1>1, <1>2, <1>3 DEF specUp, Parsing, InitPhases
<1>5. \A q \in Proc : phase'[q] \in {"split", "open", "save"} <=> phase[q] \in {"split", "open", "save"}
  BY <1>1
<1>6. specDue <=> specDue'
  BY <1>4, <1>5 DEF View
<1> QED BY <1>1, <1>2, <1>4, <1>6, UpUnseen

\* The program is started from its checkpoint when the last process is.
LEMMA RefineRestore ==
  ASSUME FullInv, View, View', NEW p \in Proc, init_ckpt_restore(p)
  PROVE  Unseen \/ OneProgram!Start
<1>1. CkptsAgree /\ Restoring /\ phase[p] = "restore"
  BY StageByPhase DEF FullInv, StageInv, init_ckpt_restore
<1>2. /\ phase \in [Proc -> Phases] /\ pos \in [Proc -> 0..(NCalls - 1)]
      /\ ckpt_restore \subseteq Proc /\ job_id[p] \in Job
      /\ ckpt[job_id[p]].pos \in 0..(NCalls - 1)
  BY <1>1, JobIs, CkptVer DEF FullInv, TypeInv, TypeOK
<1>3. /\ In({"restore", "collective"})
      /\ \A q \in Proc : /\ q \in ckpt_restore <=> phase[q] = "restore"
                         /\ phase[q] = "collective" => pos[q] = cut
  BY <1>1 DEF Restoring, In
<1>4. ckpt[job_id[p]] # Torn /\ ckpt[job_id[p]].pos = cut
  <2>1. Whole
    BY <1>1, <1>3 DEF CkptsAgree, In
  <2> QED BY <1>1, <1>2, <2>1 DEF CkptsAgree, Whole, Restoring
<1>5. /\ UNCHANGED <<file, map, cut>>
      /\ pos' = [pos EXCEPT ![p] = cut]
      /\ phase' = [phase EXCEPT ![p] = "collective"]
      /\ ckpt_restore' = ckpt_restore \ {p}
  BY <1>4 DEF init_ckpt_restore, To
<1>6. ~specUp /\ ~specDue
  BY <1>1, <1>3 DEF specUp, View
<1>7. CASE specUp'
  <2>1. \A q \in Proc : phase'[q] = "collective"
    BY <1>2, <1>3, <1>5, <1>7 DEF specUp, In
  <2>2. Parsing' = {} /\ ~specDue'
    BY <1>7, <2>1 DEF Parsing, View
  <2>3. specMap' = file.ver /\ specPos' = cut
    BY <1>1, <1>2, <1>5, <1>7, <2>2 DEF View, Restoring, LatestMap
  <2>4. cut # NCalls
    BY <1>2, <1>4, MapNatural
  <2>5. specDue' = specDue
    BY <1>6, <2>2 DEF View
  <2>6. OneProgram!Start
    BY <1>5, <1>6, <1>7, <2>3, <2>4, <2>5 DEF OneProgram!Start, OneProgram!None
  <2> QED BY <2>6
<1>8. CASE ~specUp'
  BY <1>5, <1>6, <1>8, DownUnseen
<1> QED BY <1>7, <1>8

LEMMA RefineCall ==
  ASSUME FullInv, View, View', Collective PROVE OneProgram!Call
<1>1. PICK p \in Proc : phase[p] = "collective"
  BY MapFileAssumption DEF Collective, All
<1>2. /\ \A q \in Proc : phase[q] = "collective" /\ phase'[q] = "app"
      /\ UNCHANGED <<file, map, cut, ckpt_restore>>
      /\ pos'[p] = (pos[p] + 1) % NCalls
  BY <1>1 DEF Collective, All
<1>3. ckpt_restore = {}
  <2>1. ckpt_restore \subseteq Proc
    BY DEF FullInv, TypeInv, TypeOK
  <2>2. Restoring => ckpt_restore = {}
    BY <1>1, <1>2, <2>1 DEF Restoring, In
  <2> QED BY <1>1, <2>2, StageByPhase DEF FullInv, Running
<1>4. specUp /\ specUp' /\ Parsing = {} /\ Parsing' = {}
  BY <1>2, <1>3 DEF specUp, Parsing, InitPhases
<1>5. ~specDue /\ ~specDue'
  BY <1>2, <1>4 DEF View
<1>6. /\ specMap = map[p] /\ specMap' = map'[p]
      /\ specPos = pos[p] /\ specPos' = pos'[p]
  BY <1>1, <1>4 DEF View
<1>7. specUp' = specUp /\ specDue' = specDue
  BY <1>4, <1>5 DEF View
<1> QED BY <1>2, <1>4, <1>5, <1>6, <1>7 DEF OneProgram!Call

LEMMA RefinePublish ==
  ASSUME WriteToFile PROVE OneProgram!Publish
<1>1. UNCHANGED <<phase, pos, map, ckpt_restore, cut>>
  BY DEF WriteToFile
<1>2. Parsing' = Parsing /\ specUp' = specUp
  BY <1>1 DEF Parsing, specUp
<1>3. specMap' = specMap /\ specPos' = specPos /\ specDue' = specDue
  BY <1>1, <1>2 DEF specMap, specPos, specDue, Common
<1> QED BY <1>1, <1>2, <1>3 DEF WriteToFile, OneProgram!Publish

LEMMA RefineHalt ==
  ASSUME View, View', Halt PROVE Unseen \/ OneProgram!Halt
<1>1. PICK p \in Proc : phase'[p] = "init"
  BY MapFileAssumption DEF Halt
<1>2. ~specUp'
  BY <1>1 DEF specUp, InitPhases
<1>3. CASE specUp
  BY <1>2, <1>3 DEF OneProgram!Halt, View, Halt
<1>4. CASE ~specUp
  BY <1>2, <1>4, DownUnseen DEF Halt
<1> QED BY <1>3, <1>4

\* Every step of the processes is a step of the one program or none.
LEMMA RefineStep ==
  FullInv /\ View /\ View' /\ [Next]_vars => [OneProgram!Next]_(OneProgram!vars)
<1> SUFFICES ASSUME FullInv, View, View', [Next]_vars
             PROVE  OneProgram!Next \/ UNCHANGED OneProgram!vars
  OBVIOUS
<1>1. Unseen => UNCHANGED OneProgram!vars
  BY DEF Unseen, OneProgram!vars
<1>2. ASSUME NEW p \in Proc, Step(p) PROVE Unseen \/ OneProgram!Next
  BY <1>2, RefineStarting, RefineModified, RefineParse, RefineOpen, RefineSave,
     RefineRestore DEF Step, OneProgram!Next
<1>3. ASSUME Sync PROVE Unseen \/ OneProgram!Next
  BY <1>3, RefineStarting, RefineBarrier, RefineAllreduce, RefineComms, RefineRep, RefineCall
     DEF Sync, OneProgram!Next
<1>4. ASSUME WriteToFile \/ Halt PROVE Unseen \/ OneProgram!Next
  BY <1>4, RefinePublish, RefineHalt DEF OneProgram!Next
<1>5. ASSUME UNCHANGED vars PROVE Unseen
  BY <1>5 DEF vars, Unseen, specUp, specMap, specPos, specDue, Parsing, Common
<1> QED BY <1>1, <1>2, <1>3, <1>4, <1>5 DEF Next

\* The processes implement one program that adopts maps and makes checkpoints
\* as a whole and continues from the last complete one, under the same
\* conditions.
THEOREM Refinement ==
  ~WritesAnyTime /\ ~HaltsAnyTime /\ Spec => ImplementsOneProgram
<1>1. ~WritesAnyTime /\ ~HaltsAnyTime => Undisturbed
  BY DEF Undisturbed
<1> QED BY <1>1, StageInvariant, SpecView, RefineInit, RefineStep, PTL
        DEF Spec, ImplementsOneProgram, OneProgram!Spec

=============================================================================

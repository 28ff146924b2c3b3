---------------------------- MODULE PointToPoint ----------------------------
(***************************************************************************)
(* Point-to-point calls between replicated jobs.                           *)
(*                                                                         *)
(* MPI_Send sends to every worker of the destination, MPI_Recv receives    *)
(* from every worker of the source, MPI_Irecv posts a receive for each of  *)
(* them and MPI_Wait takes the first that has completed.  A failure met in *)
(* these calls is not repaired: the error handler notes the dead ranks in  *)
(* rank_ignore_list and sets __process_shrinking_pending, and the next     *)
(* agreement of a collective call shrinks the world communicator.          *)
(*                                                                         *)
(* Every process executes the program of its job, a sequence of calls.  A  *)
(* collective call is here MPI_Scatter, MPI_Gather, MPI_Allgather,         *)
(* MPI_Reduce or MPI_Allreduce: their operations are on active_comm and    *)
(* world_job_comm, for which the error handler does nothing, and of an     *)
(* operation only its flag is kept; its data is in module Collective.  So  *)
(* is MPI_Bcast, whose operation is on the world communicator and shrinks  *)
(* it on its own.  A step is one PMPI call with the error handler it runs. *)
(* PMPI_Send is eager: it does not wait for the receiver.                  *)
(***************************************************************************)
EXTENDS Integers, FiniteSets, Sequences, SequencesExt

CONSTANTS
    Proc, Job, JobOf, Pos,  \* see JobMap
    Program,                \* Program[j]: the calls of job j
    WaitTrials,             \* attempts MPI_Wait may fail in: 4 in the code
    MaxCrash                \* bound on the processes that die

Map == INSTANCE JobMap

\* As in JobMap; and every job has a worker to begin with: the manager never
\* takes the last rank of a line.
ASSUME MapAssumption ==
    /\ Proc \subseteq Nat /\ IsFiniteSet(Proc)
    /\ JobOf \in [Proc -> Job] /\ Pos \in [Proc -> Nat]
    /\ \A p, q \in Proc : JobOf[p] = JobOf[q] /\ Pos[p] = Pos[q] => p = q
    /\ \A j \in Job : Map!Workers(j, Proc) # {}

Call == [call : {"send", "recv", "irecv", "wait", "collective"}, peer : Job]

\* A receive is posted once at a time, and nothing else is received between
\* an MPI_Irecv and its MPI_Wait.
ASSUME ProgramAssumption ==
    /\ Program \in [Job -> Seq(Call)]
    /\ WaitTrials \in Nat /\ MaxCrash \in Nat
    /\ \A j \in Job : \A k \in DOMAIN Program[j] :
          Program[j][k].call = "irecv" =>
              LET next == SelectInSubSeq(Program[j], k + 1, Len(Program[j]),
                             LAMBDA c : c.call \in {"recv", "irecv", "wait"})
              IN  next # 0 /\ Program[j][next].call = "wait"
                           /\ Program[j][next].peer = Program[j][k].peer

VARIABLES
    dead,
    exited,     \* who has called exit(999)
    aborted,    \* 0, or the code of PMPI_Abort
    world,      \* the members of rep_mpi_comm_world
    epoch,      \* how many communicators it has replaced
    rank_list,  \* job_list[j].rank_list, the same at all live processes
    rank_2_job,
    at, i,      \* the call a process executes, and its loop index
    phase,      \* in a collective call: "agree" or "shrink", else "run"
    flag0,      \* the processes whose operation has failed: flag = 0
    ignore,     \* ignore[p]: the ranks with rank_ignore_list[rank] = 1
    pending,    \* the processes with __process_shrinking_pending = 1
    net,        \* the messages sent and not received
    buf,        \* the buffer of the MPI_Recv a process executes
    status,     \* its status argument and its mpi_status
    req,        \* the Aggregate_Request of a process
    orphans,    \* receives still posted when their Aggregate_Request was freed
    got         \* what the receives of a process have returned (to state properties)

mapVars == <<world, epoch, rank_list, rank_2_job>>
recvVars == <<buf, status, req, orphans, got>>
vars == <<dead, exited, aborted, mapVars, at, i, phase, flag0, ignore, pending,
          net, recvVars>>

-----------------------------------------------------------------------------
Live == Proc \ dead
Nothing == 0  \* what a buffer holds before data arrives
Torn == -1    \* what a failed receive may leave in it

ThisCall(p) == Program[JobOf[p]][at[p]]
Running(p) == aborted = 0 /\ p \in Live /\ at[p] <= Len(Program[JobOf[p]])
Executes(p, c) == Running(p) /\ ThisCall(p).call = c /\ phase[p] = "run"

ProcOf(r) == CHOOSE q \in world : Map!Rank(q, world) = r

\* The i-th worker of the peer, as a rank and as a process.
PeerRank(p) == rank_list[ThisCall(p).peer][i[p]]
Peer(p) == ProcOf(PeerRank(p))
Ignored(p) == PeerRank(p) \in ignore[p]

\* A message carries the number of the MPI_Send in its sender's program.
Messages(q, p, e) == {m \in net : m.from = q /\ m.to = p /\ m.epoch = e}
Oldest(M) == CHOOSE m \in M : \A n \in M : m.data <= n.data

\* An orphaned receive carries the number of its MPI_Wait; the one that was
\* posted first takes the next message.
Holes(q, p, e) == {h \in orphans : h.from = q /\ h.to = p /\ h.epoch = e}
FirstPosted(H) == CHOOSE h \in H : \A g \in H : h.call <= g.call

\* The user's status and the variable mpi_status before the first PMPI_Recv,
\* and what one from the i-th worker leaves in them.
NoStatus == [source |-> -1, error |-> "unset"]
Asked(p, error) == [source |-> PeerRank(p), error |-> error]

NoRequest == [epoch |-> 0, source |-> <<>>, open |-> {}, trials |-> 0]

\* To the next worker or, behind the last one, to the next call.
LastWorker(p) == i[p] = Len(rank_list[ThisCall(p).peer])
Advance(p) ==
    /\ i' = [i EXCEPT ![p] = IF LastWorker(p) THEN 1 ELSE @ + 1]
    /\ at' = [at EXCEPT ![p] = IF LastWorker(p) THEN @ + 1 ELSE @]

\* rep_errhandler while __ignore_process_failure is set: the failures that p
\* knows of, among them the ones its call has just met.
Notice(p, known) ==
    \E S \in SUBSET (dead \intersect world) :
        /\ known \subseteq S
        /\ ignore' = [ignore EXCEPT ![p] = @ \union {Map!Rank(q, world) : q \in S}]
        /\ pending' = pending \union {p}

Unnoticed == UNCHANGED <<ignore, pending>>

-----------------------------------------------------------------------------
(* MPI_Send, MPI_Recv, MPI_Irecv: one iteration of their loops.            *)

Looping(p) == \E c \in {"send", "recv", "irecv"} : Executes(p, c)

\* What a receive returns: the source and the error of the status, the data.
Return(p, source, error, data) ==
    got' = [got EXCEPT ![p] = Append(@, [call |-> at[p], source |-> source,
                                         error |-> error, data |-> data])]

\* MPI_Recv with d in the buffer and st in the status.  Behind the last worker
\* it returns both as they are: the source is a rank of the world communicator.
RecvEnds(p, d, st) ==
    IF Executes(p, "recv") /\ LastWorker(p)
    THEN /\ Return(p, st.source, st.error, d)
         /\ buf' = [buf EXCEPT ![p] = Nothing]
         /\ status' = [status EXCEPT ![p] = NoStatus]
    ELSE /\ buf' = [buf EXCEPT ![p] = d]
         /\ status' = [status EXCEPT ![p] = st]
         /\ UNCHANGED got

\* Mutants: the loop index stays; the request of the worker is not set.
SkipIgnored_NoIncrement(p) == Looping(p) /\ Ignored(p) /\ UNCHANGED vars
SkipIgnored_NoRequest(p) ==
    /\ Looping(p) /\ Ignored(p)
    /\ RecvEnds(p, buf[p], status[p])
    /\ Advance(p)
    /\ Unnoticed
    /\ UNCHANGED <<dead, exited, aborted, mapVars, phase, flag0, net, orphans, req>>

\* continue: an ignored worker is passed over (in MPI_Irecv its request is
\* MPI_REQUEST_NULL).
SkipIgnored(p) ==
    /\ Looping(p) /\ Ignored(p)
    /\ RecvEnds(p, buf[p], status[p])
    /\ req' = IF Executes(p, "irecv")
              THEN [req EXCEPT ![p].source =
                       Append(@, [proc |-> Peer(p), rank |-> PeerRank(p)])]
              ELSE req
    /\ Advance(p)
    /\ Unnoticed
    /\ UNCHANGED <<dead, exited, aborted, mapVars, phase, flag0, net, orphans>>

\* PMPI_Send succeeds, also to a process that is dead and not yet known to
\* be; or it fails.  An orphaned receive swallows the message.
MPI_Send(p) ==
    /\ Executes(p, "send") /\ ~Ignored(p)
    /\ LET q == Peer(p)
           H == Holes(p, q, epoch)
       IN  \/ /\ IF H # {}
                 THEN orphans' = orphans \ {FirstPosted(H)} /\ UNCHANGED net
                 ELSE /\ net' = net \union {[from |-> p, to |-> q, epoch |-> epoch,
                                             data |-> at[p]]}
                      /\ UNCHANGED orphans
              /\ Unnoticed
           \/ q \in dead /\ Notice(p, {q}) /\ UNCHANGED <<net, orphans>>
    /\ Advance(p)
    /\ UNCHANGED <<dead, exited, aborted, mapVars, phase, flag0, buf, status, req, got>>

\* PMPI_Recv from the i-th worker, into the same buffer for all of them.
\* From a dead process it succeeds if the message has come, or fails; then
\* the buffer may be half overwritten with what was sent.
MPI_Recv(p) ==
    /\ Executes(p, "recv") /\ ~Ignored(p)
    /\ LET q == Peer(p)
           M == Messages(q, p, epoch)
       IN  \/ /\ M # {}
              /\ net' = net \ {Oldest(M)}
              /\ RecvEnds(p, Oldest(M).data, Asked(p, "success"))
              /\ Unnoticed
           \/ /\ q \in dead /\ Notice(p, {q})
              /\ \/ RecvEnds(p, buf[p], Asked(p, "failed"))
                 \/ /\ M # {} /\ buf[p] # Oldest(M).data
                    /\ RecvEnds(p, Torn, Asked(p, "failed"))
              /\ UNCHANGED net
    /\ Advance(p)
    /\ UNCHANGED <<dead, exited, aborted, mapVars, phase, flag0, req, orphans>>

\* PMPI_Irecv posts the receive; if it fails at once, i-- makes the loop try
\* the same worker again, which by then is ignored.
MPI_Irecv(p) ==
    /\ Executes(p, "irecv") /\ ~Ignored(p)
    /\ \/ /\ req' = [req EXCEPT ![p] =
                       [epoch |-> epoch,
                        source |-> Append(@.source, [proc |-> Peer(p),
                                                     rank |-> PeerRank(p)]),
                        open |-> @.open \union {i[p]},
                        trials |-> @.trials]]
          /\ Advance(p)
          /\ Unnoticed
       \/ /\ Peer(p) \in dead /\ Notice(p, {Peer(p)})
          /\ UNCHANGED <<req, at, i>>
    /\ UNCHANGED <<dead, exited, aborted, mapVars, phase, flag0, net, buf, status,
                   orphans, got>>

-----------------------------------------------------------------------------
(* MPI_Wait: an iteration of the loop in wait_for_agg_request.             *)

Source(p, k) == req[p].source[k]
Inbox(p, k) == Messages(Source(p, k).proc, p, req[p].epoch)
Arrived(p) == {k \in req[p].open : Inbox(p, k) # {}}

\* Mutant: MPI_ERROR is not looked at.
Chosen_AnyStatus(p, done, failed) ==
    {k \in done \union failed : \A l \in done \union failed : k <= l}

\* The first status without error whose source is not ignored.  Its rank is
\* one of the communicator in which the receive was posted.
Chosen(p, done, failed) ==
    LET good == {k \in done : Source(p, k).rank \notin ignore'[p]}
    IN  {k \in good : \A l \in good : k <= l}

\* Mutant: one attempt less.
GivesUp_Early(p) == req[p].trials >= WaitTrials
\* trial_counter++ > 4, whatever the attempt has found.
GivesUp(p) == req[p].trials > WaitTrials

\* The buffers of a request are freed, also the ones of the workers of whom a
\* receive is still posted.
free_agg_request(p, posted) ==
    /\ req' = [req EXCEPT ![p] = NoRequest]
    /\ orphans' = orphans \union
          {[from |-> Source(p, l).proc, to |-> p, epoch |-> req[p].epoch, call |-> at[p]] :
              l \in posted}

\* What follows PMPI_Waitall when it has completed the receives done and the
\* receives failed have failed.  Completed and failed requests are not asked
\* for again.
AfterWaitall(p, done, failed) ==
    LET choice == Chosen(p, done, failed)
        left == req[p].open \ (done \union failed)
        Data(k) == IF Inbox(p, k) = {} THEN Nothing ELSE Oldest(Inbox(p, k)).data
        taken == {Oldest(Inbox(p, k)) : k \in done}
        late == left \intersect Arrived(p)
    IN  IF GivesUp(p)
        THEN /\ exited' = exited \union {p} /\ dead' = dead \union {p}
             /\ UNCHANGED <<at, net, req, orphans, got>>
        ELSE IF choice = {}
        THEN /\ req' = [req EXCEPT ![p].open = left, ![p].trials = @ + 1]
             /\ net' = net \ taken
             /\ UNCHANGED <<exited, dead, at, orphans, got>>
        ELSE LET k == CHOOSE c \in choice : TRUE
             IN  /\ Return(p, rank_2_job[Source(p, k).rank], "success", Data(k))
                 /\ net' = net \ (taken \union {Oldest(Inbox(p, l)) : l \in late})
                 /\ free_agg_request(p, left \ late)
                 /\ at' = [at EXCEPT ![p] = @ + 1]
                 /\ UNCHANGED <<exited, dead>>

\* PMPI_Waitall returns when all receives have completed, or with an error
\* when one has failed; the others may or may not have completed by then.  The
\* error handler does nothing for a communicator that was replaced.
MPI_Wait(p) ==
    /\ Executes(p, "wait")
    /\ \/ /\ Arrived(p) = req[p].open
          /\ Unnoticed
          /\ AfterWaitall(p, req[p].open, {})
       \/ \E failed \in SUBSET req[p].open :
             /\ failed # {} /\ \A k \in failed : Source(p, k).proc \in dead
             /\ IF req[p].epoch = epoch
                THEN Notice(p, {Source(p, k).proc : k \in failed})
                ELSE Unnoticed
             /\ \E done \in SUBSET (Arrived(p) \ failed) :
                   AfterWaitall(p, done, failed)
    /\ UNCHANGED <<aborted, mapVars, i, phase, flag0, buf, status>>

-----------------------------------------------------------------------------
(* A collective call: its operation and the loop around MPI_Comm_agree.    *)

\* The PMPI operation, which may fail once a member of the world is dead, and
\* MPI_Comm_agree: a process with a pending shrink calls the error handler
\* instead of the agreement.
MPI_Comm_agree(p) ==
    /\ Executes(p, "collective")
    /\ phase' = [phase EXCEPT ![p] = IF p \in pending THEN "shrink" ELSE "agree"]
    /\ \/ flag0' = flag0 \ {p}
       \/ dead \intersect world # {} /\ flag0' = flag0 \union {p}
    /\ Unnoticed
    /\ UNCHANGED <<dead, exited, aborted, mapVars, at, i, net, recvVars>>

AllIn(ph) ==
    aborted = 0 /\ Live # {} /\ \A p \in Live : Running(p) /\ phase[p] = ph

\* PMPIX_Comm_agree at all live members: no member has died before it (a dead
\* one that took part has phase "agree" as well).  The call is over if every
\* operation has succeeded, or is done again.
AgreeSucceeds ==
    /\ AllIn("agree")
    /\ \A q \in world : phase[q] = "agree"
    /\ at' = [p \in Proc |-> IF p \in Live /\ flag0 \intersect world = {}
                             THEN at[p] + 1 ELSE at[p]]
    /\ phase' = [p \in Proc |-> IF p \in world THEN "run" ELSE phase[p]]
    /\ Unnoticed
    /\ UNCHANGED <<dead, exited, aborted, mapVars, i, flag0, net, recvVars>>

\* It reports a failure, and the error handler shrinks.
AgreeFails ==
    /\ AllIn("agree") /\ dead \intersect world # {}
    /\ phase' = [p \in Proc |-> IF p \in Live THEN "shrink" ELSE phase[p]]
    /\ Unnoticed
    /\ UNCHANGED <<dead, exited, aborted, mapVars, at, i, flag0, net, recvVars>>

\* Mutant: rank_ignore_list is left as it is.
ClearIgnored_Not(W) == UNCHANGED ignore
\* rank_ignore_list[translated_ranks[rank]] = 0 for every survivor.
ClearIgnored(W) ==
    ignore' = [p \in Proc |->
                 IF p \in Live THEN ignore[p] \ {Map!Rank(q, W) : q \in W}
                               ELSE ignore[p]]

\* Mutant: the ranks are not translated.
Compact_OldRanks(W) ==
    /\ rank_list' = [j \in Job |-> SelectSeq(rank_list[j], LAMBDA r : ProcOf(r) \in W)]
    /\ rank_2_job' = [r \in DOMAIN rank_2_job |->
          IF \E q \in W : Map!Rank(q, W) = r
          THEN JobOf[CHOOSE q \in W : Map!Rank(q, W) = r] ELSE rank_2_job[r]]

\* The loops of update_job_list: the survivors of a line are moved to its
\* front with their ranks in the new world W.
Compact(W) ==
    LET Survivors(j) == {k \in DOMAIN rank_list[j] : ProcOf(rank_list[j][k]) \in W}
        Nth(j, n) == CHOOSE k \in Survivors(j) :
                         Cardinality({l \in Survivors(j) : l <= k}) = n
        Moved(j) == [n \in 1..Cardinality(Survivors(j)) |->
                        Map!Rank(ProcOf(rank_list[j][Nth(j, n)]), W)]
        JobWith(r) == CHOOSE j \in Job : \E n \in DOMAIN Moved(j) : Moved(j)[n] = r
    IN  /\ rank_list' = [j \in Job |-> Moved(j)]
        /\ rank_2_job' = [r \in DOMAIN rank_2_job |->
                            IF r < Cardinality(W) THEN JobWith(r) ELSE rank_2_job[r]]

\* Mutant: the communicator and what belongs to it are not replaced.
update_job_list_KeepsWorld(W) == UNCHANGED <<aborted, mapVars, ignore>>

\* update_job_list aborts the program (200) if a job has no worker left.
update_job_list(W) ==
    IF \E j \in Job : Map!Workers(j, W) = {}
    THEN aborted' = 200 /\ UNCHANGED <<mapVars, ignore>>
    ELSE /\ world' = W /\ epoch' = epoch + 1
         /\ Compact(W)
         /\ ClearIgnored(W)
         /\ UNCHANGED aborted

\* Behind the error handler a process that had a shrink pending has none (one
\* that comes from the agreement had none), and the loop calls MPI_Comm_agree
\* again.
HandlerReturns ==
    /\ pending' = pending \ Live
    /\ phase' = [p \in Proc |-> IF p \in Live THEN "agree" ELSE phase[p]]

\* PMPIX_Comm_shrink at all live members.  It removes the acknowledged
\* failures, the processes that died before it and any that died in it.
Shrink ==
    /\ AllIn("shrink")
    /\ \E F \in SUBSET (dead \intersect world) :
          /\ F # {}
          /\ \A q \in (dead \intersect world) \ F :
                phase[q] = "shrink" /\ \A p \in Live : Map!Rank(q, world) \notin ignore[p]
          /\ update_job_list(world \ F)
    /\ IF aborted' = 0 THEN HandlerReturns ELSE UNCHANGED <<pending, phase>>
    /\ UNCHANGED <<dead, exited, at, i, flag0, net, recvVars>>

-----------------------------------------------------------------------------
Crash(p) ==
    /\ Running(p) /\ Cardinality(dead \ exited) < MaxCrash
    /\ dead' = dead \union {p}
    /\ UNCHANGED <<exited, aborted, mapVars, at, i, phase, flag0, ignore, pending,
                   net, recvVars>>

Init ==
    /\ dead = {} /\ exited = {} /\ aborted = 0
    /\ world = Proc /\ epoch = 0
    /\ rank_list = [j \in Job |->
          [k \in 1..Cardinality(Map!Workers(j, Proc)) |->
              Map!Rank(CHOOSE p \in Map!Workers(j, Proc) :
                          Cardinality({q \in Map!Workers(j, Proc) : Pos[q] < Pos[p]}) = k - 1,
                       Proc)]]
    /\ rank_2_job = [r \in 0..(Cardinality(Proc) - 1) |->
                        JobOf[CHOOSE p \in Proc : Map!Rank(p, Proc) = r]]
    /\ at = [p \in Proc |-> 1] /\ i = [p \in Proc |-> 1]
    /\ phase = [p \in Proc |-> "run"] /\ flag0 = {}
    /\ ignore = [p \in Proc |-> {}] /\ pending = {}
    /\ net = {} /\ buf = [p \in Proc |-> Nothing]
    /\ status = [p \in Proc |-> NoStatus]
    /\ req = [p \in Proc |-> NoRequest] /\ orphans = {}
    /\ got = [p \in Proc |-> <<>>]

Step(p) ==
    \/ SkipIgnored(p)
    \/ MPI_Send(p)
    \/ MPI_Recv(p)
    \/ MPI_Irecv(p)
    \/ MPI_Wait(p)
    \/ MPI_Comm_agree(p)

Over == aborted # 0 \/ \A p \in Live : at[p] > Len(Program[JobOf[p]])
Finished == Over /\ UNCHANGED vars

Next ==
    \/ \E p \in Proc : Step(p) \/ Crash(p)
    \/ AgreeSucceeds
    \/ AgreeFails
    \/ Shrink
    \/ Finished

\* A live process keeps executing, and what PMPI can complete it completes.
Spec ==
    /\ Init /\ [][Next]_vars
    /\ \A p \in Proc : WF_vars(Step(p))
    /\ WF_vars(AgreeSucceeds \/ AgreeFails) /\ WF_vars(Shrink)

-----------------------------------------------------------------------------
\* Every variable keeps its type.
TypeOK ==
    /\ dead \subseteq Proc /\ exited \subseteq dead /\ aborted \in {0, 200}
    /\ world \subseteq Proc /\ epoch \in Nat
    /\ \A j \in Job : \A k \in DOMAIN rank_list[j] : rank_list[j][k] \in DOMAIN rank_2_job
    /\ \A p \in Proc : /\ at[p] \in 1..(Len(Program[JobOf[p]]) + 1)
                       /\ i[p] \in 1..Cardinality(Proc)
                       /\ phase[p] \in {"run", "agree", "shrink"}
                       /\ ignore[p] \subseteq DOMAIN rank_2_job
                       /\ req[p].open \subseteq DOMAIN req[p].source
                       /\ req[p].trials \in 0..(WaitTrials + 1)
    /\ pending \subseteq Proc /\ flag0 \subseteq Proc

\* The n-th receive of job j from job b takes the n-th send of b to j.
Sends(b, j) == {s \in DOMAIN Program[b] : Program[b][s] = [call |-> "send", peer |-> j]}
Receives(j, b) ==
    {k \in DOMAIN Program[j] : Program[j][k].call \in {"recv", "wait"} /\ Program[j][k].peer = b}
Matches(b, s, j, k) ==
    Cardinality({l \in Sends(b, j) : l <= s}) = Cardinality({l \in Receives(j, b) : l <= k})

\* The number of the send that the receive k of job j is for.
Expected(j, k) ==
    LET b == Program[j][k].peer
    IN  CHOOSE s \in Sends(b, j) : Matches(b, s, j, k)

\* Programs that keep their messages between two collective calls: a message
\* is sent and received between the same two, and between an MPI_Irecv and its
\* MPI_Wait there are only sends.
Section(j, k) == Cardinality({l \in 1..k : Program[j][l].call = "collective"})
MessagesBetweenCollectives ==
    \A j, b \in Job :
        /\ \A s \in Sends(b, j) : \E k \in Receives(j, b) :
              Matches(b, s, j, k) /\ Section(b, s) = Section(j, k)
        /\ \A k \in Receives(j, b) : \E s \in Sends(b, j) :
              Matches(b, s, j, k) /\ Section(b, s) = Section(j, k)
Pair(j, k, w) ==
    /\ Program[j][k].call = "irecv" /\ Program[j][w].call = "wait"
    /\ Program[j][k].peer = Program[j][w].peer
    /\ k < w /\ \A l \in (k + 1)..(w - 1) : Program[j][l].call = "send"
WaitsBetweenCollectives ==
    \A j \in Job : \A n \in DOMAIN Program[j] :
        /\ Program[j][n].call = "irecv" => \E w \in DOMAIN Program[j] : Pair(j, n, w)
        /\ Program[j][n].call = "wait" => \E k \in DOMAIN Program[j] : Pair(j, k, n)

JobAlive(j) == Map!Workers(j, Live) # {}

\* A receive that reports success, or whose source still has a live worker,
\* has returned the message it is for: not one of another call, of a failed
\* receive or of a dead communicator.  And MPI_Wait has translated the rank in
\* the status to the job it was asked for (MPI_Recv does not).
RightMessage ==
    \A p \in Live : \A n \in DOMAIN got[p] :
        LET r == got[p][n]
            c == Program[JobOf[p]][r.call]
        IN  /\ r.error = "success" \/ JobAlive(c.peer) =>
                   r.data = Expected(JobOf[p], r.call)
            /\ c.call = "wait" => r.source = c.peer

\* After a shrink the compacted rank lists and rank_2_job describe the new
\* world: who works for a job, in the order of the map, under which rank.
JobListMatchesWorld ==
    /\ \A j \in Job :
          LET W == Map!Workers(j, world)
          IN  /\ Len(rank_list[j]) = Cardinality(W)
              /\ \A p \in W :
                    rank_list[j][Cardinality({q \in W : Pos[q] <= Pos[p]})] =
                        Map!Rank(p, world)
    /\ \A p \in world : rank_2_job[Map!Rank(p, world)] = JobOf[p]

\* A process ignores only dead ranks, and only while its shrink is pending:
\* the shrink that it waits for gives every rank back.
IgnoredAwaitShrink ==
    \A p \in Live :
        LET now == {r \in ignore[p] : r < Cardinality(world)}
        IN  /\ \A r \in now : ProcOf(r) \in dead
            /\ p \in pending <=> now # {}

\* MPI_Wait gives up (exit 999) only when no worker of the source is left:
\* its attempts are enough for all but one of the workers failing in turn.
GivesUpOnlyIfLost ==
    \A p \in exited : ~JobAlive(ThisCall(p).peer)

\* Every receive returns: whichever workers fail, in the end no process is
\* left waiting in MPI_Recv, MPI_Irecv or MPI_Wait.
Receiving(p) == \E c \in {"recv", "irecv", "wait"} : Executes(p, c)
ReceivesReturn == <>[](\A p \in Proc : ~Receiving(p))

\* The one way to wait for ever: a process with a pending shrink calls the
\* error handler while another one is in the agreement.  Without that every
\* failure, ignored or not, is repaired by the next collective call, and the
\* program comes to its end.
Mixed == \E p, q \in Live : phase[p] = "shrink" /\ phase[q] = "agree"
FinishesUnlessMixed == [](~Mixed) => <>Over

\* The same whoever meets a failure: an ignored failure is repaired by the
\* next collective call.
AlwaysFinishes == <>Over

\* No receive is posted into a buffer that MPI_Wait has freed.
NoOrphans == orphans = {}

=============================================================================

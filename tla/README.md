# A TLA+ verification of EntangledMPI

EntangledMPI runs an MPI program with replicas: every logical rank of the
program (a *job*) is executed by several MPI processes (its *workers*), so that
the program survives the death of a process as long as each job keeps a worker.
It sits between the program and a ULFM-enabled MPI library as a profiling
library: the program's `MPI_*` calls are the library's, which uses `PMPI_*`.

Source paths below are relative to the repository.

## 1. Inventory

| Component | Source | State | Operations | Talks to |
|---|---|---|---|---|
| Collective calls | `src/mpi/init.c` | per call: `mpi_status`, `flag`, `total_trails` | `MPI_Scatter`, `MPI_Bcast`, `MPI_Gather`, `MPI_Allgather`, `MPI_Reduce`, `MPI_Allreduce` | PMPI, error handler (callback), map polling at the start of each call |
| Failure handling | `src/mpi/ulfm.c` | `last_group_failed`, `previous_world_group`, `rank_ignore_list`, pending shrink | `rep_errhandler`, `update_job_list`, `is_failed_node_world_job_comm_root` | called by PMPI on errors; rebuilds job list and communicators |
| Communicators, map | `src/mpi/comm.c`, `src/shared.h` | `node`, `job_list`, `rank_2_job` | `init_node`, `parse_map_file`, `update_comms`, `create_migration_comm` | map file, PMPI |
| Replication | `src/replication/rep.c`, `dataseg.c`, `stackseg.c` | `last_file_update`, `replication_idx`, saved context | `is_file_update_set`, `init_rep`, the segment transfers | map file, checkpoint, heap list |
| Heap list | `src/replication/heapseg.c` | `head`, `tail`, `malloc_number_of_allocations` | `rep_malloc`, `rep_free`, `rep_assign_malloc_context`, `transfer_heap_seg` | called by the program and by `init_rep` |
| Checkpoint | `src/checkpoint/full_context.c` | one file per job | `init_ckpt`, `init_ckpt_restore` | data, stack, heap list |
| Map polling | `src/misc/file.c` | file time stamps | `is_file_modified`, `set_last_file_update`, `save_rep_and_stack_info` | manager (through files) |
| Process manager | `src/manager/manager/manager.go` | job map, update bits, stack addresses | `Choose`, `Assign`, `WriteToFile`, `InitStackData` | map file, `rep_stack.info` |
| Point-to-point calls | `src/mpi/init.c`, `async.c` | aggregated requests, `__request_pending`, ignore list | `MPI_Send`, `MPI_Recv`, `MPI_Irecv`, `MPI_Wait` | error handler in "ignore" mode |
| Fault injector | `src/manager/fault_injector` | queue of victims | `getNew`, `NextN`, kill loop | map file, `network.stat` |
| RNG, Fortran bindings, logging | `src/manager/rng`, `src/fortran`, `src/misc` | none of interest | - | - |

What is hard here: collectives of processes of which some see a failure and
some do not; a second failure inside the error handler; rank numbers that
change with every shrink while maps and groups still hold old ones; a result
that exists at one master only until it is broadcast; failures that
point-to-point calls note and leave to the next collective; processes that look
at the map file one by one; checkpoints of several jobs that only make sense
together; a manager that never waits for the program; and a hand-made list that must describe the heap
exactly, because other processes' memory is rebuilt from it. The list of
hazards, each at its line, is in `PROJECT.json`.

What makes a component correct:

* collective calls: who returns has the result; the survivors take the same
  branches; the call ends; an attempt is repeated only because of a failure;
* failure handling: no live process and no job is lost by a shrink; the death
  of a master is recognised;
* point-to-point calls: every receive returns, with the message it is for,
  whichever workers of the source die;
* polling and restart: the processes act as one program, which adopts every map
  and continues after a restart as a whole, and always goes on;
* map: each process works for the job the map names, from the memory of that job;
* heap list, checkpoint: a copied heap is the heap, and list and heap agree;
* manager: it always finds a job for a rank, and none it could not join;
* fault injector: it leaves every job a worker, and comes to an end.

## 2. Modules

| Module | What it models |
|---|---|
| `JobMap` | The replication map and what is derived from it and from the set of processes in the current world: workers, masters, `active_comm`, `world_job_comm`, ranks, the root-failure check. Constants and their assumptions. |
| `Collective` | One collective call executed by all processes while some crash. |
| `CollectiveProofs`, `CollectiveDataProofs`, `CollectiveRetryProofs` | Theorems about `Collective`: types, world and lock step; data; retries, the recorded failure groups and the takeover in `MPI_Reduce`. |
| `ReplicaMap` | The manager and the adoption of its maps by the program. |
| `HeapSeg` | The allocation list with migration and checkpoint of the heap. |
| `PointToPoint` | Send, receive, nonblocking receive and wait between replicated jobs, the ignore list, the pending shrink and the agreement that repairs it. Uses `JobMap`. |
| `MapFile` | Each process polling the map file, adopting a map, checkpointing and restarting. |
| `ProgramSpec` | What `MapFile` promises: one program that adopts maps and restarts as a whole. |
| `FaultSelector` | The fault injector beside the manager. |
| `ReplicaMapProofs`, `HeapSegProofs`, `PointToPointProofs`, `MapFileProofs`, `FaultSelectorProofs` | Theorems about these components. |
| `MC...` | Instances for TLC. |

The definitions named `X_Something` before a definition `X`, marked *Mutant*,
are wrong versions of `X` used to show that a property can fail.

### Collective

The six functions share one control structure and are described by records
(`MPI_Scatter`, ...): the communicator of the main operation, the direction of
its data, whether the result is made of the blocks of the jobs or combined from
them in the receive buffer, whether `mpi_status` is reset at the top of the
loop, whether a failure resets `flag`, and which jobs broadcast the result.

`stage` is the loop a process is in (`"main"`: the outer one, `"replicate"`:
the inner broadcast to the replicas) and `pc` its place in it: `"call"` (top of
the loop), `"comm"` (in the PMPI operation), `"agree"` (in `MPI_Comm_agree`),
`"ack"`, `"shrink"` (in `rep_errhandler`), `"done"`.

| Action | Code |
|---|---|
| `StartTrial`, `AbortTrials` | top of the outer loop, `total_trails`, `PMPI_Abort(.., 10)` |
| `StartReplicate` | top of the inner loop |
| `OpSucceeds`, `OpFails` | return of the PMPI operation, assignment of `flag` |
| `AgreeSucceeds`, `AgreeFails` | return of `MPI_Comm_agree`; the branches after it |
| `AckFailures`, `Shrink` | `rep_errhandler` on the world communicator, `update_job_list`, `update_comms` |
| `Crash` | a process dies, at any point |

Buffers are abstracted to "holds the result or not" (`filled`). A failed
operation may leave a buffer untouched or half overwritten, and so cost a
process the result of an earlier attempt (`Spoils`): a broadcast from a buffer
without the result does, and so does a partial reduction; blocks are the same in
every attempt. Failures are
reported to processes at different times (`seen`), so two processes can
acknowledge different sets. `flag` of `MPI_Reduce` is uninitialised, so `Init`
allows any value.

PMPI/ULFM is external and assumed to follow its specification: an operation
with a dead member returns, agreement and shrink are uniform over the live
members. Simplifications: the handler from the shrink to the new communicators
is one step (a crash falls before or after it); the call starts with no shrink
pending from point-to-point calls and no map to adopt.

### ReplicaMap

The manager's loop (`Choose`, `ChooseEnds`, `Assign`, `WriteToFile`,
`InitStackData`) runs beside the program (`MPI_Init`, `AdoptMap`, and `Shrink`
for a failure handled by a collective). Random draws are nondeterministic
choices; drawing until a job fits is modelled by the set `Eligible`, and the
draw never ends exactly when it is empty. The memory of a process is the job it
was made for (`image`). All processes adopt a map in one step.
`PollsEachMap` says whether the program reads each map before the next one is
written: nothing in the code enforces it, it depends on the pause between
updates and on how often the program communicates.

### HeapSeg

`mem[p]` holds the list, the two end pointers' staleness (`rep_remove` leaves
`head` and `tail` at a freed element), `malloc_number_of_allocations`, the
allocated blocks and the program's pointers. Undefined behaviour ends in
`fault`. Blocks and list entries have sizes, and reading more of a block than it
has is a fault (`"overRead"`): every entry of a pointer is sent and saved with
its own size, from the block that the pointer has now. `used` remembers what the
program has done: copied a pointer, freed a block, allocated a pointer again, and
allocated it again with a smaller size. `NoFault` and `CopyFaithful` are about
programs that only allocate, and no pointer again with a smaller size
(`Allocates`); `ListAccountsForHeap` is about programs that allocate each pointer
once, because a second allocation leaves the obsolete entry in the list;
`EveryBlockRecorded` is about all programs. What the excluded calls break is in
section 4. Every block holds a datum of its own, which the library cannot tell
from any other. The transfer of data and stack segment before the heap is the
copy of the pointers.

| Action | Code |
|---|---|
| `rep_malloc`, `rep_assign_malloc_context`, `rep_free` | the functions of these names |
| `transfer_heap_seg` | the sender's whole part and, at the receiver, everything up to its loop: the arrival of pointers and count, `rep_clear_discontiguous` |
| `ReceiveEntry` | a round of the receiver's loop |
| `save_heap_seg` | the master writes list, contents and stack to the checkpoint |
| `init_ckpt_restore` | the program is started again and reads the stack and the count |
| `RestoreEntry` | a round of `restore_heap_seg` |
| `LoopEnds` | the receiver, or the restored process, continues the program |

`loop[p]` is the loop a process is in: the entries still to come and the memory
that is being copied (`image`, kept only to compare). The sender of a
`PMPI_Bcast` need not wait, so it may allocate, free and be copied again while a
receiver is in its loop, and a restart can cut the loop short. `CopyFaithful`
compares copy and original when the loop has ended.

### PointToPoint

Every process executes the calls of its job (`Program`), one PMPI call at a
step, with `at` its call and `i` the index of the loop over the workers of the
peer. A collective call stands for one of the five functions whose operations
are on `active_comm` and `world_job_comm`, for which the error handler does
nothing: of the operation only its flag is kept (`flag0`), and point-to-point
failures meet it in the loop around `MPI_Comm_agree`. `Collective` has the rest.
`MPI_Bcast` (`init.c:686`) and `MPI_Barrier` (`init.c:423`) are different: their
operation is on the world communicator, whose handler shrinks inside it, so that
a pending shrink can be overtaken without `init.c:1332` clearing its flag. They
are not calls of this module; `MPI_Bcast` is in `Collective`.

| Action | Code |
|---|---|
| `SkipIgnored` | `continue` for a worker in `rank_ignore_list` |
| `RecvEnds`, `Return` | what a receive hands to the program: `MPI_Recv` the status and the code of the last worker asked, with the sender's rank in the world communicator as its source (`init.c:535`); `MPI_Wait` the job that this rank works for (`async.c:199`) |
| `MPI_Send`, `MPI_Recv`, `MPI_Irecv` | one iteration of their loops; the error branch with `Notice`, the "ignore" branch of `rep_errhandler` |
| `MPI_Wait` | one `PMPI_Waitall` of `wait_for_agg_request` and what follows (`Chosen`, `GivesUp`, `free_agg_request`) |
| `MPI_Comm_agree`, `AgreeSucceeds`, `AgreeFails`, `Shrink` | the operation and the agreement, which a process with `__process_shrinking_pending` replaces by the shrink; `update_job_list` with the compaction of the rank lists (`Compact`: the list that the loop leaves, not its single assignments) and of the ignore list (`ClearIgnored`); `HandlerReturns` clears the flag where `init.c:1332` does |
| `Crash` | a process dies between two PMPI calls |

Messages stay in `net` until they are received, tagged with the communicator
(`epoch`) they were sent on; messages between two processes keep their order. A
receive from a dead process may complete or fail, and a failed one may leave
half a message (`Torn`). Which failures the handler learns of is a choice that
contains the one just met. A receive that `MPI_Wait` leaves posted when it frees
the request (`orphans`) still takes a message; it carries the number of its call,
and of two such receives the one posted first is served first (`FirstPosted`).
`WaitTrials` is the number that `trial_counter` is compared with, 4 in the code.
Assumed of the MPI library: `PMPI_Waitall` fills in
the statuses, a receive from a dead process ends with `MPIX_ERR_PROC_FAILED`, and
an agreement and a shrink on the same communicator never match.

### MapFile and ProgramSpec

`phase` follows a process through `MPI_Init`, `is_file_update_set` and the rest
of a collective call; steps that are collective in the code (`InitComms`,
`save_rep_and_stack_info`, `PMPI_Barrier`, `PMPI_Allreduce`, `update_comms`,
`Collective`) need all processes in the same phase, `init_rep` those of one
migration, and the others are taken by each process on its own. A map has update
bits (`Bit`): a line without the bit gives its processes neither a job nor a part
in a migration (`ParsedJob`, `Transit`), but it does make its first rank the
master. A process that has changed its job receives the memory of the first of
its line (`init_rep`, phase `"rep"`); without a sender it ends in `"crashed"`,
and so do all processes in `MPI_Init` when one has no job, -1 not being a valid
colour for `PMPI_Comm_split`. The maps are given as constants;
`MapsAssumption` says of them what the manager's code in `ReplicaMap` gives: an
unmarked line has not changed, and the first rank of a line was on it before.
The program is a loop of `NCalls` collective calls and
its memory is its place in this loop, `pos`; a checkpoint keeps the `pos` of its
job. `PendingAt` says during which calls a job has a receive posted, for which
the adoption of a map is postponed. `Halt` stops the program and starts it
again. A process that restores from an incomplete file ends (`"crashed"`): what
it reads is undefined.

Two constants name assumptions the code does not enforce. `WritesAnyTime =
FALSE`: no map is written between the looks of two processes at the file for the
same call, nor before the map before it was adopted (update bits are relative to
the map before, so a skipped map loses some). `HaltsAnyTime = FALSE`: the program
does not stop between the first and the last checkpoint of a map, nor under a map
that does not mark every line (a process that starts has no job until a marked
line gives it one). Without the first nearly everything fails (see 4.), without
the second run `ckpt_halt` shows what happens.

`ProgramSpec` knows nothing of processes: it has one map, one position, one
checkpoint. The refinement mapping of `MapFile` takes a map as adopted when the
last process has parsed it, a checkpoint as made when the last job has closed
its file, and the program as up when the last process has left `MPI_Init` or has
restored. `ImplementsOneProgram` is that the steps of all processes between
these points are stutters, so no one can see half an adoption or half a restart.
It is a safety refinement; that the program goes on is stated by `KeepsGoing`
and `LatestMapAdopted`.

### FaultSelector

`getNew` is an iteration of the drawing loop (`Spared`: thrown away;
`AlreadyQueued`: the five repetitions; `Queue`), `NextN` ends the selection and
`kill` works the queue off; ssh may fail at any time, which ends the injector.
`Remap` is the manager moving a replica meanwhile. The options are all that the
package offers; the command uses `KILL_ANY`.

## 3. Runs

| Run | Instance | Checks |
|---|---|---|
| `scatter_one_crash` | 5 processes, 2 jobs, 1 crash | `TypeOK`, `LockStep`, `RetriesPaidByFailures`, `ReplicaFailuresHarmless`, `FailureGroupRecorded`, `Terminates`, no deadlock |
| `reduce_takeover` | 5 processes, 1 crash, root job 0 | `BroadcastsResult`, `Terminates`, no deadlock |
| `bcast_two_crashes` | 5 processes, 2 crashes | `DataCorrect` |
| `map_polled` | 4 jobs, 6 ranks, 2 maps, 1 crash, maps polled, equal stacks and two stack addresses | `TypeOK`, `AssignTerminates`, `MapTakesEffect`, `NeverAborted` |
| `heap_moves` | 2 processes, 2 pointers, 2 allocations of sizes 1 and 2, 3 moves, all calls | `NoFault`, `CopyFaithful`, `ListAccountsForHeap`, `EveryBlockRecorded` |
| `p2p_exchange` | 4 processes, 2 jobs, 2 crashes, 1 failed attempt allowed; a send, a collective, a reply | `TypeOK`, `RightMessage`, `JobListMatchesWorld`, `IgnoredAwaitShrink`, `GivesUpOnlyIfLost`, `ReceivesReturn`, `FinishesUnlessMixed` |
| `mapfile` | 3 processes, 2 jobs, 5 maps, 3 calls, 2 restarts | `TypeOK`, `SameCall`, `ImplementsOneProgram`, `LatestMapAdopted`, `KeepsGoing`, no deadlock |
| `selector` | 3 jobs, all maps and options, 5 draws, 1 remap | `TypeOK`, `JobsSurvive`, `VictimsRunning`, `SelectionEnds` |
| `allgather_master_dies` | 4 processes, 1 crash | violates `DataCorrect` |
| `map_crash` | 2 jobs, 4 ranks, 1 crash | violates `JobsFollowMap` |
| `p2p_pending` | 4 processes, 1 crash; an exchange, then a collective | violates `AlwaysFinishes` |
| `ckpt_halt` | as `mapfile`, stops at any time | violates `SameCall` |

Bounds. Five processes give one job three workers and the other two, so that a
master, its successor and a bystanding replica exist, and the ranks of both
jobs move when a process disappears; with one crash every point of the call is
hit, with two the second falls into the handling of the first. `NO_TRIALS` is
the code's 10. Two maps are the least with an adoption after `MPI_Init`; six
ranks for four jobs make up to two ranks move at once (with three maps, 3.7
million states, the properties hold as well). Two allocations of two sizes allow
one pointer to be allocated again, larger or smaller, or two pointers to be
allocated; three moves are a migration there and back and another one, or a
checkpoint of a migrated heap and its restart; processes and pointers of
`HeapSeg` are symmetric. In `p2p_exchange` two workers per job are one to die and
one to take its place; the failures can fall before, into or after the collective
call and be met in a send, in a receive, in a wait or only by the agreement, and
with two of them a job can lose all its workers, so that processes do exit in
`MPI_Wait`. The limit of attempts is scaled with the workers: the code allows four
failed attempts, enough for five workers, and the run allows one for two, so that
the boundary is reached (with one attempt less the property fails, which is its
mutant, and with one worker more as well, see section 4). A larger instance, one
worker and three, two failed attempts, three crashes and receives left posted
(`SendsAndAnswer`, 111022 states), also passes. The maps of `mapfile` move ranks
behind the workers of their own or of the other job, as the manager does, until
every process has been master and replica, sender and receiver; one of them marks
one line only; a
pending receive in one of three calls lets a map be seen before, at and after
it; the second restart restores from a checkpoint made after the first. Five
draws from three jobs exceed what may be killed, so the selector meets its limit.

Deadlock is not checked where the system does stop: with two failures, and in
`MPI_Bcast`, processes can wait for each other for ever (see below), and so can
they after a failure in a point-to-point call; the manager with two stack
addresses may draw for ever; the selector and `HeapSeg` end when their bounds
are used up.

Fairness (`FairSpec`): weak fairness of every step of a live process and of
agreement and shrink. A live process keeps running and PMPI operations return
once they can, which the progress rule of MPI and ULFM's guarantee that
operations with failed members return justify. Nothing forces a crash. The
`Spec` of `PointToPoint` and of `MapFile` assume the same of each process's
steps and of the collective steps; nothing forces a map to be written or the
program to stop. In `FaultSelector` a draw that is not thrown away is eventually
made (the generator is uniform), which is weak fairness of `getNew` because
draws that are thrown away change nothing.

## 4. Known divergences

Four are runs of the project, with findings in `PROJECT.json`:

* `allgather_master_dies`: a master dies in the main operation, after its block
  was sent, and the operation succeeds at the others. The agreement fails and the
  loop around it (`init.c:900`) repairs the communicators and agrees again, with
  all flags still 1, so the main operation is not repeated. The root of the inner
  broadcast is now the replica, whose buffer never received the result; the
  broadcast succeeds, and so nobody asks whether the root had died.
* `map_crash`: after a shrink the ranks of the map, documented as original
  ranks, are compared with renumbered ones.
* `p2p_pending`: a process that noted a failure in a point-to-point call runs the
  shrink in the next `MPI_Comm_agree` while one that did not note it agrees.
* `ckpt_halt`: a stop between two masters' checkpoints makes jobs restart from
  different calls.

Others appear when constants of a configuration are changed:

| Module and constants | Property violated | Cause |
|---|---|---|
| Collective, `MPI_Bcast`, 4 processes, 1 crash | `Terminates` | `init.c:686`, the error handler of the world communicator shrinks inside `PMPI_Bcast` at some processes while the others agree |
| Collective, `MPI_Scatter`, 4 processes, 1 crash | `RootDeathDetected` | `ulfm.c:247`, ranks of two worlds |
| Collective, `MPI_Gather`, 5 processes, 1 crash | `NoTrialsAbort` | `init.c:776`, `mpi_status` is not reset as it is in `MPI_Scatter` (line 572) |
| Collective, `MPI_Scatter`, 5 processes, 2 crashes | `LockStep` | `ulfm.c:86`, each process decides by the failures it has acknowledged |
| Collective, `MPI_Scatter`, 4 processes, 2 crashes | `FailureGroupRecorded` | `ulfm.c:247`, a process sees a failure, reports an unset flag to the agreement and dies; the agreement succeeds, nobody shrinks, and the survivors ask about groups that were never set |
| Collective, `MPI_Reduce`, 5 processes, 1 crash, `RootJob = 1`; or `RootJob = 0`, 2 crashes | `BroadcastsResult` | `ulfm.c:247`, ranks of two worlds: the death of the root's master is missed, and the replica that took over broadcasts what it has |
| Collective, `MPI_Scatter`, `MPI_Gather` or `MPI_Allgather`, 5 processes, 1 crash | `BroadcastsResult` | `ulfm.c:247` again, for the master of any job |
| Collective, `MPI_Reduce`, 5 processes, 1 crash | `ReplicaFailuresHarmless` | `init.c:115`, `SET_FLAG_ON_SUCCESS` never resets `flag` |
| ReplicaMap, 4 jobs, 5 ranks, 3 updates, `PollsEachMap = FALSE` | `ImageMatchesJob` | `manager.go:66`, update bits of a map nobody read are forgotten |
| ReplicaMap, 2 jobs, 5 ranks, `NRanks <= 2 * NJobs` dropped from `AssignTerminates` | `AssignTerminates` | `manager.go:208`, every job has two ranks |
| ReplicaMap, two stack addresses | `Eligible(..) # {}` in `"assign"` | `manager.go:212`, no job with such a stack has room |
| HeapSeg | `NeverFaults` | `heapseg.c:213`, `rep_free` leaves `malloc_number_of_allocations` and the next transfer walks past the end of the list; `heapseg.c:98`, a copied pointer's block is freed twice |
| HeapSeg, `Allocates` also with `"smaller"` | `NoFault` | `heapseg.c:213`, `full_context.c:99`, a pointer is allocated again with a smaller size: the old entry is still in the list, and as many bytes as it says are read from the new block |
| HeapSeg | that no two entries of a list are for the same pointer | `heapseg.c:120`, `rep_malloc` appends and removes nothing, and `heapseg.c:213` sends every entry from the head on; the comment in `heapseg.h:20-32` has the list read from its tail, one entry per pointer sent and the obsolete one removed |
| HeapSeg, `Allocates` dropped from `CopyFaithful` | `CopyFaithful` | `full_context.c:173`, a copied pointer gets an empty block |
| HeapSeg | `FreesWhatItIsGiven` | `heapseg.c:148`, the first entry of a pointer allocated twice is the obsolete one |
| PointToPoint, `MessageAcrossCollective` | `ReceivesReturn` | `ulfm.c:117`, a message of the old communicator is lost when the world shrinks |
| PointToPoint, `ReceiveAcrossCollective` | `RightMessage` | `async.c:196`, the rank of a receive posted before the shrink is looked up after it |
| PointToPoint, 5 processes, `ExchangeThenCollective` | `NoOrphans` | `async.c:330`, buffers are freed while a receive is posted into them |
| PointToPoint, more than `WaitTrials + 1` workers in a job (`OneAndThree`, `WaitTrials = 1`, 2 crashes); with the code's 4, six workers of which five fail one after the other | `GivesUpOnlyIfLost` | `async.c:206`, the counter is tested after a success too: the attempt that finds the message of the last worker exits |
| PointToPoint, `r.source` is the peer for `MPI_Recv` too | this form of `RightMessage`, without any crash | `init.c:535`, the program's status is handed to `PMPI_Recv` and keeps the rank of the sender's process; `async.c:199` translates it to the job. The returned code is that of the last worker asked, also after a success before it, and is never set if every worker is ignored |
| MapFile, `WritesAnyTime = TRUE` | `SameCall`, `KeepsGoing`, `LatestMapAdopted`, `ImplementsOneProgram` | `rep.c:50`, one process sees a map the other does not and waits in `PMPI_Allreduce`; or they parse different maps; or, in `MPI_Init`, a map written between `init_node` and `set_last_file_update` is taken for read; or a map nobody read had the update bit that gives a process its job, or a line its sender (`comm.c:113`, `rep.c:157`): the process keeps its old job, or waits for a memory that nobody sends |
| MapFile, `SleepTime = 0` | `LatestMapAdopted` | `file.c:22`, two maps with the same time stamp |
| MapFile, `HaltsAnyTime = TRUE` | `KeepsGoing`, `LatestMapAdopted`, `ImplementsOneProgram` | `init.c:353`, processes without a checkpoint wait in the barrier, the others in `PMPI_Allreduce`; or the program is started under a map that does not mark every line, and the processes of the other lines keep job -1 (`comm.c:32`, `comm.c:113`), although `README.md:120` promises the start from the checkpoint |
| FaultSelector, `SelectionEnds` without its condition, on a map in which no job has a replica | `SelectionEnds` | `selector.go:101`, unless `KillEvenIfNotReplicated` is set and compute ranks may be drawn, every draw is thrown away, and only draws of queued ranks are counted: the loop does not end |
| FaultSelector | `JobsAlwaysSurvive` | `fault_injector.go:44`, the map that was read is not the one in use any more |

## 5. Proofs

The theorems hold for every value of the constants that satisfies the
assumptions of the modules. These say of the constants what the code gives:
finitely many processes, no two of them at the same place of a line of the map
(`ProcAssumption`, `JobAssumption`, `MapAssumption`, `RanksDistinct`,
`MapFileAssumption`), every job with a worker at the start, at least one attempt
or update. Hypotheses that restrict a theorem further are part of its statement
and are given below with their reason. Each invariant was checked by TLC on the
instances of section 3 before it was proved.

### Collective

* `TypeCorrect`: `Spec => []TypeOK`, one step per action.
* `WorldSafe`: no shrink removes a live process or leaves a job without worker
  (`WorldInv`). It rests on `HeadExists`, which finds the first of a nonempty
  set of workers by well-founded induction on the positions.
* `LockStepHolds`: with at most one failure, for every operation but
  `MPI_Bcast`. `LockStep` alone is not inductive: `LockStepInv` adds that a
  process about to shrink has acknowledged exactly the one dead process, and
  that the survivors outside of the handler hold the same `last_group_failed`,
  by which they decide; two failures destroy that.
* `ReplicaFailuresHarmlessHolds`: for the functions that assign `flag`
  (`MPI_Scatter`, `MPI_Gather`, `MPI_Allgather`, `MPI_Allreduce`) and any number
  of replica failures. The invariant `DataInv` says that masters hold the result
  in the inner loop, and that a process whose flag is set after the inner
  broadcast holds it.
* `BcastDataCorrect`: for `MPI_Bcast` and any failures at all. The invariant
  `BcastInv` says that all workers of the root job hold the data and so does
  every process with a set flag.
* `FailureGroupRecordedHolds`: with at most one crash, for every operation but
  `MPI_Bcast`; with two it is false (section 4). `HandlerInv` says that all live
  processes are in the handler as soon as one member of the world is, and
  `GroupInv` that a process which remembers a failed operation has either seen a
  failure it has yet to acknowledge, or has been through a shrink.
* `RetriesPaidByFailuresHolds`, `AbortNeedsFailures`: for `MPI_Scatter`, any
  number of crashes (`MPI_Gather`, which keeps `mpi_status`, can repeat without
  a failure). "Attempts are at most one more than the removed processes" is not
  inductive: a process that saw a failure can die in the agreement before it
  shrinks, and the attempt this costs is owed to two dead processes of which the
  world still contains both. `Paid` counts such a pair (`Doomed`) until the next
  shrink removes it, and `Clean` says that an unset flag in the agreement always
  comes from a seen failure.
* `BroadcastsResultHolds`: for `MPI_Reduce`, at most one crash, and layouts that
  satisfy `RootDeathSeen`: without its first master, if the root's job has another
  worker, some job's head gets the rank that this master had. That is what
  `is_failed_node_world_job_comm_root` really tests. It is true when the master is
  rank 0, as in run `reduce_takeover`, whose module checks it as an assumption; it
  is false for job 1 of the same layout, and there the property is false too
  (section 4). `ShrunkInv` says that one crash leads to one shrink, after which
  everybody knows who died. `TakeoverInv` says that the root's master holds the
  result from the end of its main operation on, with three exceptions that the
  next agreement removes: it took over and has withdrawn its flag; a master died
  in its main operation and it has that failure to report; or it has reported it,
  and the replica of that master has withdrawn its flag. In the first case
  `RootDeathSeen` leads back to the main operation; the other two make the
  agreement on the main operation fail.

### ReplicaMap

* `ReplicaMapTypeCorrect`: `TypeOK` says that no line of the manager's map, or of
  the file once it is written, is empty: `Choose` never takes the last rank.
  `TypeInv` is the same with sharper bounds.
* `AssignTerminatesHolds`: from `PlaceInv`, that every rank is in exactly one
  place, on a line or among the chosen ones. While a rank waits to be assigned
  at most `2 * NJobs - 1` are on lines, so by the pigeonhole principle a line has
  fewer than two.
* `MapTakesEffectHolds`, `NeverAbortedHolds`: under `PollsEachMap`, which the code
  does not enforce and without which `ImageMatchesJob` fails (section 4).
  `PolledInv` says how far the manager is ahead: the head of a line always works
  for its job already, and whoever has been added to a line with an update bit
  has the stack of the head.

### HeapSeg

* `EveryBlockRecordedHolds`: for every program. `HeapInv` adds the types and that
  a loop has at most as many rounds left as the list lacks entries to the count.
* `NoFaultHolds`, `CopyFaithfulHolds`: for programs that only allocate, and no
  pointer again with a smaller size (`Allocates`, part of the properties).
  `ListAccountsForHeapHolds`: for programs that allocate each pointer once
  (`used = {}`). `AllocInv` describes a process that runs its program by `Good`
  (one entry per block with its size, and a pointer leads to the block of its
  latest entry, which is as large as any entry of the pointer says) and a process
  in a loop by `CopiedTo`: after k rounds the first k entries of the image are
  copied, their pointers lead to the latest copy and the other pointers are as
  they arrived. That pointers are equal in the copy iff
  they are in the original follows because no two entries share a block, in
  neither memory.

### PointToPoint

* `IgnoredAwaitShrinkHolds`, `JobListMatchesWorldHolds`,
  `PointToPointTypeCorrect`: for any program, map and number of crashes. For the
  second, `ListInv` says that a line holds the numbers of its workers in the
  order of the map; the lemmas about `Compact` show that closing the gaps and
  renumbering keeps that. For the third, `InLoop` says that nobody's line is
  shortened while it loops over it.
* `GivesUpOnlyIfLostHolds`: for any number of crashes. Hypotheses:
  `WaitsBetweenCollectives` (between an `MPI_Irecv` and its `MPI_Wait` there are
  only sends, so no shrink falls between them) and at most `WaitTrials + 1` workers
  to a job, five in the code (with one more the statement is false, see section 4). `RequestInv` describes the
  request: it has a receive for each worker of the source that the loop of
  `MPI_Irecv` has passed, the ones that are no longer open are of workers that the
  process ignores, so dead ones, and every attempt has closed one; so after
  `WaitTrials + 1` attempts no live worker remains.
* `RightMessageHolds`: for any number of processes, replicas and crashes, under
  `WaitsBetweenCollectives` and `MessagesBetweenCollectives` (a message is sent and
  received between the same two collective calls). Both are needed: with a message
  or a request that crosses a collective call TLC finds the violations of
  section 4. Run `p2p_exchange` checks that its programs meet them. `RightMessage`
  says nothing of what is still under way, so it is not inductive. `ChannelInv`
  adds `Channels`: between a live process and every member of the world that it
  does not ignore, the messages under way are the ones sent and not asked for yet,
  and the receives left posted by earlier waits are the ones given up before their
  message was sent, counted in the order of the two programs (`Balance`). Then the oldest message is the one the next receive is for. A shrink
  begins new, empty channels, and `SameSection` with the hypotheses says that both
  sides have then done the same number of calls with each other; `BufferFits` says
  that `MPI_Recv`, which receives from all workers into the same buffer, keeps the
  right message there once a live worker has been asked, and `StatusFits` that its
  status says success only if the message in the buffer is the right one. Of the
  source the theorem speaks for `MPI_Wait` only: `MPI_Recv` does not translate it
  (section 4).

### MapFile

* `MapFileTypeCorrect`: whenever maps are written and the program stops.
* `SameCallHolds`, `Refinement`: under `~WritesAnyTime` and `~HaltsAnyTime`, the two
  assumptions discussed in section 2, for maps that satisfy `MapsAssumption`;
  without either of the two the statements are false (section 4). `StageInv` lists the stages the processes can be in together
  (`Booting`, `Looking`, ..., `Saving`) with what they agree on in each, and says
  when the checkpoints of all jobs agree. `Refinement` is shown step by step:
  each action is a step of `ProgramSpec` under the mapping, or leaves `View`
  unchanged.

### FaultSelector

* `SelectorTypeCorrect`, `JobsSurviveHolds`, `VictimsRunningHolds`: the invariant
  says that only drawn ranks are queued or killed, that not all ranks of a job
  are drawn, and that without a remap the map read is the one in use.
  `RanksDistinct` is needed: a rank on two lines would count for one of them only.

### Only model-checked

* Liveness (`Terminates`, `ReceivesReturn`, `FinishesUnlessMixed`,
  `LatestMapAdopted`, `KeepsGoing`, `SelectionEnds`): out of the prover's reach.
* The violated properties of section 4, by their counterexamples.

Every invariant and action property of a passing run is stated by a theorem.

## 6. Open questions, and what is not modelled

Not proved, and why:

* Liveness needs fairness and `ENABLED`, see above.
* The theorems with at most one crash (`LockStep`, `FailureGroupRecorded`,
  `BroadcastsResult`) cannot be had for two: TLC has counterexamples (section 4).
* `RetriesPaidByFailures` is proved for `MPI_Scatter` only, because it is the only
  function that resets `mpi_status` in every attempt.
* `RightMessage` for programs with messages across collective calls: false as long
  as the world shrinks. Whether it holds for them until the first failure is not
  examined.

Not modelled:

* `MPI_ANY_SOURCE` in `MPI_Irecv`: the receive is posted with `SET_TAG(-1, tag)`,
  which no sender uses, and the remaining receives go to a common buffer that
  nobody reads; `MPI_STATUS_IGNORE` in `MPI_Wait`, which copies no data when the
  source has several workers; `MPI_Isend` is commented out. Sends that wait for
  their receiver: the code leaves the choice to the MPI library.
* A map file that is read while it is half written (`MapFile` writes it in one
  step), and the failure of single processes during the adoption of a map.
* The raw memory copies of data and stack, `setjmp`/`longjmp` on the temporary
  stack: `MapFile` and `ReplicaMap` take them as copying the place in the program
  and the image of the job.
* `MPI_Barrier`, one PMPI call on the world communicator: its handler shrinks
  inside it at the processes that see a failure, as in `MPI_Bcast`, and there is
  no agreement or repetition behind it. `MPI_Finalize`, which gathers timings on
  `MPI_COMM_WORLD` without fault tolerance.
* The random number generators (third-party numerics), the Fortran bindings
  (one-line wrappers), `network.stat` and logging (output only).

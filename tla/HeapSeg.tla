------------------------------ MODULE HeapSeg ------------------------------
(***************************************************************************)
(* The heap of the replicated program.                                     *)
(*                                                                         *)
(* The application allocates with rep_malloc, copies pointers with         *)
(* rep_assign_malloc_context and frees with rep_free; the library records  *)
(* these calls in a linked list.  From the list a process that enters a    *)
(* job gets a copy of the heap of its sender (transfer_heap_seg), and a    *)
(* checkpoint saves and restores the heap (save_heap_seg,                  *)
(* restore_heap_seg).                                                      *)
(*                                                                         *)
(* The processes modelled are the ones that work for a job, one after the  *)
(* other or together.  A process that receives a heap, or reads it from    *)
(* the checkpoint, takes one step for every entry; meanwhile the others go *)
(* on (the root of a PMPI_Bcast need not wait for the receivers).          *)
(* A container is a pointer variable of the program, at the same address   *)
(* everywhere.  Every block holds a datum of its own,                      *)
(* the number of its allocation: the library copies contents and never     *)
(* looks at them, so blocks that all differ show every mixup.  A block has *)
(* a size, and the first n bytes of a block are its datum with size n.     *)
(*                                                                         *)
(* What C leaves undefined -- following a pointer to a freed list element  *)
(* or past the end of the list, reading a block beyond its size, freeing   *)
(* it twice -- ends the behaviour in a fault.                              *)
(***************************************************************************)
EXTENDS Naturals, Sequences, SequencesExt

CONSTANTS
    Process,
    Container,  \* the program's pointer variables
    MaxCount,   \* bound on malloc_number_of_allocations
    MaxSize,    \* bound on the size of a block
    MaxMoves    \* bound on the transfers, checkpoints and restarts

NULL == 0
Block == 1..MaxCount
Foreign == MaxCount + 1  \* an address of another process: not allocated here
Content(d, s) == [datum |-> d, size |-> s]
Empty == Content(0, 0)  \* a block of size 0

ASSUME HeapAssumption ==
    /\ NULL \notin Container
    /\ MaxCount \in Nat /\ MaxSize \in Nat /\ MaxMoves \in Nat

VARIABLES
    mem,    \* the memory of every process, see NewMemory
    loop,   \* the loop of transfer_heap_seg or restore_heap_seg each process
            \*   is in, see NoLoop
    ckpt,   \* the checkpoint file
    fault,  \* "none", or what went wrong
    used,   \* what the program has done (to state properties): "assign" and
            \*   "free" for the calls, "again" if it has allocated to a pointer
            \*   that had an entry, "smaller" if an entry of it was larger
    moves

vars == <<mem, loop, ckpt, fault, used, moves>>

\* list: the Malloc_list from head to tail; stale: which of head and tail
\* point to a freed element; count: malloc_number_of_allocations; heap: the
\* allocated blocks and their contents; ptr: the program's pointers.
NewMemory == [list |-> <<>>, stale |-> {}, count |-> 0, heap |-> <<>>,
              ptr |-> [c \in Container |-> NULL]]

\* entries: what is sent or was saved, with the contents of the blocks; next:
\* the loop's index; image: the memory copied, only to compare.
NoLoop == [kind |-> "none", entries |-> <<>>, next |-> 1, image |-> NewMemory]

Idle(p) == loop[p].kind = "none"

-----------------------------------------------------------------------------
(* malloc and free of the C library.  malloc reuses freed addresses.       *)

Points(m, c) == m.ptr[c] \in DOMAIN m.heap
Fresh(m) == Min(Block \ DOMAIN m.heap)
Allocated(m, b, d) ==
    [m EXCEPT !.heap = [x \in DOMAIN @ \union {b} |-> IF x = b THEN d ELSE @[x]]]
Freed(m, B) == [m EXCEPT !.heap = Restrict(@, DOMAIN @ \ B)]

-----------------------------------------------------------------------------
(* The list.                                                               *)

Entry(c, src, b, s) == [container_address |-> c, linked_address |-> src,
                        allocated_address |-> b, size |-> s]

rep_append(m, e) == [m EXCEPT !.list = Append(@, e)]

\* A new block with content d, recorded as e but for its address, and the
\* container set to it.
Filled(m, e, d) ==
    LET b == Fresh(m)
    IN  [rep_append(Allocated(m, b, d), [e EXCEPT !.allocated_address = b])
            EXCEPT !.ptr[e.container_address] = b]

\* head and tail are only changed when the last element goes.
rep_remove(m, i) ==
    [m EXCEPT !.list = RemoveAt(@, i),
              !.stale = IF Len(m.list) = 1 THEN {}
                        ELSE @ \union (IF i = 1 THEN {"head"} ELSE {})
                               \union (IF i = Len(m.list) THEN {"tail"} ELSE {})]

BlocksOf(m) == {m.list[i].allocated_address : i \in DOMAIN m.list}

\* Freeing every block of the list frees none twice.
FreesOnce(m) ==
    /\ BlocksOf(m) \subseteq DOMAIN m.heap
    /\ \A i, j \in DOMAIN m.list :
          m.list[i].allocated_address = m.list[j].allocated_address => i = j

\* Each element's block freed, then the list empty again.
rep_clear_discontiguous(m) ==
    [Freed(m, BlocksOf(m)) EXCEPT !.list = <<>>, !.stale = {}, !.count = 0]

-----------------------------------------------------------------------------
Running == fault = "none"

\* A step of process p that leaves memory m, unless it goes wrong.
Step(p, wrong, m) ==
    /\ fault' = wrong
    /\ mem' = IF wrong = "none" THEN [mem EXCEPT ![p] = m] ELSE mem

\* What a call to rep_malloc shows of the program: an entry of the container
\* is not replaced, and its size is read from the new block.
Habit(m, c, s) ==
    LET S == {m.list[i].size : i \in {j \in DOMAIN m.list : m.list[j].container_address = c}}
    IN  (IF S = {} THEN {} ELSE {"again"})
        \union (IF \E z \in S : z > s THEN {"smaller"} ELSE {})

\* Mutant: the allocation is not counted.
rep_malloc_NotCounted(p, c, s) ==
    LET m == mem[p]
    IN  /\ Running /\ Idle(p) /\ Len(m.list) < MaxCount
        /\ Step(p, "none", Filled(m, Entry(c, NULL, Fresh(m), s), Content(m.count + 1, s)))
        /\ used' = used \union Habit(m, c, s)
        /\ UNCHANGED <<loop, ckpt, moves>>

\* Mutant: the entry is given one byte too many.
rep_malloc_SizeOffByOne(p, c, s) ==
    LET m == mem[p]
    IN  /\ Running /\ Idle(p) /\ m.count < MaxCount
        /\ Step(p, "none",
                [Filled(m, Entry(c, NULL, Fresh(m), s + 1), Content(m.count + 1, s))
                    EXCEPT !.count = @ + 1])
        /\ used' = used \union Habit(m, c, s)
        /\ UNCHANGED <<loop, ckpt, moves>>

rep_malloc(p, c, s) ==
    LET m == mem[p]
    IN  /\ Running /\ Idle(p) /\ m.count < MaxCount
        /\ Step(p, IF "tail" \in m.stale THEN "dangling" ELSE "none",
                [Filled(m, Entry(c, NULL, Fresh(m), s), Content(m.count + 1, s))
                    EXCEPT !.count = @ + 1])
        /\ used' = used \union Habit(m, c, s)
        /\ UNCHANGED <<loop, ckpt, moves>>

\* The program copies a pointer to an allocated block.
rep_assign_malloc_context(p, src, dest) ==
    LET m == mem[p]
    IN  /\ Running /\ Idle(p) /\ m.count < MaxCount
        /\ src # dest /\ Points(m, src)
        /\ Step(p, IF "tail" \in m.stale THEN "dangling" ELSE "none",
                [rep_append(m, Entry(dest, src, m.ptr[src], 0))
                    EXCEPT !.ptr[dest] = m.ptr[src], !.count = @ + 1])
        /\ used' = used \union {"assign"}
        /\ UNCHANGED <<loop, ckpt, moves>>

\* Mutant: the entry is removed, the block not freed.
rep_free_KeepsBlock(p, c) ==
    LET m == mem[p]
        i == SelectInSeq(m.list, LAMBDA e : e.container_address = c)
    IN  /\ Running /\ Idle(p)
        /\ Points(m, c)
        /\ Step(p, IF "head" \in m.stale THEN "dangling" ELSE "none",
                IF i = 0 THEN m ELSE rep_remove(m, i))
        /\ used' = used \union {"free"}
        /\ UNCHANGED <<loop, ckpt, moves>>

\* The program frees a block it has allocated.  The first entry of the
\* container is used; a container without an entry is ignored.
rep_free(p, c) ==
    LET m == mem[p]
        i == SelectInSeq(m.list, LAMBDA e : e.container_address = c)
        b == m.list[i].allocated_address
    IN  /\ Running /\ Idle(p)
        /\ Points(m, c)
        /\ Step(p, IF "head" \in m.stale THEN "dangling"
                   ELSE IF i # 0 /\ b \notin DOMAIN m.heap THEN "doubleFree"
                   ELSE "none",
                IF i = 0 THEN m ELSE rep_remove(Freed(m, {b}), i))
        /\ used' = used \union {"free"}
        /\ UNCHANGED <<loop, ckpt, moves>>

-----------------------------------------------------------------------------
(* Replication: init_rep copies data, stack and heap of s to r.            *)

\* The pointers as they arrive with the data and the stack segment.
Transferred(ptr) == [c \in Container |-> IF ptr[c] = NULL THEN NULL ELSE Foreign]

\* Walking the list of m and reading what its containers point to, each as
\* many bytes as the entry says: the block may have been replaced by a smaller
\* one since.
WalkFault(m) ==
    LET Blocks == {i \in DOMAIN m.list : m.list[i].linked_address = NULL}
        At(i) == m.list[i].container_address
    IN  IF "head" \in m.stale \/ \E i \in Blocks : ~Points(m, At(i)) THEN "dangling"
        ELSE IF \E i \in Blocks : m.list[i].size > m.heap[m.ptr[At(i)]].size THEN "overRead"
        ELSE "none"

\* What the walk sends or writes: the entries with as much of what their
\* containers point to as the entry says, nothing for a linked one.
Walked(m) ==
    [i \in DOMAIN m.list |->
        LET e == m.list[i]
        IN  [entry |-> e,
             data |-> IF e.linked_address # NULL THEN Empty
                      ELSE Content(m.heap[m.ptr[e.container_address]].datum, e.size)]]

\* What can go wrong at either end before the loop of the receiver:
\* malloc_number_of_allocations, and not the end of the list, bounds the loop
\* of the sender; the receiver first frees what its own list records.
TransferFault(s, r) ==
    IF mem[s].count > Len(mem[s].list) THEN "pastEnd"
    ELSE IF "head" \in mem[r].stale THEN "dangling"
    ELSE IF ~FreesOnce(mem[r]) THEN "doubleFree"
    ELSE WalkFault(mem[s])

\* The sender's part, and the receiver's up to its loop.
transfer_heap_seg(s, r) ==
    LET wrong == TransferFault(s, r)
    IN  /\ Running /\ s # r /\ Idle(s) /\ Idle(r) /\ moves < MaxMoves
        /\ Step(r, wrong, [rep_clear_discontiguous(mem[r])
                              EXCEPT !.ptr = Transferred(mem[s].ptr),
                                     !.count = mem[s].count])
        /\ loop' = IF wrong # "none" THEN loop
                   ELSE [loop EXCEPT ![r] = [kind |-> "transfer", next |-> 1,
                                             entries |-> SubSeq(Walked(mem[s]), 1, mem[s].count),
                                             image |-> mem[s]]]
        /\ moves' = moves + 1
        /\ UNCHANGED <<ckpt, used>>

\* The entry that the loop of p has come to.
Current(p) == loop[p].entries[loop[p].next]

\* A round of the loop of p leaves memory m.
Round(p, kind, m) ==
    /\ Running /\ loop[p].kind = kind
    /\ loop[p].next <= Len(loop[p].entries)
    /\ mem' = [mem EXCEPT ![p] = m]
    /\ loop' = [loop EXCEPT ![p].next = @ + 1]
    /\ UNCHANGED <<ckpt, fault, used, moves>>

\* Mutant: the container of the receiver is not set to the new block.
ReceiveEntry_KeepsPointer(p) ==
    LET x == Current(p)
    IN  Round(p, "transfer",
              [Filled(mem[p], x.entry, x.data) EXCEPT !.ptr = mem[p].ptr])

\* A round at the receiver: a linked pointer is copied and gets no entry; a
\* block is allocated and filled.
ReceiveEntry(p) ==
    LET m == mem[p]
        x == Current(p)
    IN  Round(p, "transfer",
              IF x.entry.linked_address # NULL
              THEN [m EXCEPT !.ptr[x.entry.container_address] = m.ptr[x.entry.linked_address]]
              ELSE Filled(m, x.entry, x.data))

\* The loop has ended, and the program continues.
LoopEnds(p) ==
    /\ Running /\ ~Idle(p)
    /\ loop[p].next > Len(loop[p].entries)
    /\ loop' = [loop EXCEPT ![p] = NoLoop]
    /\ UNCHANGED <<mem, ckpt, fault, used, moves>>

-----------------------------------------------------------------------------
(* Checkpoints: the master saves; after a restart everybody restores.      *)

\* The file: malloc_number_of_allocations, the entries with the contents of
\* their blocks, and the stack; image is there only to compare.
save_heap_seg(p) ==
    LET m == mem[p]
        wrong == WalkFault(m)
    IN  /\ Running /\ Idle(p) /\ moves < MaxMoves
        /\ Step(p, wrong, m)
        /\ ckpt' = IF wrong # "none" THEN ckpt
                   ELSE {[count |-> m.count, ptr |-> m.ptr, image |-> m,
                          entries |-> Walked(m)]}
        /\ moves' = moves + 1
        /\ UNCHANGED <<loop, used>>

\* The program is started again, at any time, and finds the checkpoint in
\* MPI_Init.
init_ckpt_restore ==
    /\ Running /\ moves < MaxMoves
    /\ \E f \in ckpt :
          IF f.count > Len(f.entries)
          THEN fault' = "pastEnd" /\ UNCHANGED <<mem, loop>>
          ELSE /\ mem' = [p \in Process |-> [NewMemory EXCEPT !.ptr = Transferred(f.ptr),
                                                              !.count = f.count]]
               /\ loop' = [p \in Process |->
                             [kind |-> "restore", next |-> 1, image |-> f.image,
                              entries |-> SubSeq(f.entries, 1, f.count)]]
               /\ UNCHANGED fault
    /\ moves' = moves + 1
    /\ UNCHANGED <<ckpt, used>>

\* A round of restore_heap_seg: every entry, linked or not, gets a block of
\* its own.
RestoreEntry(p) ==
    Round(p, "restore", Filled(mem[p], Current(p).entry, Current(p).data))

-----------------------------------------------------------------------------
Init ==
    /\ mem = [p \in Process |-> NewMemory]
    /\ loop = [p \in Process |-> NoLoop]
    /\ ckpt = {}
    /\ fault = "none"
    /\ used = {}
    /\ moves = 0

Next ==
    \/ \E p \in Process, c \in Container :
          \/ \E s \in 1..MaxSize : rep_malloc(p, c, s)
          \/ rep_free(p, c)
          \/ \E d \in Container : rep_assign_malloc_context(p, c, d)
    \/ \E s, r \in Process : transfer_heap_seg(s, r)
    \/ \E p \in Process : \/ ReceiveEntry(p)
                          \/ RestoreEntry(p)
                          \/ LoopEnds(p)
                          \/ save_heap_seg(p)
    \/ init_ckpt_restore

Spec == Init /\ [][Next]_vars

-----------------------------------------------------------------------------
\* A program that only allocates -- copies no pointer and frees no block --
\* and replaces no block by a smaller one is never led off the list, or to
\* free or read what is not allocated, by replication and checkpoints: also
\* when it allocates to a pointer again and leaves the old entry behind.
Allocates == used \subseteq {"again"}
NoFault == Allocates => fault = "none"

\* A copy of the heap is the heap: what the sender's (the checkpointed)
\* pointers point to, the receiver's (the restored) ones point to, with the
\* same contents and size, and two pointers are equal in one iff in the
\* other.
SameHeap(m, n) ==
    LET Valid == {c \in Container : Points(m, c)}
    IN  /\ \A c \in Valid : Points(n, c) /\ n.heap[n.ptr[c]] = m.heap[m.ptr[c]]
        /\ \A c, d \in Valid : m.ptr[c] = m.ptr[d] <=> n.ptr[c] = n.ptr[d]

\* So it is when the loop ends, for such a program, however often its heap
\* was moved, saved and restored before.
CopyFaithful ==
    Allocates =>
        \A p \in Process :
            ~Idle(p) /\ loop[p].next > Len(loop[p].entries)
                => SameHeap(loop[p].image, mem[p])

\* For a program that allocates to each pointer once, the list accounts for
\* the heap: it has malloc_number_of_allocations entries, and each is for the
\* block that its container points to and for as many bytes, so that the next
\* transfer sends, and the next clear frees, each allocated block once.
ListAccountsForHeap ==
    used = {} =>
        \A p \in Process :
            LET m == mem[p]
            IN  Idle(p) => /\ m.count = Len(m.list)
                           /\ FreesOnce(m) /\ BlocksOf(m) = DOMAIN m.heap
                           /\ \A i \in DOMAIN m.list :
                                 LET e == m.list[i]
                                 IN  /\ m.ptr[e.container_address] = e.allocated_address
                                     /\ m.heap[e.allocated_address].size = e.size

\* Nothing is left behind in any program: every allocated block is recorded
\* in the list, and the loops over malloc_number_of_allocations reach all of
\* the list -- also after pointers were copied, blocks freed and the heap
\* moved.
EveryBlockRecorded ==
    \A p \in Process : /\ DOMAIN mem[p].heap \subseteq BlocksOf(mem[p])
                       /\ Len(mem[p].list) <= mem[p].count

\* Stronger statements that rep_free and rep_assign_malloc_context break: no
\* program goes wrong, and rep_free frees the block it is handed.
NeverFaults == fault = "none"
FreesWhatItIsGiven ==
    [][\A p \in Process, c \in Container :
          rep_free(p, c) /\ fault' = "none" => ~Points(mem'[p], c)]_vars

=============================================================================

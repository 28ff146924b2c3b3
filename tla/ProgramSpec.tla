---------------------------- MODULE ProgramSpec ----------------------------
(***************************************************************************)
(* What replication and checkpoints promise: the processes look like one   *)
(* program.  It executes a loop of NCalls collective calls; between two of *)
(* them it adopts, as a whole, the latest replication map, and makes a     *)
(* checkpoint before it goes on; and when it is started again it continues *)
(* at the call at which the last complete checkpoint was made.             *)
(***************************************************************************)
EXTENDS Naturals

CONSTANTS NCalls, MaxVer

None == NCalls  \* not the number of a call

VARIABLES
    latest,  \* the version of the map in the file
    up,      \* the program is past MPI_Init
    map,     \* the version by which it runs, 0 while it is not up
    pos,     \* the call it executes next, 0 while it is not up
    due,     \* a map was adopted and the checkpoint is not yet made
    saved    \* the call at which the last checkpoint was made, or None

vars == <<latest, up, map, pos, due, saved>>

Init ==
    /\ latest = 1 /\ ~up /\ map = 0 /\ pos = 0 /\ ~due /\ saved = None

\* The manager writes a map.
Publish ==
    /\ latest < MaxVer /\ latest' = latest + 1
    /\ UNCHANGED <<up, map, pos, due, saved>>

\* The program is started, from the beginning or from its checkpoint.
Start ==
    /\ ~up /\ up'
    /\ map' = latest
    /\ pos' = IF saved = None THEN 0 ELSE saved
    /\ UNCHANGED <<latest, due, saved>>

Adopt ==
    /\ up /\ map # latest /\ ~due
    /\ map' = latest /\ due'
    /\ UNCHANGED <<latest, up, pos, saved>>

Save ==
    /\ due /\ ~due' /\ saved' = pos
    /\ UNCHANGED <<latest, up, map, pos>>

Call ==
    /\ up /\ ~due
    /\ pos' = (pos + 1) % NCalls
    /\ UNCHANGED <<latest, up, map, due, saved>>

\* The program ends before its end: it is killed or aborted.
Halt ==
    /\ up /\ ~up' /\ map' = 0 /\ pos' = 0 /\ ~due'
    /\ UNCHANGED <<latest, saved>>

Next == Publish \/ Start \/ Adopt \/ Save \/ Call \/ Halt

Spec == Init /\ [][Next]_vars

=============================================================================

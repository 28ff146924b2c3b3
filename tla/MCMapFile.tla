----------------------------- MODULE MCMapFile -----------------------------
(***************************************************************************)
(* Small instances of MapFile: two jobs and three processes.  Maps as the *)
(* manager makes them: a rank is taken out of a line and appended to its   *)
(* own (version 2, which marks one line only) or to the other one, so that *)
(* all processes take turns as masters and as replicas.                    *)
(***************************************************************************)
EXTENDS MapFile, TLC

TwoJobs == {0, 1}
ThreeProcs == 0..2
MovingRanks ==
    << (0 :> <<0, 2>> @@ 1 :> <<1>>),
       (0 :> <<2, 0>> @@ 1 :> <<1>>),
       (0 :> <<2>>    @@ 1 :> <<1, 0>>),
       (0 :> <<2, 1>> @@ 1 :> <<0>>),
       (0 :> <<1>>    @@ 1 :> <<0, 2>>) >>
MarkedLines == << {0, 1}, {0}, {0, 1}, {0, 1}, {0, 1} >>

\* Job 1 has a receive pending during call 1.
OneReceive == [j \in TwoJobs |-> IF j = 1 THEN {1} ELSE {}]

=============================================================================

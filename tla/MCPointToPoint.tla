--------------------------- MODULE MCPointToPoint ---------------------------
(***************************************************************************)
(* Small instances of PointToPoint.                                        *)
(***************************************************************************)
EXTENDS PointToPoint

TwoJobs == {0, 1}
Procs4 == 0..3

\* Two workers to a job; or one worker in job 0 and three in job 1.
TwoAndTwo == [p \in Proc |-> p % 2]
OneAndThree == [p \in Proc |-> IF p = 0 THEN 0 ELSE 1]
Order == [p \in Proc |-> p]

C(call, peer) == [call |-> call, peer |-> peer]

\* Job 0 sends to job 1, and behind a collective call job 1 sends to a receive
\* that job 0 has posted.
SendThenReply ==
    [j \in TwoJobs |->
        IF j = 0
        THEN <<C("send", 1), C("collective", j), C("irecv", 1), C("wait", 1)>>
        ELSE <<C("recv", 0), C("collective", j), C("send", 0)>>]

\* Job 1 sends to job 0, before and after a collective call, and job 0 answers.
SendsAndAnswer ==
    [j \in TwoJobs |->
        IF j = 0
        THEN <<C("recv", 1), C("collective", j),
               C("irecv", 1), C("wait", 1), C("send", 1)>>
        ELSE <<C("send", 0), C("collective", j), C("send", 0), C("recv", 0)>>]

\* An exchange, then a collective call.
ExchangeThenCollective ==
    [j \in TwoJobs |->
        <<C("irecv", 1 - j), C("send", 1 - j), C("wait", 1 - j), C("collective", j)>>]

\* The programs of the runs meet the conditions of the theorems.
ASSUME RunsMeetConditions ==
    Program \in {SendThenReply, SendsAndAnswer, ExchangeThenCollective} =>
        MessagesBetweenCollectives /\ WaitsBetweenCollectives

\* A message sent before a collective call and received after it, and a
\* receive posted before one and waited for after it.
MessageAcrossCollective ==
    [j \in TwoJobs |-> IF j = 0 THEN <<C("send", 1), C("collective", j)>>
                                ELSE <<C("collective", j), C("recv", 0)>>]
ReceiveAcrossCollective ==
    [j \in TwoJobs |->
        IF j = 0 THEN <<C("send", 1), C("collective", j)>>
                 ELSE <<C("irecv", 0), C("collective", j), C("wait", 0)>>]

=============================================================================

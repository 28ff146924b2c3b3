SPECIFICATION Spec
CONSTANTS
    Proc <- Procs4
    Job <- TwoJobs
    JobOf <- TwoAndTwo
    Pos <- Order
    Program <- SendThenReply
    WaitTrials = 1
    MaxCrash = 2
INVARIANTS TypeOK RightMessage JobListMatchesWorld IgnoredAwaitShrink GivesUpOnlyIfLost
PROPERTIES ReceivesReturn FinishesUnlessMixed
CHECK_DEADLOCK FALSE

SPECIFICATION Spec
CONSTANTS
    Proc <- Procs4
    Job <- TwoJobs
    JobOf <- TwoAndTwo
    Pos <- Order
    Program <- ExchangeThenCollective
    WaitTrials = 4
    MaxCrash = 1
PROPERTY AlwaysFinishes
CHECK_DEADLOCK FALSE

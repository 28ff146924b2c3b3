SPECIFICATION Spec
CONSTANTS
    Proc <- ThreeProcs
    Job <- TwoJobs
    RankList <- MovingRanks
    Bit <- MarkedLines
    NCalls = 3
    PendingAt <- OneReceive
    SleepTime = 1
    WritesAnyTime = FALSE
    HaltsAnyTime = TRUE
    MaxVer = 5
    MaxHalts = 2
INVARIANT SameCall
CHECK_DEADLOCK FALSE

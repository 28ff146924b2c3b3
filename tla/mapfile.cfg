SPECIFICATION Spec
CONSTANTS
    Proc <- ThreeProcs
    Job <- TwoJobs
    RankList <- MovingRanks
    Bit <- MarkedLines
    NCalls = 3
    PendingAt <- OneReceive
    SleepTime = 1
    WritesAnyTime = FALSE
    HaltsAnyTime = FALSE
    MaxVer = 5
    MaxHalts = 2
INVARIANTS TypeOK SameCall
PROPERTIES ImplementsOneProgram LatestMapAdopted KeepsGoing

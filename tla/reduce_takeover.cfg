SPECIFICATION FairSpec
CONSTANTS
    Proc <- Procs5
    Job <- TwoJobs
    JobOf <- Layout5
    Pos <- Order5
    Op <- MPI_Reduce
    RootJob = 0
    NO_TRIALS = 10
    MaxCrash = 1
INVARIANT BroadcastsResult
PROPERTY Terminates

SPECIFICATION Spec
CONSTANTS
    Proc <- Procs5
    Job <- TwoJobs
    JobOf <- Layout5
    Pos <- Order5
    Op <- MPI_Bcast
    RootJob = 0
    NO_TRIALS = 10
    MaxCrash = 2
INVARIANT DataCorrect
CHECK_DEADLOCK FALSE

SPECIFICATION Spec
CONSTANTS
    Proc <- Procs4
    Job <- TwoJobs
    JobOf <- Layout4
    Pos <- Order4
    Op <- MPI_Allgather
    RootJob = 0
    NO_TRIALS = 10
    MaxCrash = 1
INVARIANT DataCorrect

SPECIFICATION FairSpec
CONSTANTS
    Proc <- Procs5
    Job <- TwoJobs
    JobOf <- Layout5
    Pos <- Order5
    Op <- MPI_Scatter
    RootJob = 0
    NO_TRIALS = 10
    MaxCrash = 1
INVARIANTS TypeOK LockStep RetriesPaidByFailures ReplicaFailuresHarmless
PROPERTIES FailureGroupRecorded Terminates

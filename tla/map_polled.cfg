SPECIFICATION Spec
CONSTANTS
    NJobs = 4
    NRanks = 6
    NChoose = 0
    NosUpdates = 2
    Stacks <- AnyStacks
    PollsEachMap = TRUE
    MaxCrash = 1
INVARIANTS TypeOK AssignTerminates MapTakesEffect NeverAborted
CHECK_DEADLOCK FALSE

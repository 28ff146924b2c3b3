SPECIFICATION Spec
CONSTANTS
    NJobs = 2
    NRanks = 4
    NChoose = 0
    NosUpdates = 3
    Stacks <- EqualStacks
    PollsEachMap = TRUE
    MaxCrash = 1
INVARIANT JobsFollowMap

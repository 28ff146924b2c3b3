SPECIFICATION Spec
CONSTANTS
    Job <- ThreeJobs
    Rank <- SixRanks
    RepMaps <- AllMaps
    OptChoices <- AllOpts
    Intervals = 5
    MaxRemaps = 1
INVARIANTS TypeOK JobsSurvive VictimsRunning
PROPERTY SelectionEnds
CHECK_DEADLOCK FALSE

SPECIFICATION FairSpec
CONSTANTS
    NumStages = 2
    Timed = {2}
    Forking = {1}
    Streaming = TRUE
    Ring = 1
    Earlier <- SecondAppends
    MaxChunks <- TwoThenOne
INVARIANTS
    Inv
    LogIsOutput
    NoProcessLeftBehind
    GreenPlan
PROPERTIES
    PlanEnds
CHECK_DEADLOCK FALSE

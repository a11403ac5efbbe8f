SPECIFICATION FairSpec
CONSTANTS
    NumPhases = 2
    MaxLines = 3
INVARIANTS
    Inv
    LinesInOrder
    GreenIsEarned
    NothingLeftRunning
PROPERTIES
    GeneratorEnds
CHECK_DEADLOCK FALSE

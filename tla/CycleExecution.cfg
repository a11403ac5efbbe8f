SPECIFICATION FairSpec
CONSTANTS
    Execs = {x1, x2, x3}
    Clients = {c1}
    Overridden = {x3}
INVARIANTS
    Inv
    OneThreadPerCycle
    OwnLinesFirst
PROPERTIES
    EverythingEnds
CHECK_DEADLOCK FALSE

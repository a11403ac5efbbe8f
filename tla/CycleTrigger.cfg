SPECIFICATION FairSpec
CONSTANTS
    Procs = {watcher, other}
    Watchers = {watcher}
    Files = {f}
    Versions = {v1, v2}
    Absent = absent
    Broken = broken
    Missing = missing
    MaxCalls = 1
    MaxEdits = 2
    MaxFaults = 1
INVARIANTS
    RestsOnTestedFiles
PROPERTIES
    ComesToRest
CHECK_DEADLOCK FALSE

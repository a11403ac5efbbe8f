SPECIFICATION Spec
CONSTANTS
    Runs = {"p1", "b1", "b2"}
    BehavexRuns = {"b1", "b2"}
    Unfollowed = "e0"
    MaxAttempts = 2
    MaxFaults = 2
    AuditCost = 2
    AuditAlong = 1
    Calm = {"b2"}
INVARIANTS
    Inv
    SnapshotIsWhole
    SyncIsTrue
CHECK_DEADLOCK FALSE

SPECIFICATION ArchiveSpec
CONSTANTS
    Latest = 2
    StageCount = 2
    Selections = {{2}, {1, 2}}
    MaxEvents = 2
INVARIANTS
    ArchiveInv
    SyncIsArchived
PROPERTIES
    InjectedHistoryIsOlder
CHECK_DEADLOCK FALSE

SPECIFICATION FairSpec
CONSTANTS
    Execs = {batch}
    NumRuns <- BatchOfTwo
    Hosts = {server}
    Host <- OneProcess
    Summarized <- FirstRuns
    Sessions = {s1}
    MaxAttempts = 2
    MaxFaults = 2
INVARIANTS
    GreenSummaryIsBacked
    SavedResultSurvives
    StuckRowIsReported
PROPERTIES
    RefinesRunTable
    DeadRowsAreClosed
CHECK_DEADLOCK FALSE

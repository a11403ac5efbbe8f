SPECIFICATION Spec
CONSTANTS
    Execs = {batch}
    NumRuns <- BatchOfTwo
    Hosts = {server}
    Host <- OneProcess
    Summarized <- FirstRuns
    Sessions = {s1}
    MaxAttempts = 2
    MaxFaults = 2
INVARIANT AggregateZeroMeansAllPassed
CHECK_DEADLOCK FALSE

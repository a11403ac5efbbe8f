SPECIFICATION MCSpec
CONSTANTS
    Kinds = {"pytest"}
    Outcomes <- SampleOutcomes
    Limits = {0, 1, 2}
    MaxRows = 3
    MaxCases = 1
    Cut <- SampleCut
    Statuses = {"passed", "failed", "broken", "odd"}
    MaxFiles = 2
    MaxLines = 4
    MaxLine = 3
INVARIANTS
    AnalyticsInv
    ReadsAgree
    DeltaIsFair
    ResultsAccount
    
CHECK_DEADLOCK FALSE

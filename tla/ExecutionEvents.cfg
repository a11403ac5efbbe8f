SPECIFICATION FairSpec
CONSTANTS
    Clients = {c1, c2}
    MaxEvents = 3
INVARIANTS
    DeliveredInOrder
    ClosedMeansComplete
    AnswerIsConsistent
PROPERTIES
    RefinesEventLog
    StreamsEnd

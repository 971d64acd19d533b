SPECIFICATION FairSpec
CONSTANTS
    JobIds = {1, 2, 3}
    Operations = {o1, o2}
    NoOperation = NoOperation
    Workers = {w1, w2}
    ChunkSize = 2
    MaxRequests = 1
    MaxRetries = 1
    MaxInterruptions = 2
CHECK_DEADLOCK FALSE
INVARIANTS
    SettledTargetsAreCleared
    CompletionMeansCleared
    TotalsAreTrue
PROPERTIES
    ImplementsPointInTimeOperation
    OnlyTargetsAreCleared
    OperationsEnd

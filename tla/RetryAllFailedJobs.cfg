SPECIFICATION MCSpec
CONSTANTS
    JobIds = {1, 2, 3, 4}
    Jobs = {1, 2, 3, 4}
    NoJob = NoJob
    Asked = {1}
    OtherQueue = {}
    Operations = {o1}
    NoOperation = NoOperation
    Workers = {w1, w2}
    Processes = {w1, w2, u1}
    NoOne = NoOne
    Malformed = {2}
    Removable = {1}
    ChunkSize = 1
    MaxRequests = 1
    MaxRetries = 1
    MaxInterruptions = 1
    MaxMishaps = 1
SYMMETRY Symmetry
CHECK_DEADLOCK FALSE
INVARIANTS
    AffectedWereScheduled
    CompletionMeansRetried

SPECIFICATION RetrySpec
CONSTANTS
    Jobs = {1, 2, 3}
    NoJob = NoJob
    Processes = {p1, p2}
    NoOne = NoOne
    Malformed = {}
    Removable = {1}
    MaxMishaps = 1
SYMMETRY Symmetry
CHECK_DEADLOCK FALSE
INVARIANTS
    RetriesAreSequential
PROPERTIES
    BulkRetriesOnlyLeaves
    LockIsReleasedByItsHolder

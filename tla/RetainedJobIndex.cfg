SPECIFICATION Spec
CONSTANTS
    p1 = p1
    p2 = p2
    Ids = {1, 2}
    Processes = {p1, p2}
    NoOne = NoOne
    Kinds <- OneCommand
    Fragile = {1}
    Trimmable = {1}
    ChunkSize = 1
    MaxMishaps = 0
CHECK_DEADLOCK FALSE
INVARIANTS
    PublishedIsStable
    PublishedReadsAreWhole
    LiveReadsAreComplete
PROPERTY RetainedJobsStayListed

SPECIFICATION FairSpec
CONSTANTS
    p1 = p1
    p2 = p2
    Ids = {1}
    Processes = {p1, p2}
    NoOne = NoOne
    Kinds <- Commands
    Fragile = {}
    Trimmable = {1}
    ChunkSize = 1
    MaxMishaps = 1
CHECK_DEADLOCK FALSE
PROPERTY LockIsFreed

SPECIFICATION PendingSpec
CONSTANTS
    Jobs = {1, 2, 3}
    NoJob = NoJob
    Callers = {c1, c2}
    Batched = {3}
    UniqueJobs = {1, 2, 3}
    Named = {1, 2}
    Decoded = {1}
    MaxForms <- Forms
    MaxFailures = 2
SYMMETRY Symmetry
CHECK_DEADLOCK FALSE
INVARIANTS
    NoJobIsDuplicated
    UniqueJobsStayUnique
    LocksAreNotStranded
    QueuedJobsCanBeCancelled
PROPERTIES
    ClearedJobsAreUnlisted
    ImplementsJobLifecycle

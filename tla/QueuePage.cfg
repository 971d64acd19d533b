SPECIFICATION MCSpec
CONSTANTS
    Queues = {q1, q2}
    Tabs = {"pending", "completed"}
    Due = {2}
    Values = {1, 2}
    Null = Null
    maximumTimeout = 1
    MaxTime = 2
    MaxEdits = 2
    MaxSurprises = 1
INVARIANTS
    AddressNamesWhatIsShown
    DueJobsAreShown
PROPERTIES
    KnownNumbersStay
    RowsReturn
CHECK_DEADLOCK FALSE

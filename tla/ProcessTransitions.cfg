SPECIFICATION Spec
CONSTANTS
    Instances = {i}
    Supervisors = {s}
    MasterOf <- OneMaster
    AutoRefresh = FALSE
    PollInterval = 0
    FallbackPollInterval = 1
    MinimumTimeout = 1
    PollAttempts = 1
    RequestTimeout = 1
    MaxTokens = 2
    MaxChanges = 1
CHECK_DEADLOCK FALSE
INVARIANTS
    OneTransitionPerInstance
PROPERTIES
    TransitionsEndForAReason
    TransitionsEnd
    RowsComeBack

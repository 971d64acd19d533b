SPECIFICATION Spec
CONSTANTS
    Texts <- Text
    Trim <- Trimmed
    NoText = ""
    Filters = {"queue", "state"}
    FilterKeys <- Keys
    Statuses = {"pending"}
    FirstStatus = "pending"
    SortColumns <- SortKeys
    DefaultSort <- ValueDescending
    Samples <- Lists
    Contains <- Found
    Null = Null
    MaxEdits = 3
    MaxMishaps = 0
INVARIANTS
    SearchFollowsTheUser
CHECK_DEADLOCK FALSE

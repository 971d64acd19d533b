SPECIFICATION Spec
CONSTANTS
    Texts <- Text
    Trim <- Trimmed
    NoText = ""
    Filters = {"queue", "state"}
    FilterKeys <- Keys
    Statuses = {"pending", "failed"}
    FirstStatus = "pending"
    SortColumns <- SortKeys
    DefaultSort <- ValueDescending
    Samples <- Lists
    Contains <- Found
    Null = Null
    MaxEdits = 4
    MaxMishaps = 1
INVARIANTS
    FiltersFollowTheUser
    NothingIsAskedTwice
    AddressKeepsTheSort
    RowsAreInOrder
PROPERTIES
    ListFollowsTheDraft
CHECK_DEADLOCK FALSE

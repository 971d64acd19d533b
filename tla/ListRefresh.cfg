SPECIFICATION ListSpec
CONSTANTS
    Token <- Tokens
    MaxSource = 2
    MaxVisits = 1
    MaxToggles = 1
    MaxPages = 2
INVARIANTS
    ActiveCountIsTrue
PROPERTIES
    ListCatchesUp

SPECIFICATION Spec
CONSTANTS
    m1 = m1
    m2 = m2
    Menus = {m1, m2}
    NoMenu = NoMenu
    Pages <- TwoMenuPages
    Targets = {"redis", "sqs"}
    MaxDuration = 2
    Inputs = {0, 3}
    MaxChanges = 2
    MaxRequests = 2
CHECK_DEADLOCK FALSE
INVARIANTS
    WorkingMenusWait
PROPERTIES
    SuccessClosesItsOwnDialog
    MenusComeBack

SPECIFICATION Spec
CONSTANTS
    Ids = {1, 2, 3, 4}
    MaxId = 5
    MinusKeys = 1
    MaxKey = 1
    Limits = {1, 2}
    MaxChanges = 2
    NoPage = NoPage
INVARIANTS
    RepeatedOnlyIfMoved
    WalkComplete
CHECK_DEADLOCK FALSE

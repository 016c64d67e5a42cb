CONSTANTS
    Ids = {1, 2, 3, 4}
    Times = {1, 2}
    Lists <- AllLists
    PageSize = 2
    MaxWrites = 2
SPECIFICATION Spec
CHECK_DEADLOCK FALSE
INVARIANTS TypeOK MissedAtMostLeft RepeatedAtMostCame

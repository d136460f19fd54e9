SPECIFICATION DeltaSpec
CONSTANTS
    Ids = {1, 2, 3}
    Stamps = {1, 2}
    MaxLength = 3
INVARIANTS
    DeltaIsExact
CHECK_DEADLOCK FALSE

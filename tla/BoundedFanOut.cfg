SPECIFICATION FairSpec
CONSTANTS
    task_count = 14
    concurrency_limit = 6
INVARIANTS
    InFlightBounded
    EachRanOnceWhenReturned
PROPERTIES
    Returns
CHECK_DEADLOCK FALSE

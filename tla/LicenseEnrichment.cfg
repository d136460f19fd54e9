SPECIFICATION FairSpec
CONSTANTS
    Crates = 2
    Others = 2
    Concurrency = 1
    MaxAttempts = 2
    Interval = 1
    Backoffs = {0, 1}
    Deadline = 1
    MaxTime = 2
INVARIANTS
    OverrunBounded
    CountedForTheRightReason
PROPERTIES
    CratesPacedApart
    Returns
CHECK_DEADLOCK FALSE

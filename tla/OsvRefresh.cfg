SPECIFICATION Spec
CONSTANTS
    Runs = {r1, r2}
    Advisories = {a1}
    MaxRevision = 1
    MaxTime = 2
    CacheMaxAge = 0
    ConfirmedMaxAge = 1
    Faults = TRUE
SYMMETRY RunSymmetry
INVARIANTS
    UnwarnedIsRecent
PROPERTIES
    SnapshotHeals
    TruncatedNeverForgets
    OldRecordsNeedConfirmation

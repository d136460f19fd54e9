SPECIFICATION FairSpec
CONSTANTS
    MaxInvocations = 3
    LineLength = 3
    MaxTraceLines = 2
    FlushFails = FALSE
INVARIANTS
    InterruptionCostsOne
    CleanMeansWhole
    RewriteKeepsRecords
PROPERTIES
    ShimsProceed
CHECK_DEADLOCK FALSE

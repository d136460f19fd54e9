SPECIFICATION Spec
CONSTANTS
    MaxFiles = 2
    MaxCommands = 4
    Limits = {1, 3, 9}
    MaxDeclarations = 2
    MaxExpansionDepth = 3
    MaxSubstitutions = 4
    MaxExpandedPieces = 4
    MaxImportDepth = 16
INVARIANTS
    VersionsAreAgreed
    EveryDeclarationReported
    HighMeansPinned
CHECK_DEADLOCK FALSE

SPECIFICATION IdentitySpec
CONSTANTS
    Dirs <- MCDirs
    Inputs <- MCInputs
    FolderNames <- MCFolderNames
    NameOrder <- MCNameOrder
    MaxLibraries = 2
    MaxReleases = 4
    MaxDigests = 5
    MaxReleasesPerDigest = 3
INVARIANTS
    EveryFindingSurvives
    VersionsAreGrounded
    CorpusClaimsAreEarned
CHECK_DEADLOCK FALSE

SPECIFICATION EvidenceSpec
CONSTANTS
    Roots <- MCRoots
    Disk <- MCDisk
    Links <- MCLinks
    Words <- MCWords
    Accepts <- MCAccepts
    BaseName <- MCBaseName
    Images <- MCImages
    Archives <- MCArchives
    MaxWords = 4
    MaxRecords = 2
    MaxSectionHeaders = 5
    MaxProgramHeaders = 2
    MaxStringLength = 2
    MaxDynamicEntries = 6
    MaxNeededEntries = 2
    MaxSymbolTableEntries = 2
    MaxSymbolSample = 2
    MaxArchiveMembers = 2
INVARIANTS
    UsedIsObserved
    NothingUsedIsDropped
    NamesAreDeclared
    MembersAreThere
CHECK_DEADLOCK FALSE

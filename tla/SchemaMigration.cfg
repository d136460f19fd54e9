SPECIFICATION FairSpec
CONSTANTS
    Openers = {p1, p2, p3}
    Latest = 2
    NoOne = NoOne
INVARIANTS
    StampMatchesShape
    HandleIsUsable
PROPERTIES
    ImplementsStore
    OpenTerminates

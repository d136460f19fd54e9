SPECIFICATION FairSpec
CONSTANTS
    Purls = {a, b}
    Tokens = {t1, t2}
    NoToken = NoToken
    Unreadable = Unreadable
    MaxRounds = 2
INVARIANTS
    NeverPartialAsComplete
    GivingUpIsReported
PROPERTIES
    NeverResendsToken
    PassTerminates
CHECK_DEADLOCK FALSE

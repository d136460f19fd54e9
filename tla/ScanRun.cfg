SPECIFICATION Spec
CONSTANTS
    Codes = {c1}
    MaxWarnings = 1
INVARIANTS
    ReplayIsComplete
    NeverBesideStaleSbom
    ExitTellsOutcome
CHECK_DEADLOCK FALSE

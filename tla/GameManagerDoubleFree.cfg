\* Matches end by a death.
CONSTANTS
    RoundTimer = 2
    LAST_LVL = 2
    MayGoSilent = FALSE
    MapFound = {TRUE}
SPECIFICATION Spec
CHECK_DEADLOCK FALSE
INVARIANTS
    NoDoubleFree

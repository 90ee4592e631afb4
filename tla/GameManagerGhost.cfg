\* An opponent goes silent, another match follows.
CONSTANTS
    RoundTimer = 2
    LAST_LVL = 2
    MayGoSilent = TRUE
    MapFound = {TRUE}
SPECIFICATION Spec
CHECK_DEADLOCK FALSE
INVARIANTS
    OpponentIsCurrent

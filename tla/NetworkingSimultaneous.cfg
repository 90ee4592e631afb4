\* Clean line, bytes faster than ticks, each user joins once.
CONSTANTS
    Peer = {a, b}
    SyncTries = 4
    Returning = {}
    MaxJoins = 2
    MaxNoise = 0
    NoiseByte = {"J"}
    Marked = TRUE
    Timely = TRUE
SPECIFICATION FairSpec
CHECK_DEADLOCK FALSE
PROPERTIES
    SyncCompletes

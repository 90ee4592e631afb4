\* Any timing; b leaves and comes back; two bytes arrive damaged, as another
\* protocol byte behind its error marker.
CONSTANTS
    Peer = {a, b}
    SyncTries = 2
    Returning = {b}
    MaxJoins = 2
    MaxNoise = 2
    NoiseByte = {"J", "O", "N"}
    Marked = TRUE
    Timely = FALSE
SPECIFICATION Spec
CHECK_DEADLOCK FALSE
INVARIANTS
    TypeOK
    SidesAgree

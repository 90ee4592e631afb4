\* Eight frames; keys, movements and damaged bytes at any moment; two rounds of
\* two seconds.
CONSTANTS
    MaxFrames = 8
    KBC_MAX_TRIES = 3
    MaxKeys = 2
    MaxReports = 4
    MaxErrors = 1
    RoundTimer = 2
    MaxRounds = 2
SPECIFICATION MCSpec
CHECK_DEADLOCK FALSE
INVARIANTS
    DevicesTypeOK
    WholeFrames
    PollingIsSafe
    NoDeadLine
    ClockIsRead
PROPERTIES
    ControllerGoesOn

\* The keyboard: W, S and both Ctrl keys (29 and 256 + 29), one mouse report.
\* Lines of length 2, whose slope is looked at after every second packet.  The
\* constants of the parts "mouse" and "noise" are in MCInput.
CONSTANTS
    Key = {17, 31, 29, 285}
    PayloadSync = {TRUE}
    MaxStrokes = 3
    MaxReports = 1
    MaxErrors = 0
    MaxResets = 1
    XLen = 2
    Tolerance = 1
    SLOPE_COUNT = 2
    Bound = 6
    Rise <- MCRise
    Fall <- MCFall
    Other <- MCOther
SPECIFICATION MCSpec
CHECK_DEADLOCK FALSE
INVARIANTS
    InputTypeOK
    BytesAreSorted
    ControlsFollowUser
    GestureIsExact
PROPERTIES
    EscapeEndsLoop

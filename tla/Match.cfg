\* Two matches of up to two packets, one byte lost or damaged; and the end of a
\* match with two batches lost.  UART_PACKET_TRIES is 8*60 in the code: what
\* counts is that it is not below the losses and twice the skew together.
CONSTANTS
    Controls <- MCControls
    PacketTries = 1
    MaxPackets = 2
    MaxMatches = 2
    MaxNoise = 1
    NoiseByte = {87, 168}
    Peer = {a, b}
    Patience = 4
    Skew = 1
    MaxLoss = 2
SPECIFICATION MCSpec
CHECK_DEADLOCK FALSE
INVARIANTS
    MatchTypeOK
    CopyFollows
    NoFalseResult
    ResultsAgree
    DisconnectMeansGone
PROPERTIES
    NobodyPlaysAlone

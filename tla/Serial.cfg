\* Five bytes out (a three-byte packet and two sync bytes in any order), three
\* bytes in through a receiver FIFO two deep, so that it can overrun; a heap of
\* four blocks and two byte values for the list; two machines.
CONSTANTS
    MaxSubmit = 5
    MaxArrive = 3
    RxDepth = 2
    Cell = {c1, c2, c3, c4}
    NULL = NULL
    Elem = {0, 1}
    Peer = {a, b}
SPECIFICATION MCSpec
CHECK_DEADLOCK FALSE
INVARIANTS
    TypeOK
    BusyMeansWakeup
    NoLostInterrupt
    ListIsSound
PROPERTIES
    InOrder
    DriverDrains
    RefinesFifo
    HandshakeEnds

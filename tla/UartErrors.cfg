CONSTANTS
    MaxSubmit = 1
    MaxArrive = 2
    RxDepth = 2
SPECIFICATION Spec
CHECK_DEADLOCK FALSE
PROPERTIES
    DamagedIsMarked

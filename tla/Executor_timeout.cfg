SPECIFICATION FairSpec
CONSTANTS
    Stream = {"stdout"}
    ChanCap = 1
    PipeCap = 1
    MaxWrite = 3
    Limit = 2
    Faults <- NoFaults
PROPERTIES
    TimeoutEnforced
CHECK_DEADLOCK FALSE

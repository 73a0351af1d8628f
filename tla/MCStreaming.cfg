SPECIFICATION Spec
CONSTANTS
    MaxItems = 2
    MaxFrags = 2
    Idle = 1
    MaxAge = 1
    Asks <- MCAsks
    Levels <- MCLevels
    Wires <- MCWires
    MaxMessage = 40
    MaxPending = 30
    MaxRead = 9
INVARIANTS
    
    
    BillReachesLedger
    
    FramesKept
CHECK_DEADLOCK FALSE

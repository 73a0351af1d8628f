CONSTANTS
    p = p
    q = q
    a1 = a1
    a2 = a2
    a3 = a3
    b1 = b1
    b2 = b2
    None = None
    Accounts = {a1, a2, a3, b1, b2}
    Providers = {p, q}
    PoolOf <- MCPoolOf
    Ladder <- MCLadder
    MaxSwitches = 2
    MaxEscalations = 1
    MaxOrdinal = 5
SPECIFICATION Spec
CHECK_DEADLOCK FALSE
INVARIANTS
    ForwardingSafe
PROPERTIES
    NeverTwiceOnARung
    
    

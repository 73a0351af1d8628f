CONSTANTS
    Requests = {r1, r2, r3}
    Budget = 2
SPECIFICATION Spec
CHECK_DEADLOCK FALSE
INVARIANTS
    DrainSafe
PROPERTIES
    DrainResolves

SPECIFICATION Spec
CONSTANTS
    Requests = {r1, r2}
    Replicas = {{r1}, {r2}}
    Limit = 1
    TTL = 3
    MaxMissed = 1
    MaxLeases = 2
INVARIANTS
    SlotsSafe
PROPERTIES
    StrandedSeatsFree

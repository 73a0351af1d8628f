CONSTANTS
    r1 = r1
    r2 = r2
    r3 = r3
    east = east
    west = west
    NoOne = NoOne
    Requests = {r1, r2, r3}
    Replicas = {east, west}
    Home <- MCHome
    Calls = 2
    CallTicks = 1
    LockTicks = 2
    MaxHour = 1
    MaxIssued = 2
SPECIFICATION Spec
CHECK_DEADLOCK FALSE
INVARIANTS
    RefreshSafe
PROPERTIES
    NeverOlder
    RefreshSettles

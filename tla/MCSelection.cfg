CONSTANTS
    r1 = r1
    r2 = r2
    seat = seat
    key = key
    spare = spare
    talk = talk
    ann = ann
    bob = bob
    None = None
    Elsewhere = Elsewhere
    Requests = {r1, r2}
    Accounts = {seat, key, spare}
    Sessions = {talk}
    Principals = {ann, bob}
    SessionOf <- MCSessionOf
    PrincipalOf <- MCPrincipalOf
    Kind <- MCKind
    Limit <- MCLimit
    Priority <- MCPriority
    Reset <- MCReset
    LastUsed <- MCLastUsed
    FirstOwner <- MCFirstOwner
    Asks <- MCAsks
    MaxChanges = 1
    MaxContends = 1
SPECIFICATION Spec
CHECK_DEADLOCK FALSE
INVARIANTS
    LeasesHold
PROPERTIES
    LeaseReturns

SPECIFICATION Spec
CONSTANTS
    Requests = {r1, r2, r3}
    TripThreshold = 2
    Cooldown = 2
    Retries = 1
    MaxCount = 3
    ProbeHangUps = FALSE
    None = None
INVARIANTS
    ProbeIsSafe
PROPERTIES
    BreakerSteps
    

SPECIFICATION MCSpec
CONSTANTS
    Providers = {"anthropic", "openai"}
    Endpoints = {"box"}
    Accepts <- MCAccepts
    Specs <- MCSpecs
    Ladders <- MCLadders
    Floors = {"", "balanced"}
    Accounts = {a1, a2}
    Rows <- MCRows
    Asks <- MCAsks
    Substantial = 3
    Huge = 5
    MaxInserts = 3
    MaxEdits = 1
    Migrators = {"m1", "m2"}
    Gateways = {"g1"}
    Embeds <- TheEmbeds
    FreshFor = 1
    LookupTime = 1
    MaxOutages = 1
    MaxSince = 3
    d1 = d1
    d2 = d2
    d3 = d3
    Operators = {o1, o2}
    SeatIds = {d1, d2, d3}
    People = {"p", "q"}
    RouteNames = {"r"}
    KindsTaken <- TheOffers
    Boxes <- TheBoxes
    Catalogued = {"anthropic", "box"}
    Instructed = TRUE
    Adds <- TheAdds
    Binds <- TheBinds
    Renames <- TheRenames
    Reserves <- TheReserves
    Rungs <- TheRungs
    Legacy <- TheLegacy
    MaxCommands = 2
    MaxMoves = 1
SYMMETRY Swap
INVARIANTS
    
    DecisionsHold
    
    EnrolmentHolds
CHECK_DEADLOCK FALSE

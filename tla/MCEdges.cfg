SPECIFICATION EdgesSpec
CONSTANTS
    codexSeat = codexSeat grokSeat = grokSeat theKey = theKey xaiKey = xaiKey
    k1 = k1 k2 = k2 k3 = k3 someone = someone
    Callers = {w1, w2}
    Dials = {d1, d2}
    MaxGen = 3
    Rpm = 3
    Minute = 4
    MaxSecond = 9
    Askers = {w1, w2}
    Lifetimes = {7}
    RefreshSkew = 4
    LastResort = 3
    FailureTtl = 2
    MintTimeout = 1
    MaxMintClock = 8
    MaxMints = 2
    Calls = {w1, w2}
    Keys = {k1, k2, k3}
    OwnerOf <- TheOwnerOf
    Catalogs <- TheCatalogs
    HostSets <- TheHostSets
    AskedFor <- TheAskedFor
    Answering = {"m", "x"}
    MaxSwitches = 1
    SameKeyRetries = 1
    TripsAt = 2
    MaxListingPages = 2
    MaxReloads = 1
    MaxCalls = 2
    Sweepers = {r1, r2}
    Codex = {codexSeat}
    Grok = {grokSeat}
    DiscoveryKeys = {theKey}
    XaiKeys = {xaiKey}
    Loaded = {r1}
    Enrolments <- TheEnrolments
    CodexBodies <- TheCodexBodies
    GrokBodies <- TheGrokBodies
    ModelLists <- TheModelLists
    Interval = 5
    SweepTime = 1
    Replica = {w1, w2}
    Key = {theKey}
    Principal = {someone}
    Actor = {a}
    Owner <- TheOwner
    Expires <- TheExpires
    Never = Never
    Issued = {}
    Cli = Cli
    L1_TTL = 1
    L2_TTL = 3
    LookupTime = 1
    LookupPermits = 1
    MaxVersion = 1
    MaxClock = 6
SYMMETRY Swap
INVARIANTS
    ConnectionHeals AllowanceHeld   PollsHold 
CHECK_DEADLOCK FALSE

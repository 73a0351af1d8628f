SPECIFICATION Spec
CONSTANTS
    Names = {"e"}
    Drafts <- FewDrafts
    Patches <- FewPatches
    Handwritten <- MCHandwritten
    Editors = {w1, w2}
    Referrers = {t1}
    Reloaders = {d1, d2}
    MaxEdits = 2
    MaxRefs = 1
    MaxReloads = 2
    Endpoint = "ep"
    ModelIds <- TheIds
    Prices = {0, 2}
    Lists <- TheLists
    XaiLists <- TheXaiLists
    Published <- ThePublished
    Overrides <- TheOverrides
    Snapshot <- TheSnapshot
    Stray <- TheStray
    Options <- TheOptions
    Jobs = {w1, w2}
    MaxPages = 2
    MaxWrites = 2
    MaxJobs = 2
    Admins = {w1, w2}
    ServiceIds = {d1, d2}
    ServiceNames = {"n", "m"}
    Sites = {"u", "meta"}
    DeniedLiterals = {"meta"}
    MaxProbes = 2
INVARIANTS ServedAsWritten WritersSerialise RowsKept SyncIsTrue HealthIsWhatProbesFound
SYMMETRY Swap
CHECK_DEADLOCK FALSE

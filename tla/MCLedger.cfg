SPECIFICATION Spec
CONSTANTS
    Workers = {w1, w2}
    Calls <- MCCalls
    Limit <- MCLimit
    HardStop = 2
    MonthLength = 2
    Length <- MCLength
    References = {2}
    MaxRows = 3
    MaxPrevious = 1
    MaxNow = 2
    Histories <- MCHistories
    Accounts <- MCAccounts
    Catalog <- MCCatalog
    LedgerSlack = 1
    WriteBatch = 2
    MaxRuns = 4
    DayTicks = 2
    Days <- MCDays
    Offsets <- MCOffsets
    Years = 2
    MaxDays = 4
    RangeDays = {2, 3, 4}
    LookBacks = {0, 2, 5}
    SeatTimes = {7, 13}
SYMMETRY Swap
INVARIANTS
    LedgerAgrees
    
    
    PeriodsFair
CHECK_DEADLOCK FALSE

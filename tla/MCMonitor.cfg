SPECIFICATION FairSpec
CONSTANTS
    Services = {s}
    Intervals = {1, 2}
    Limits <- MCLimits
INVARIANTS
    TypeOK
    StopDrains
    OneLoop
    PanicOnlyAfterRestart
    NeverOvercounts
    CalmLedger
PROPERTIES
    StopReturns
CHECK_DEADLOCK FALSE

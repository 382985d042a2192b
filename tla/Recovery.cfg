CONSTANTS
    Tabs = {t1, t2}
    Backups = {b1, b2}
    FirstLists = {{b1}}
    MaxBackups = 2
    MaxCodeAttempts = 1
    MaxMoves = 1
    MaxTxs = 3
    MaxPreviews = 2
    MaxFaults = 2
    None = None
SPECIFICATION Spec
INVARIANTS
    ApprovedOnly
PROPERTIES
    SweepLeavesPool
    PendingSettles
CHECK_DEADLOCK FALSE

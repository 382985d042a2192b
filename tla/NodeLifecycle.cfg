SPECIFICATION FairSpec
CONSTANTS
    Runs = {r1, r2}
    Stops = {s1, s2}
    MaxCalls = 1
    None = None
INVARIANTS
    NodeHoldsDevice
    BackupHoldsEveryCall
    BackedUpBeforeRelease
    StopIsFinal
PROPERTIES
    SessionSpec
    EveryCallSettles
\* a page may rest after its last call
CHECK_DEADLOCK FALSE

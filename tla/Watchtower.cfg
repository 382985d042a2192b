CONSTANTS
    Channels = {c1}
    Instances = {i1, i2}
    MaxNumber = 1
    MaxPenalties = 2
    MaxFaults = 1
    None = None
SPECIFICATION FairSpec
INVARIANTS
    NeverOverlooked
    MissedToThePeer
PROPERTIES
    EventuallyPunished
CHECK_DEADLOCK FALSE

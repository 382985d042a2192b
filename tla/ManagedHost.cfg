CONSTANTS
    u1 = u1
    u2 = u2
    Users <- MCUsers
    Asks <- MCAsks
    Procs = {q1, q2}
    Ports = {n1, n2}
    MaxNodes = 1
    Keep = 1
    Writers <- MCWriters
    MaxState = 1
    MaxGivenUp = 1
    MaxListed = 2
    Faults = {}
    None = None
SPECIFICATION Spec
SYMMETRY Symmetry
INVARIANTS
    AloneWithData
    RegistryHolds
    IdentityKept
    SnapshotIntact
CHECK_DEADLOCK FALSE

CONSTANTS
    Devices = {d1, d2}
    MaxState = 3
    MaxGen = 2
    Keep = 1
    FaultSets = {{}, {"sleep"}, {"slowSave"}, {"bootDies"}, {"unmarked"}, {"slowBoot"}, {"sameInstance"},
                 {"sleep", "unmarked"}, {"slowBoot", "bootDies"}}
    None = None
SPECIFICATION Spec
SYMMETRY Symmetry
INVARIANTS
    OneNode
    StartsOnLatest
    StateKept
\* an account may run out of the bounds MaxState and MaxGen
CHECK_DEADLOCK FALSE

\* Once its user has asked for MaxAsks things, the page may rest.
CONSTANTS
    MaxAsks = 5
    HabitSets = {{}, {"autoStart", "ends"}, {"returns", "ends"}, {"autoStart", "returns"}, {"hurried"}}
SPECIFICATION ProviderSpec
INVARIANTS OwnWallet NoStrayNode
PROPERTIES LeavesStopped
CHECK_DEADLOCK FALSE

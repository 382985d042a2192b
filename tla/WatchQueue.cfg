CONSTANTS
    c1 = c1
    c2 = c2
    Channels = {c1, c2}
    Tokens = {}
    MaxWatched = 1
    MaxNumber <- MCNumber
    MaxPages = 2
    Forgettable = {c1}
    None = None
SPECIFICATION FairSpec
INVARIANTS
    QuietMeansKnown
PROPERTIES
    EveryRevocationArrives
CHECK_DEADLOCK FALSE

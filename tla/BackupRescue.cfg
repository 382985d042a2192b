CONSTANTS
    b1 = b1
    b2 = b2
    n1 = n1
    n2 = n2
    BackupIds = {b1, b2}
    Emails = {e1}
    Nodes = {n1, n2}
    Old = {1, 2}
    Stray = Stray
    Foreign = Foreign
    Places = {d1}
    MaxBackups = 2
    MaxRescueCells = 2
    MaxCells = 4
    Bounds <- LitOrRescuer
    Nothing = Nothing
SPECIFICATION RescueSpec
SYMMETRY Same
INVARIANTS
    BackupsCanRescue
    SentIsShown
PROPERTIES
    ChangesConfirmed
CHECK_DEADLOCK FALSE

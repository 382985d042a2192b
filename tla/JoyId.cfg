SPECIFICATION JoyIdSpec
CONSTANTS
    Users = {1, 2}
    MaxRequests = 2
    MaxMoves = 4
INVARIANTS
    WaitsForJoyId
    AnsweredOnce
CHECK_DEADLOCK FALSE

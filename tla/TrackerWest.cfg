CONSTANTS
    MaxEvents = 1
    UartCommand = {}
    LossPossible = FALSE
    DropPossible = FALSE
    Position <- West
    BlankPossible = FALSE
    Threshold = 3
    StatusFails = FALSE
    ServerHangs = FALSE
    Limit = 3
    SleepMoving = 0
    SleepStill = 2
    HttpTicks = 0
SPECIFICATION HttpTrackerFairSpec
PROPERTY PositionsReachServer

CONSTANTS
    MaxEvents = 1
    UartCommand = {"close", "open"}
    LossPossible = TRUE
    DropPossible = TRUE
    Position <- NorthEast
    BlankPossible = TRUE
    Threshold = 3
    StatusFails = TRUE
    ServerHangs = TRUE
    Limit = 4
    SleepMoving = 1
    SleepStill = 2
    HttpTicks = 1
SPECIFICATION HttpTrackerFairSpec
INVARIANTS TypeOK PostsOnlyCredible NoNeedlessReset NothingLeaks
PROPERTIES NeverStuck PositionsReachServer

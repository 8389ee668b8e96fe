CONSTANTS
    MaxEvents = 2
    UartCommand = {"close", "open"}
    LossPossible = TRUE
    DropPossible = TRUE
    CountCap = 12
SPECIFICATION FairSpec
INVARIANTS FlagClearedWhenLost LedTellsNetwork
PROPERTY KeepsRhythm

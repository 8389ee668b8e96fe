CONSTANTS
    BufferLen = 10
    Segment = 3
    Pack = 2
    Header = 2
    MaxBody = 9
    MaxRetry = 3
SPECIFICATION Spec
INVARIANTS DownloadWhole EveryPackStored ChipBackInNmea LeakConfined
PROPERTY AgpsReturns

CONSTANTS
    Request <- OneRequest
    Preemptive = FALSE
    CutAfterVTG = FALSE
    MallocFails = FALSE
    StaleCallback = TRUE
    Capacity = 2
    FrameLength = 2
    MaxChunk = 1
    MaxRx = 2
    MaxReq = 2
SPECIFICATION FairSpec
PROPERTIES CommandReturns EventsArePolled

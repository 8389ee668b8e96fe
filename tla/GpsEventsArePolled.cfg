CONSTANTS
    Request <- OneRequest
    Preemptive = FALSE
    CutAfterVTG = TRUE
    MallocFails = FALSE
    StaleCallback = FALSE
    Capacity = 3
    FrameLength = 3
    MaxChunk = 2
    MaxRx = 2
    MaxReq = 1
SPECIFICATION FairSpec
PROPERTY EventsArePolled

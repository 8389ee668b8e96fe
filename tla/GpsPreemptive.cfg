CONSTANTS
    Request <- MixedRequests
    Preemptive = TRUE
    CutAfterVTG = TRUE
    MallocFails = TRUE
    StaleCallback = FALSE
    Capacity = 2
    FrameLength = 1
    MaxChunk = 2
    MaxRx = 2
    MaxReq = 2
SPECIFICATION Spec
INVARIANTS TypeOK TimerScoped TrueMeansExecuted MisattributedOnlyAfterTimeOut

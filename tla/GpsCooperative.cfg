CONSTANTS
    Request <- NmeaRequests
    Preemptive = FALSE
    CutAfterVTG = FALSE
    MallocFails = FALSE
    StaleCallback = TRUE
    Capacity = 3
    FrameLength = 3
    MaxChunk = 2
    MaxRx = 2
    MaxReq = 2
SPECIFICATION Spec
INVARIANTS AckPresent ReleaseOnLive TimerScoped NoAckOutsideCommand TrueMeansExecuted AckOverwrittenOnlyAfterTimeOut

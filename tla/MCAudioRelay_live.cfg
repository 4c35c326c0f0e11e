SPECIFICATION FairSpec
CONSTANTS
    FrameBytes = 2
    ChunkSize = 2
    QueueSize = 1
    Rate = 2
    FillThreshold = 4
    TrimThreshold = 6
    SilenceBytes = 2
    ReadSizes = {4}
    MaxNow = 3
    MaxCaptured = 4
PROPERTIES
    CloseEndsGoroutines
    CatchesUp

SPECIFICATION Spec
CONSTANTS
    FrameBytes = 2
    ChunkSize = 2
    QueueSize = 1
    Rate = 2
    FillThreshold = 4
    TrimThreshold = 4
    SilenceBytes = 2
    ReadSizes = {3}
    MaxNow = 3
    MaxCaptured = 12
INVARIANTS
    TypeOK
    PhaseAligned
PROPERTIES
    NoReplay
    PrerollBounded
    KeepsTrack

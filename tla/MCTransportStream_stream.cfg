SPECIFICATION FairSpec
CONSTANTS
    TsPacketSize = 24
    StartupUnits = 3
    MaxProbeUnits = 6
    ReadUnits = 2
    PipeUnits = 2
    MaxUnits = 8
INVARIANTS
    TypeOK
    InOrder
    PipeOutlivesFfmpeg
PROPERTIES
    StartVerified
    StartReturns
    CloseEndsAll

SPECIFICATION FairSpec
CONSTANTS
    Buffers = {b1, b2, b3, b4}
    NoBuf = NoBuf
    Interval = 1
    MaxBurst = 2
    MaxDebt = 1
    MaxNow = 3
    MaxFrames = 2
PROPERTIES
    CloseEndsGoroutines
    SourceFailureReachesFfmpeg

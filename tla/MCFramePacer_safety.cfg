SPECIFICATION Spec
CONSTANTS
    Buffers = {b1, b2, b3, b4, b5}
    NoBuf = NoBuf
    Interval = 2
    MaxBurst = 2
    MaxDebt = 2
    MaxNow = 7
    MaxFrames = 4
SYMMETRY Symmetry
INVARIANTS
    BufferExclusive
PROPERTIES
    NeverBackwards
    KeepsTrack
    DrivesSkew

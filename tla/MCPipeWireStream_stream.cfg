SPECIFICATION FairSpec
CONSTANTS
    Callers = {c1, c2}
    QueueSize = 1
    PoolSize = 2
    MaxChunks = 3
    MaxFormats = 2
INVARIANTS
    FramesKept
    BuffersConserved
    CallbacksBeforeDestroy
    NothingLeftBehind
PROPERTIES
    CloseReturns

SPECIFICATION FairSpec
CONSTANTS
    Callers = {c1}
    QueueSize = 1
    MaxChunks = 2
INVARIANTS
    TypeOK
    OrderKept
    DeliveryOnLiveSession
    NothingLeftBehind
PROPERTIES
    CloseReturns
    CallbackReturns

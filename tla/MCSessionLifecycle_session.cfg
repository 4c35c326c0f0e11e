SPECIFICATION FairSpec
CONSTANTS
    Callers = {c1, c2}
INVARIANTS
    TypeOK
    ReturnedMeansUnwound
PROPERTIES
    CloseReturns
    ExitReclaimsWithVideo
    UnwindEndsAll

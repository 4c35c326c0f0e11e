SPECIFICATION FairSpec
CONSTANTS
    Programs = {p1, p2}
    Dirs = {d1, d2}
    MaxAge = 2
INVARIANTS
    TypeOK
PROPERTIES
    LiveDirectoryKept
    Reclaimed

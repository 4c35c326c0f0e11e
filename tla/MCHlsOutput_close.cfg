SPECIFICATION Spec
CONSTANTS
    Programs = {p1, p2}
    Dirs = {d1, d2}
    MaxAge = 2
INVARIANTS
    CloseRemoves

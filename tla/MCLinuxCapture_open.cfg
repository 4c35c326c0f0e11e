SPECIFICATION Spec
CONSTANTS
    Openers = {o1, o2}
INVARIANTS
    OwnSession
    NothingLeftBehind

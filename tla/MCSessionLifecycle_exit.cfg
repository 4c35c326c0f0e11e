SPECIFICATION ReadingSpec
CONSTANTS
    Callers = {c1}
PROPERTIES
    ExitReclaims

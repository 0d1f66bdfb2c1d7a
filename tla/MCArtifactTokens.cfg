SPECIFICATION Spec
CONSTANTS
    p1 = p1
    p2 = p2
    own = own
    Procs = {p1, p2}
    Keys = {own}
    MaxMint = 2
    MaxRevoke = 2
INVARIANTS FullIsCurrent UnauthorizedIsFresh
PROPERTIES DropsOnlyRefused RequestsReturn
CHECK_DEADLOCK FALSE

SPECIFICATION Spec
CONSTANTS
    p1 = p1
    p2 = p2
    Procs = {p1, p2}
    Sends = 2
    MintAttempts = 2
    BusyRepeats = 1
    MaxMint = 2
    MaxRevoke = 1
INVARIANTS CarriedOutOnce UnauthorizedIsFresh
PROPERTIES NoRedundantMint CallsReturn
CHECK_DEADLOCK FALSE

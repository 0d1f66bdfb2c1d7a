SPECIFICATION Spec
CONSTANTS
    p1 = p1
    p2 = p2
    Procs = {p1, p2}
    Ops = {"stop"}
    HasETag = TRUE
    MaxVersion = 6
SYMMETRY Backends
INVARIANTS SaveErrorIsCurrent
CHECK_DEADLOCK FALSE

SPECIFICATION Spec
CONSTANTS
    p1 = p1
    p2 = p2
    Procs = {p1, p2}
    Ops = {"stop", "terminate", "start", "recover", "pause", "resume", "ready"}
    HasETag = TRUE
    MaxVersion = 5
INVARIANTS ConfirmedIsReleased TargetWasReached
PROPERTIES RecoverSparesHealthy ImplementsContract CallsReturn
CHECK_DEADLOCK FALSE

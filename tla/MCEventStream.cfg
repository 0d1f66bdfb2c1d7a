SPECIFICATION Spec
CONSTANTS
    Budget = 2
    Finite = TRUE
    MaxLog = 4
INVARIANTS ExactlyOnce LostOnlyBarren
PROPERTIES Delivery
CHECK_DEADLOCK FALSE

SPECIFICATION Spec
CONSTANTS
    Budget = 2
    Sends = 2
    Chunks = 2
    MaxSize = 3
    MaxGen = 3
    MaxForgets = 1
INVARIANTS OneGeneration WholeFile NoGap OwnDeleteCounts
PROPERTIES CallEnds
CHECK_DEADLOCK FALSE

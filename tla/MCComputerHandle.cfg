SPECIFICATION Spec
CONSTANTS
    a = a
    b = b
    c = c
    h1 = h1
    h2 = h2
    Procs = {a, b, c}
    Handles = {h1, h2}
    HandleOf <- MCBackends
    Starters = {c}
    Deleters = {c}
    MaxSandboxes = 2
    MaxRevision = 2
INVARIANTS SavedConsistent
PROPERTIES NoLiveReplacement KeptBySoleUser
SYMMETRY MCSymmetry

SPECIFICATION Spec
CONSTANTS
    a = a
    b = b
    c = c
    h1 = h1
    h2 = h2
    Procs = {a, b}
    Handles = {h1}
    HandleOf <- MCPair
    Starters = {}
    Deleters = {a, b}
    MaxSandboxes = 2
    MaxRevision = 2
PROPERTIES KeptUntilReleased

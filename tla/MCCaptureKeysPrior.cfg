SPECIFICATION KeysSpec
CONSTANTS
    o1 = o1
    m1 = m1
    m2 = m2
    NoKey = NoKey
    Objects = {o1}
    Materials = {m1, m2}
    MaxGeneration = 2
    MaxSaved = 3
    PriorFirst = TRUE
SYMMETRY Symmetry
INVARIANT ExportStorable

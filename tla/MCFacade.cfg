SPECIFICATION MCSpec
CONSTANTS
    w1 = w1
    w2 = w2
    s1 = s1
    x1 = x1
    y1 = y1
    None = None
    Workers = {w1, w2}
    Submissions = {s1}
    Answers = {y1}
    Texts = {x1}
    SendBudget = 2
    MaxTurns = 2
    MaxLate = 1
    Callers = {w1, w2}
    MaxEpoch = 3
    MaxAstray = 1
    o1 = o1
    m1 = m1
    m2 = m2
    NoKey = NoKey
    Objects = {o1}
    Materials = {m1, m2}
    MaxGeneration = 2
    MaxSaved = 2
    PriorFirst = FALSE
INVARIANTS
    OneTurnPerSubmission
    NoSilentRun
    SteeredOnce
    CanceledByName
    NoBlindOverwrite
    OneEffectPerCall
    Recoverable
    ExportStorable
PROPERTIES KeysForward
SYMMETRY MCSymmetry

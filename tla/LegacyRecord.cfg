CONSTANTS
    t1 = t1
    t2 = t2
    w1 = w1
    w2 = w2
    a = a
    b = b
    Tabs = {t1, t2}
    Texts = {w1, w2}
    Types = {a, b}
    Plans <- MCPlans
    Nil = Nil
    MaxRecords = 3
    MaxOpens = 2
    MaxFaults = 1
SYMMETRY MCSymmetry
SPECIFICATION Spec
INVARIANTS
    CreatedOnce
    TextKept
    TextStaysWithRecord
    ChoicesStand
CHECK_DEADLOCK FALSE

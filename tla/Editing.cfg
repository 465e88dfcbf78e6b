SPECIFICATION Spec
CONSTANTS
    Tabs = {t1, t2}
    OldFiles = {o1, o2}
    NewFiles = {n1, n2}
    Nothing = Nothing
    Grace = 1
    MaxSaves = 2
    MaxFaults = 2
SYMMETRY Symmetry
INVARIANTS
    TypeOK
    ShareKept
    EditsTrue
CHECK_DEADLOCK FALSE

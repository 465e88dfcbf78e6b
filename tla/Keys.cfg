SPECIFICATION Spec
CONSTANTS
    Width = 2
    Poly = 7
    Tabs = {t1, t2}
    Shares = {s1}
    Links = {l1}
    Randoms = {2}
    Thresholds = {2}
    Total = 3
    MaxKeys = 3
    MaxPrints = 2
    MaxFileRetries = 1
    MaxFaults = 1
SYMMETRY Symmetry
INVARIANTS
    TypeOK
    ShardsShare
    RotationComplete
    AccountKeyKnown
CHECK_DEADLOCK FALSE

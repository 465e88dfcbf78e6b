SPECIFICATION Spec
CONSTANTS
    Clients = {c1, c2}
    Requests = {r1, r2}
    OldKey = OldKey
    NoClient = NoClient
    Total = 3
    MaxRetries = 1
    MaxFileRetries = 1
    MaxRuns = 2
    MaxFaults = 2
SYMMETRY Symmetric
INVARIANTS
    TypeOK
    ContentWhole
    DoneReencrypted
    
CHECK_DEADLOCK FALSE

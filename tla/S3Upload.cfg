CONSTANTS
    Creators = {w1}
    Rekeyers = {v1}
    Ids = {f0, f1, f2}
    Recorded = f0
    Uploads = {u1, u2}
    Requests = {r1, r2}
    Old = Old
    Nobody = Nobody
    NoId = NoId
    NoUpload = NoUpload
    Total = 2
    MaxRetries = 2
    MaxFileRetries = 1
    Ttl = 1
    StaleAge = 2
    Faults = {"loss", "timeout", "crash", "error", "remove"}
    MaxFaults = 2
    AtOnce = 1
SPECIFICATION Spec
SYMMETRY Symmetry
INVARIANTS
    TypeOK
    
    ObjectsMatchRows
    OpenUploadsKnown

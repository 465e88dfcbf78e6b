SPECIFICATION Spec
CONSTANTS
    Uploads = {u1, u2}
    Ids = {i1, i2, i3, i4}
    Requests = {r1, r2, r3}
    NoUpload = NoUpload
    NoId = NoId
    Absent = Absent
    NoRow = NoRow
    ChunkSize = 2
    Size = 3
    MaxShareSize = 5
    MaxRetries = 3
    MaxRefreshes = 1
    Faults = {"loss", "timeout", "crash", "purge"}
    MaxFaults = 3
SYMMETRY Symmetric
INVARIANTS
    TypeOK
    RecordedFilesWhole
    DoneFilesRecorded
    RecordedOnce
CHECK_DEADLOCK FALSE

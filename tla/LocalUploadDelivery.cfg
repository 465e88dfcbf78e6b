SPECIFICATION FairSpec
CONSTANTS
    Uploads = {u1, u2}
    Ids = {1, 2, 3, 4}
    Requests = {r1, r2}
    NoUpload = NoUpload
    NoId = NoId
    Absent = Absent
    NoRow = NoRow
    ChunkSize = 2
    Size = 3
    MaxShareSize = 5
    MaxRetries = 2
    MaxRefreshes = 1
    Faults = {"loss", "crash", "session", "challenge"}
    MaxFaults = 2
CONSTRAINT IdsInOrder
PROPERTIES
    UploadsEnd
    DeliversFiles
CHECK_DEADLOCK FALSE

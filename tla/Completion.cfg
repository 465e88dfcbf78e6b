SPECIFICATION Spec
CONSTANTS
    Shares = {s1, s2}
    Files = {f1, f2}
    Infected = {f1}
    Requests = {r1, r2}
    NoShare = NoShare
    NoArchive = NoArchive
    Uses = 1
    MaxCompletes = 2
    MaxUploads = 2
    MaxReverts = 1
    MaxCrashes = 2
SYMMETRY Symmetric
INVARIANTS
    TypeOK
    UsesCounted
    ReadyArchiveWhole
    InfectedFilesGo
    RemovedSharesStayEmpty
CHECK_DEADLOCK FALSE

SPECIFICATION Spec
CONSTANTS
    Shares = {s1}
    Files = {f1}
    Requests = {r1, r2}
    NoShare = NoShare
    NoFile = NoFile
    NoRow = NoRow
    Lifetimes = {0}
    Day = 0
    Retention = 0
    Accounts = {TRUE}
    Links = {TRUE}
    MaxClock = 2
    MaxBirths = 2
    MaxFaults = 1
SYMMETRY Symmetric
CONSTRAINT FewTasks
INVARIANTS
    TypeOK
    RecordedContentOnDisk
    DirectoriesOwned
CHECK_DEADLOCK FALSE

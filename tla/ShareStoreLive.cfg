SPECIFICATION FairSpec
CONSTANTS
    Shares = {s1, s2}
    Files = {}
    Requests = {r1}
    NoShare = NoShare
    NoFile = NoFile
    NoRow = NoRow
    Lifetimes = {1}
    Day = 0
    Retention = 2
    Accounts = {FALSE}
    Links = {FALSE}
    MaxClock = 3
    MaxBirths = 2
    MaxFaults = 1
PROPERTIES
    DoomedSharesGo
CHECK_DEADLOCK FALSE

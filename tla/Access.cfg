SPECIFICATION Spec
CONSTANTS
    Guests = {g1}
    Owner = Owner
    Host = Host
    Admin = Admin
    AdminAccess = TRUE
    Requests = {r1, r2}
    AtOnce = 1
    MaxShares = 2
    MaxEditions = 2
    MaxOpens = 2
SYMMETRY Symmetry
INVARIANTS
    TypeOK
    ContentKept
    ViewsBounded
    TokensOfEdition
CHECK_DEADLOCK FALSE

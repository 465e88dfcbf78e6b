SPECIFICATION Spec
CONSTANTS
    Browsers = {b1, b2}
    Users = {u1, u2}
    Passwords = {p1, p2}
    Secrets = {s1, s2}
    Nobody = Nobody
    NoSecret = NoSecret
    AtFirst = 1
    MaxRequests = 3
SYMMETRY Symmetry
INVARIANTS
    TypeOK
    TokensSpentOnce
    OneFounderOneLeft
    FactorChecked
    SessionsOfPassword
CHECK_DEADLOCK FALSE

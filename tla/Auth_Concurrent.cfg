SPECIFICATION Spec
CONSTANTS
    Users = {u1, u2}
    Browsers = {b1}
    Sessions = {s1, s2}
    r1 = r1
    r2 = r2
    Requests = {r1, r2}
    AccessTtl = 1
    RefreshTtl = 2
    MaxTime = 2
    MaxTokens = 4
    RepliesMayBeLost = TRUE
    None = None
SYMMETRY RequestSymmetry
INVARIANTS
    TypeOK
    CookiesLeadHome
    CsrfAgrees
PROPERTIES
    RevocationIsFinal
CHECK_DEADLOCK FALSE

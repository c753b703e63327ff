SPECIFICATION Spec
CONSTANTS
    Users = {u1}
    Browsers = {b1}
    Sessions = {s1}
    r1 = r1
    r2 = r2
    Requests = {r1, r2}
    AccessTtl = 1
    RefreshTtl = 2
    MaxTime = 1
    MaxTokens = 3
    RepliesMayBeLost = FALSE
    None = None
INVARIANTS
    LogoutRevokes
CHECK_DEADLOCK FALSE

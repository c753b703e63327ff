SPECIFICATION Spec
CONSTANTS
    Users = {u1}
    Seeded = {u1}
    Credentials = {c1}
    Shares = {s1}
    Claims = {degree}
    Audiences = {a1}
    IssuedAts = {0}
    r1 = r1
    r2 = r2
    Requests = {r1, r2}
    MaxKeys = 4
    MaxRestarts = 1
    IssuerKeyConfigured = TRUE
    None = None
INVARIANTS
    ConflictMeansRegistered
CHECK_DEADLOCK FALSE

SPECIFICATION Spec
CONSTANTS
    Users = {u1, u2}
    Seeded = {u1}
    Credentials = {c1, c2}
    Shares = {s1, s2}
    Claims = {degree}
    Audiences = {a1}
    IssuedAts = {0}
    r1 = r1
    r2 = r2
    Requests = {r1, r2}
    MaxKeys = 3
    MaxRestarts = 1
    IssuerKeyConfigured = FALSE
    None = None
SYMMETRY RowSymmetry
INVARIANTS
    TypeOK
    CredentialsBound
    SignedIsVerifiable
    TamperedIsForeign
    LinksAnswerForThemselves
CHECK_DEADLOCK FALSE

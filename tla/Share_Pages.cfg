SPECIFICATION SafePages
CONSTANTS
    Holders = {h1}
    Issuers = {i1}
    Credentials = {c1}
    Shares = {s1}
    r1 = r1
    r2 = r2
    Requests = {r1, r2}
    cgpa = cgpa
    degree = degree
    ClaimSets <- MCTwoClaims
    ShareTtls = {1}
    CredentialTtl = 3
    Second = 2
    ViewLimits = {1}
    MaxTime = 2
    MaxRestarts = 0
    MaxVerifications = 1
    EncryptionKeyConfigured = TRUE
    IssuerKeyConfigured = TRUE
    Viewers = {h1, i1}
    None = None
SYMMETRY SafeSymmetry
INVARIANTS
    ClosedIsRefused
    FreshLabelAgrees
    ResultIsStored
CHECK_DEADLOCK FALSE

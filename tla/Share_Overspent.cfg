SPECIFICATION Spec
CONSTANTS
    Holders = {h1}
    Issuers = {i1}
    Credentials = {c1}
    Shares = {s1}
    r1 = r1
    r2 = r2
    Requests = {r1, r2}
    cgpa = cgpa
    degree = degree
    ClaimSets <- MCOneClaimSet
    ShareTtls = {1}
    CredentialTtl = 4
    Second = 2
    ViewLimits = {1}
    MaxTime = 1
    MaxRestarts = 0
    MaxVerifications = 3
    EncryptionKeyConfigured = TRUE
    IssuerKeyConfigured = TRUE
    None = None
INVARIANTS
    DisclosuresWithinLimit
CHECK_DEADLOCK FALSE

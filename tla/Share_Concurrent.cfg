SPECIFICATION SpecH
CONSTANTS
    Holders = {h1}
    Issuers = {i1}
    Credentials = {c1}
    Shares = {s1}
    r1 = r1
    r2 = r2
    Requests = {r1, r2}
    cgpa = cgpa
    degree = degree
    ClaimSets <- MCClaimSets
    ShareTtls = {1}
    CredentialTtl = 2
    Second = 2
    ViewLimits = {2}
    MaxTime = 2
    MaxRestarts = 1
    MaxVerifications = 3
    EncryptionKeyConfigured = FALSE
    IssuerKeyConfigured = FALSE
    None = None
SYMMETRY SafeSymmetry
INVARIANTS
    TypeOK
    ViewsWithinLimit
    AnswersAudited
    RequestsCoherent
    ChecksExplainVerdict
    AnswerWitnessed
    RowsWitnessed
    ShareWithinCredential
    
PROPERTIES
    WithdrawalIsFinal
    ImplementsBudget
CHECK_DEADLOCK FALSE

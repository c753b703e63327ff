SPECIFICATION Spec
CONSTANTS
    Holders = {h1}
    Imports = {i1, i2}
    Credentials = {c1, c2, c3, c4, c5}
    r1 = r1
    r2 = r2
    Requests = {r1, r2}
    Documents <- MCDemo
    TrustVcAnswers <- MCValid
    ApiAnswers <- MCApiValid
    Faults <- MCAllFaults
    MaxFaults = 3
    None = None
SYMMETRY RequestSymmetry
INVARIANTS
    TypeOK
    DerivationExclusive
    DerivedIsBacked
    CredentialsAccountedFor
    AbandonedAccountedFor
PROPERTIES
    ImplementsLifecycle
CHECK_DEADLOCK FALSE

SPECIFICATION SafePage
CONSTANTS
    h1 = h1
    t1 = t1
    r1 = r1
    r2 = r2
    i1 = i1
    i2 = i2
    c1 = c1
    c2 = c2
    c3 = c3
    Holders = {h1}
    Tabs = {t1}
    HolderOf <- MCHolderOf
    Imports = {i1, i2}
    Credentials = {c1, c2, c3}
    Requests = {r1, r2}
    Documents <- MCDocuments
    NotJson = NotJson
    TrustVcAnswers <- MCRevoked
    ApiAnswers <- MCApiValid
    Faults <- MCFormFaults
    MaxFaults = 1
    None = None
SYMMETRY IdSymmetry
INVARIANTS
    ShownIsStored
    OpensPreviewed
    DerivedFromGenuine
CHECK_DEADLOCK FALSE

SPECIFICATION Spec
CONSTANTS
    Holders = {h1}
    Imports = {i1}
    Credentials = {c1, c2}
    r1 = r1
    r2 = r2
    Requests = {r1, r2}
    Documents <- MCDemo
    TrustVcAnswers <- MCValid
    ApiAnswers <- MCApiValid
    Faults <- MCHandledFaults
    MaxFaults = 1
    None = None
INVARIANTS
    NoDuplicates
CHECK_DEADLOCK FALSE

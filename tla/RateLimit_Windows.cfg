SPECIFICATION Spec
CONSTANTS
    Routes = {"verify"}
    Peers = {p1}
    c1 = c1
    c2 = c2
    Clients = {c1, c2}
    Limit = 2
    Window = 3
    Second = 2
    MaxTime = 5
    MaxCount = 3
    MaxRestarts = 1
    None = None
SYMMETRY ClientSymmetry
INVARIANTS
    TypeOK
    BurstsBounded
    RefusedOnlyWhenSpent
    RetryAfterHonest
    ForwardingGainsNothing
CHECK_DEADLOCK FALSE

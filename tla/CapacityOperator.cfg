CONSTANTS
    e1 = e1  e2 = e2
    g1 = g1
    Groups = {g1}
    Processes = {p1}
    NoPolicy = NoPolicy
    None = None
    MaxTime = 2
    MaxSerial = 2
    Dispatches = {d1, d2}
    Endpoints = {e1}
    GroupOf <- OneEndpoint
    Servers = {}
    Policies <- SlowRecut
    Tombstones = 1
    Callers = {c1, c2}
    Lag = 1
SYMMETRY AnyCaller
SPECIFICATION Spec
PROPERTY DispatchWithinCap NoLateDispatch PromotedInTime

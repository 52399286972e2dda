CONSTANTS
    e1 = e1  e2 = e2
    g1 = g1
    Groups = {g1}
    Processes = {p1}
    NoPolicy = NoPolicy
    None = None
    MaxTime = 1
    MaxSerial = 3
    Dispatches = {d1, d2, d3}
    Endpoints = {e1, e2}
    GroupOf <- TwoEndpoints
    Servers = {s1}
    Policies <- WideOnly
    Tombstones = 3
    Callers = {c1}
    Lag = 0
SYMMETRY AnyDispatch
SPECIFICATION Spec
INVARIANT ValidState WorkConserving
PROPERTY NoOvertaking SlotKeptUntilEvidence

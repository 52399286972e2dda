CONSTANTS
    e1 = e1
    g1 = g1
    w1 = w1
    Endpoints = {e1}
    Groups = {g1}
    GroupOf <- OneEndpoint
    Processes = {p1}
    Servers = {}
    Policies <- OnlySingle
    PolicyOf <- AllSingle
    NoPolicy = NoPolicy
    None = None
    Tombstones = 2
    Requests <- OneUnit
    Receipts = {w1, w2}
    ReceiptOf <- OneClock
    Profiles = {h1}
    MaxCount = 2
    MaxWall = 2
    Dispatches = {d1}
    Operators = {o1, o2}
    Limits <- ForTwo
    Readings = {0, 1, 2}
    LastRequest = 1
    MaxTime = 2
SPECIFICATION Spec
CHECK_DEADLOCK FALSE
INVARIANT ReleasedIsNotCompleted

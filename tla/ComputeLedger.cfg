CONSTANTS
    Dispatches = {d1, d2}
    Requests <- SmallAsks
    Receipts = {w1, w2}
    Operators = {o1}
    Profiles = {h1, h2}
    None = None
    MaxCount = 4
    MaxWall = 5
    Ceilings <- SmallRun
    Grants <- SmallGrants
    Readings = {0, 1, 3}
SYMMETRY Symmetric
SPECIFICATION Spec
INVARIANT ValidLedger NoOvercommit DebtIsOverrun
PROPERTY NoRefund FinalStands

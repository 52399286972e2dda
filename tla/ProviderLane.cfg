CONSTANTS
    r1 = r1
    r2 = r2
    k1 = k1
    k2 = k2
    Requests = {r1, r2}
    Clients = {k1, k2}
    ClientOf <- TwoClients
    None = None
    MaxCount = 3
    LastEpoch = 3
SPECIFICATION FairSpec
CHECK_DEADLOCK FALSE
INVARIANT LoneProbe TokenIsHeld LadderAgrees
PROPERTY FreshEvidence ProbeSettles

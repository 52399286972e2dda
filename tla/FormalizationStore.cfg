SPECIFICATION StoreSpec
CONSTANTS
    Tasks = {t1, t2, t3}
    Workers = {w1, w2}
    None = None
    Lease = 1
    MaxClaims = 3
    MaxRevisions = 1
SYMMETRY Alike
INVARIANT ReadinessAgrees ResultIsCurrent FrozenIsCurrent
PROPERTY OneOutcome
CHECK_DEADLOCK FALSE

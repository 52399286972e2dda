SPECIFICATION InstallSpec
CONSTANTS
    g1 = g1  wide = wide  narrow = narrow
    Callers = {p1, p2}
    Budgets = {b1, b2}
    Parents = {b1, b2}
    ParentOf <- Apart
    Groups = {g1}
    Asked = {small}
    ProfileGrant = large
    Profiles <- Declared
    None = None
    MaxIds = 2
    MaxRevisions = 1
    MaxLosses = 1
SYMMETRY Alike
INVARIANT WorkStands MarkerStands

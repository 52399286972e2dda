CONSTANTS
    Owners = {o1, o2, o3}
    Outsiders = {x1}
    Nobody = Nobody
    MaxFiles = 3
SPECIFICATION LeaseSpec
CHECK_DEADLOCK FALSE
INVARIANT LeaseKept
PROPERTY JudgesOnlyTheDead

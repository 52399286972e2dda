CONSTANTS
    Calls = {c1, c2, c3}
    None = None
SPECIFICATION FairSpec
INVARIANT CountsAgree Isolated NoLostWakeup OneProbe
PROPERTY ExclusiveEnters

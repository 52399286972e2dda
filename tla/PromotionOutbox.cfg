CONSTANTS
    a1 = a1  a2 = a2  b1 = b1
    lemma = lemma  result = result
    t1 = t1
    Owners = {p1, p2, p3}
    Contents = {a1, a2, b1}
    Helpers = {lemma, result}
    HelperOf <- NameOf
    Needs <- LemmaFirst
    Theorems = {t1}
    TheoremOf <- OneTheorem
    None = None
    Revoked = Revoked
    Revisions = 2
    Serials = 2
    MaxCommands = 2
    MaxDoubts = 1
SYMMETRY AnyOwner
SPECIFICATION OutboxSpec
CHECK_DEADLOCK FALSE
INVARIANT DependenciesFirst PromiseKept
PROPERTY LiveClaimStands ResultStands SettledRightfully

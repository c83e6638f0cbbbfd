SPECIFICATION ForeignFirst
CONSTANTS
    k1 = k1
    k2 = k2
    a1 = a1
    a2 = a2
    e1 = e1
    Ids = {1, 2, 3, 4}
    Keys = {k1, k2}
    Amounts = {a1, a2}
    Expiries = {e1}
    Unset = Unset
    Specs <- TwoKeys
    Foreign <- Outdated
    Policies <- AllOrNothing
    None = None
    Shown = {None}
    Unshown = None
    Gone = Gone
    Unborn = Unborn
    Deleted = Deleted
    MaxFaults = 2
    MaxTransitions = 3
CHECK_DEADLOCK FALSE
INVARIANTS
    TypeOK
    NoDuplicates
    NameImpliesId
PROPERTIES
    ImplementsLifecycle
    PoliciesRespected
    DeletionCompletes
    Converges

SPECIFICATION FairSpec
CONSTANTS
    k1 = k1
    a1 = a1
    a2 = a2
    e1 = e1
    Ids = {1, 2, 3}
    Keys = {k1}
    Amounts = {a1, a2}
    Expiries = {e1}
    Unset = Unset
    Specs <- OneKey
    Foreign <- OneKey
    Policies <- AllOrNothing
    None = None
    Shown = {None}
    Unshown = None
    Gone = Gone
    Unborn = Unborn
    Deleted = Deleted
    MaxFaults = 2
    MaxTransitions = 2
CHECK_DEADLOCK FALSE
INVARIANTS
    TypeOK
    NoDuplicates
PROPERTIES
    ImplementsLifecycle
    PoliciesRespected
    DeletionCompletes
    RecordedConverges

SPECIFICATION FairSpec
CONSTANTS
    n1 = n1
    n2 = n2
    o1 = o1
    r1 = r1
    Ids = {1, 2}
    Names = {n1, n2}
    Organizations = {o1}
    Repositories = {r1}
    Specs <- OneName
    Policies <- AlwaysAll
    Shown <- AnyMembers
    Unshown = {}
    None = None
    Gone = Gone
    Unborn = Unborn
    Purged = Purged
    OthersDo = {"rename", "map", "delete"}
    MaxFaults = 1
    MaxTransitions = 2
CHECK_DEADLOCK FALSE
INVARIANTS
    TypeOK
    NoDuplicates
PROPERTIES
    ImplementsLifecycle
    RecordedDeletionCompletes
    Converges

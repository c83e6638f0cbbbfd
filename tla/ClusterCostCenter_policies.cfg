SPECIFICATION Spec
CONSTANTS
    n1 = n1
    n2 = n2
    o1 = o1
    r1 = r1
    Ids = {1, 2}
    Names = {n1}
    Organizations = {o1}
    Repositories = {r1}
    Specs <- OneName
    Policies <- AlwaysNone
    Shown <- AnyMembers
    Unshown = {}
    None = None
    Gone = Gone
    Unborn = Unborn
    Purged = Purged
    OthersDo = {}
    MaxFaults = 1
    MaxTransitions = 2
CHECK_DEADLOCK FALSE
PROPERTIES
    PoliciesRespected

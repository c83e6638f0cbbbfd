SPECIFICATION FairSpec
CONSTANTS
    c1 = c1
    c2 = c2
    c3 = c3
    p1 = p1
    p2 = p2
    n1 = n1
    n2 = n2
    Callers = {c1, c2, c3}
    ProviderConfigs = {p1, p2}
    Names = {n1, n2}
    ConfigOf <- MCConfigOf
    NameOf <- UniqueNames
    NoEntry = NoEntry
    Free = Free
    TTL = 1
    MaxHold = 1
    MaxBuild = 1
    Horizon = 3
INVARIANTS
    TypeOK
    SingleBuild
    FastPathIsCurrent
    HeldAgeBounded
    OwnConfig
PROPERTIES
    FreshEntryKept
    ImplementsService
    EveryCallReturns

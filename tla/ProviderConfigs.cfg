SPECIFICATION FairSpec
CONSTANTS
    Generated = {g1}
    Tracking = {t1}
    Untracked = {}
    MaxFaults = 2
CHECK_DEADLOCK FALSE
INVARIANTS
    TypeOK
    CountedKeepConfig
PROPERTIES
    ConfigReleased
    DeletedUsersGo

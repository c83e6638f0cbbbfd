SPECIFICATION Spec
CONSTANTS
    Generated = {g1}
    Tracking = {t1}
    Untracked = {d1}
    MaxFaults = 0
CHECK_DEADLOCK FALSE
INVARIANTS
    UsersKeepConfig

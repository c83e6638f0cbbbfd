SPECIFICATION FairSpec
CONSTANTS
    Generated <- MCGenerated
    Manual <- MCManual
    MaxFaults = 2
CHECK_DEADLOCK FALSE
INVARIANTS
    TypeOK
PROPERTIES
    MissingKindsAreHarmless
    ControllersRun

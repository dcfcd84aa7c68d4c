SPECIFICATION FairSpec
CONSTANTS
    Servers = {a, b}
    OldDatabases <- SomeReleases
    MaxStops = 1
INVARIANTS
    TypeOK
    UpgradeComplete
    OneServerStands
PROPERTIES
    ServersComeUp
CHECK_DEADLOCK FALSE

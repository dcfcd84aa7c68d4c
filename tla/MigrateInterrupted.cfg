SPECIFICATION Spec
CONSTANTS
    Servers = {a}
    OldDatabases <- AnyRelease
    MaxStops = 1
INVARIANTS
    MigratedSchemaComplete
CHECK_DEADLOCK FALSE

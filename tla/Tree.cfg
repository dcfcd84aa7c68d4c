SPECIFICATION MCSpec
CONSTANTS
    MaxLine = 3
    MaxTotal = 5
    Int32 = 7
    NoTotals = NoTotals
    NoReport = NoReport
    Readers = {r1}
    Docs <- OfferedAbsolute
    FullKept = 1
    SummaryKept = 1
    MaxUploads = 3
    MaxFailures = 1
    Code <- Builds
    Jvms = {j1, j2}
    Tasks = {t1, t2}
    MaxLoads = 2
    MaxHits = 1
    NoFile = NoFile
    Torn = Torn
    NoJvm = NoJvm
INVARIANTS
    TreeDescends
CHECK_DEADLOCK FALSE

SPECIFICATION Spec
CONSTANTS
    NoProject = NoProject
    NoFloor = NoFloor
    NoBranch = NoBranch
    NoRow = NoRow
    Global = Global
    Unissued = Unissued
    Revoked = Revoked
    NoKey = NoKey
    Open = Open
    NoCall = NoCall
    Blank = Blank
    p1 = p1
    p2 = p2
    s1 = s1
    s2 = s2
    main = main
    feature = feature
    Branches = {main, feature}
    ReleaseBranches = {main}
    Rates = {0, 1, 2}
    DefaultRetention <- OneFull
    Requests = {r1, r2}
    ProjectIds = {p1}
    Series = {s1}
    KeyIds = {k1}
    RequireBranch = FALSE
    IntMax = 7
    Calls <- AdminCalls
    RequireApiKey = FALSE
    AllowAutocreate = TRUE
    RatchetForms <- AdminForms
    RetentionForms <- AdminRetention
    Deletable = {p1}
    Faults = TRUE
    MayBreak = TRUE
    InitialProjects <- AdminProjects
    InitialSettings <- SomeRetention
SYMMETRY Sym
INVARIANTS
    TypeOK
    ReferencesResolve
    FloorProvenance
PROPERTIES
    RequestsOnlyRaise
CHECK_DEADLOCK FALSE

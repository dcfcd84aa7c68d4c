SPECIFICATION Spec
CONSTANTS
    NoProject = NoProject
    NoFloor = NoFloor
    NoBranch = NoBranch
    NoRow = NoRow
    Global = Global
    Unissued = Unissued
    Revoked = Revoked
    NoKey = NoKey
    Open = Open
    NoCall = NoCall
    Blank = Blank
    p1 = p1
    p2 = p2
    s1 = s1
    s2 = s2
    main = main
    feature = feature
    Branches = {main, feature}
    ReleaseBranches = {main}
    Rates = {0, 1, 2}
    DefaultRetention <- OneFull
    Requests = {r1, r2}
    ProjectIds = {p1}
    Series = {s1, s2}
    KeyIds = {}
    RequireBranch = FALSE
    IntMax = 7
    Calls <- RetentionCalls
    RequireApiKey = FALSE
    AllowAutocreate = TRUE
    RatchetForms <- NoForms
    RetentionForms <- NoForms
    Deletable = {}
    Faults = TRUE
    MayBreak = FALSE
    InitialProjects <- RetentionProjects
    InitialSettings <- WideRetention
INVARIANTS
    DocumentedRetention
CHECK_DEADLOCK FALSE

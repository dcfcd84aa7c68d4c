SPECIFICATION MCSpec
CONSTANTS
    push = push
    again = again
    build = build
    runner = runner
    other = other
    main = main
    feature = feature
    NoUpload = NoUpload
    Clients = {runner, other}
    Limits = {0, 1}
    Window = 2
    MaxTracked = 1
    Horizon = 2
    MaxRecent = 3
    Jobs = {push, again, build}
    Plan <- DeliveryPlan
    SeriesOf <- DeliverySeries
    Retentions = {1, 2}
    Branches = {main, feature}
    MaxStarts = 2
    PageSize = 1
    MaxComments = 3
    Crashes = TRUE
    GitHubFaults = TRUE
INVARIANTS
    TypeOK
    QuotaKept
    TrackedBounded
    DuplicateNeedsCause
    BaselineIsCurrent
    SuccessMeansStored
PROPERTIES
    CommentNeverGoesBack
    BuildEnds
CHECK_DEADLOCK FALSE

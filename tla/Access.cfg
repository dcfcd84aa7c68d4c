SPECIFICATION MCSpec
CONSTANTS
    Horizon = 4
    Users = {u1}
    Browsers = {b1}
    Requests = {r1, r2}
    Admins = {}
    Secrets = {k1}
    NoSecret = NoSecret
    MaxSessions = 1
    SessionTTL = 3
    PermTTL = 2
    Nobody = Nobody
    NoSession = NoSession
    Repos = {g1}
    Views = {w1, w2}
    History <- Moves
    Reported <- ReportedFile
    MainDirs <- SrcMain
    FloatTTL = 2
    TreeTTL = 1
    MaxTrees = 1
    NoText = NoText
    NoRepo = NoRepo
    Tabs = {t1, t2, t3}
    KeyConfigured = FALSE
    MaxTokens = 3
    MaxBoots = 2
    NoToken = NoToken
INVARIANTS
    AccessTypeOK
    SessionsLast
    SourceIsRecent
    MissHasCause
    FormsStayGood
PROPERTIES
    OnlyLiveSessions
    GrantsAreRecent
    RefusalsAreRecent
    ExpiredGoesAway
CHECK_DEADLOCK FALSE

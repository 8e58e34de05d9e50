SPECIFICATION FairSpec
CHECK_DEADLOCK FALSE
CONSTANTS
    Nil = Nil
    Absent = Absent
    Unparsable = Unparsable
    Arns = {"arn:role/", "arn:role/r"}
    BareNames = {"", "r"}
    NoRole = ""
    composeArn <- MCcomposeArn
    ComposeEnabled = TRUE
    Audiences = {"sts.amazonaws.com"}
    defaultAudience = "sts.amazonaws.com"
    defaultRegionalSTS = FALSE
    defaultTokenExpiration = 86400
    Names = {"ns", "a", "b", "*"}
    JitterDraws = {0, 7200}
    SAs <- OneSA
    Pods = {"p1", "p2"}
    saOf <- TwoPodsOf
    podExpiration <- TwoPodsExpiration
    Annotations <- RoleOnly
    FetchCapacity = 1
    MaxVersions = 2
    Configs = {}
    MaxCMVersions = 1
    gracePeriodEnabled = TRUE
    Identities <- NoIdentities
    MaxClears = 1
    MaxLoads = 0
INVARIANTS
    WaitersCanBeWoken
    NotifiedRequestsFindAccount
PROPERTIES
    KeepsNotificationPromise
    EveryRequestAnswered
    HandlersDrain
    AccountsConverge

SPECIFICATION Spec
CHECK_DEADLOCK FALSE
CONSTANTS
    Nil = Nil
    Absent = Absent
    Unparsable = Unparsable
    Arns = {"arn:role/", "arn:role/r"}
    BareNames = {"", "r"}
    NoRole = ""
    composeArn <- MCcomposeArn
    ComposeEnabled = TRUE
    Audiences = {"sts.amazonaws.com"}
    defaultAudience = "sts.amazonaws.com"
    defaultRegionalSTS = FALSE
    defaultTokenExpiration = 86400
    Names = {"ns", "a", "b", "*"}
    JitterDraws = {0, 7200}
    SAs <- OneSA
    Pods = {"p1"}
    saOf <- OnePodOf
    podExpiration <- OnePodExpiration
    Annotations <- RoleOrPlain
    FetchCapacity = 1
    MaxVersions = 2
    Configs <- OwnAndWildcard
    MaxCMVersions = 2
    gracePeriodEnabled = TRUE
    Identities <- NoIdentities
    MaxClears = 0
    MaxLoads = 0
INVARIANTS
    ConfiguredPodsAreMutated

SPECIFICATION Spec
CHECK_DEADLOCK FALSE
CONSTANTS
    Nil = Nil
    Absent = Absent
    Unparsable = Unparsable
    Arns = {"arn:role/", "arn:role/r"}
    BareNames = {"", "r"}
    NoRole = ""
    composeArn <- MCcomposeArn
    ComposeEnabled = TRUE
    Audiences = {"sts.amazonaws.com"}
    defaultAudience = "sts.amazonaws.com"
    defaultRegionalSTS = FALSE
    defaultTokenExpiration = 86400
    Names = {"ns", "a", "b", "*"}
    JitterDraws = {0, 7200}
    SAs <- TwoSAs
    Pods = {"p1", "p2", "p3"}
    saOf <- ThreePodsOf
    podExpiration <- ThreePodsExpiration
    Annotations <- RoleOrPlain
    FetchCapacity = 1
    MaxVersions = 1
    Configs = {}
    MaxCMVersions = 1
    gracePeriodEnabled = TRUE
    Identities <- SomeIdentities
    MaxClears = 0
    MaxLoads = 0
INVARIANTS
    ExpirationAtLeastMinOutsideCM
    LookupsNeverStuck
PROPERTIES
    RequestsOnlyAdvance

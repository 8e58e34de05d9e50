SPECIFICATION SACacheSpec
CHECK_DEADLOCK FALSE
CONSTANTS
    Nil = Nil
    Absent = Absent
    Unparsable = Unparsable
    Arns = {"arn:role/", "arn:role/r"}
    BareNames = {"", "r"}
    NoRole = ""
    composeArn <- MCcomposeArn
    ComposeEnabled = TRUE
    Audiences = {"sts.amazonaws.com"}
    defaultAudience = "sts.amazonaws.com"
    defaultRegionalSTS = FALSE
    defaultTokenExpiration = 86400
    SAs <- MCSAs
    Pods = {"p1", "p2", "p3"}
    saOf <- MCsaOf
    Annotations <- MCAnnotations
    FetchCapacity = 1
    MaxVersions = 2
INVARIANTS
    NoLostWakeup
    ChannelsTracked
    FetchesDeduplicated
PROPERTIES
    OnlyFetchesMakeStale

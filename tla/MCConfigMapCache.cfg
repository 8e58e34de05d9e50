SPECIFICATION CMCacheFairSpec
CHECK_DEADLOCK FALSE
CONSTANTS
    Nil = Nil
    Absent = Absent
    Unparsable = Unparsable
    Arns = {"arn:role/", "arn:role/r"}
    BareNames = {"", "r"}
    NoRole = ""
    composeArn <- MCcomposeArn
    ComposeEnabled = TRUE
    Audiences = {"sts.amazonaws.com"}
    defaultAudience = "sts.amazonaws.com"
    defaultRegionalSTS = FALSE
    defaultTokenExpiration = 86400
    Names = {"ns", "a", "x", "*"}
    Configs <- MCConfigs
    MaxCMVersions = 3
INVARIANTS
    CMCacheExact
PROPERTIES
    CMCacheConverges
    KeysMoveStraight

SPECIFICATION FileWatcherFairSpec
CHECK_DEADLOCK FALSE
CONSTANTS
    Accounts = {"a"}
    Missing = Missing
    EmptyFile = EmptyFile
    Broken = Broken
    Contents <- MCContents
    ChangeEvents = {"file", "other"}
    EventLimit = 2
    MaxChanges = 2
    MaxOthers = 2
    MaxIOErrors = 1
INVARIANTS
    FileWatcherTypeOK
    NoUpdateForgotten
    CacheCurrentAtRest
PROPERTIES
    CacheFollowsFile
    LoadsMoveForward

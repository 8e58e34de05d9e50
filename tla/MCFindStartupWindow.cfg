SPECIFICATION FileWatcherFairSpec
CHECK_DEADLOCK FALSE
CONSTANTS
    Accounts = {"a"}
    Missing = Missing
    EmptyFile = EmptyFile
    Broken = Broken
    Contents = {{}, {"a"}}
    ChangeEvents = {"file"}
    EventLimit = 2
    MaxChanges = 1
    MaxOthers = 0
    MaxIOErrors = 0
PROPERTIES
    UpdatesAreLoaded

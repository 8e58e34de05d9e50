SPECIFICATION PatchSpec
CHECK_DEADLOCK FALSE
CONSTANTS
    Nil = Nil
    Unparsable = Unparsable
    Region = TRUE
    Submitted <- MCSubmitted
    Injected <- Side
    PatchConfigs <- MCConfigs
    MaxInvocations = 3
    MaxContainers = 2
INVARIANTS
    OwnSettingsKept
    NoDuplicates
    Idempotent
    ContainersGetCredentials
    MountsHaveVolumes

SPECIFICATION RefreshSpec
CONSTANTS
    Procs = {"a", "b"}
    Process <- SharedProcess
    Refreshes <- EachTheir
    Kinds <- NoKinds
    Regions = {"eu"}
    Profiles = {"default", "work"}
    MaxSet = 3
    MaxOps = 1
    StoredSets = {}
    Envs = {}
    InProject = {}
    InitialConfs <- FileConf
    InitialHosts <- FirstHosts
    InitialKeyring <- EmptyKeyring
    KeyringFaults = FALSE
    WriteFaults = FALSE
    Crashes = FALSE
    Rotations = {TRUE}
    AnswersLost = FALSE
    Cancels = FALSE
CHECK_DEADLOCK FALSE
PROPERTIES
    Superseded

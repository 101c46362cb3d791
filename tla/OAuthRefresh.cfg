SPECIFICATION RefreshSpec
CONSTANTS
    Procs = {"a", "b", "c"}
    Process <- TwoProcesses
    Refreshes <- SameKey
    Kinds <- LastLoads
    Regions = {"eu"}
    Profiles = {"default"}
    MaxSet = 3
    MaxOps = 1
    StoredSets = {}
    Envs = {}
    InProject = {}
    InitialConfs <- BothConfs
    InitialHosts <- FirstHosts
    InitialKeyring <- EmptyKeyring
    KeyringFaults = TRUE
    WriteFaults = TRUE
    Crashes = TRUE
    Rotations = {TRUE, FALSE}
    AnswersLost = TRUE
    Cancels = TRUE
CONSTRAINT
    Instance
CHECK_DEADLOCK FALSE
INVARIANTS
    RefreshTypeOK
    OneExchange
    FollowersLed
    SessionWhole
PROPERTIES
    SessionKept
    RefreshStored
    FollowersReturn

SPECIFICATION Spec
CONSTANTS
    Procs = {"p"}
    Regions = {"eu", "us"}
    Profiles = {"default", "work"}
    MaxSet = 2
    MaxOps = 3
    StoredSets <- ThreeSets
    Envs <- SomeEnvs
    Kinds <- AllKinds
    InProject = {"p"}
    InitialConfs <- LoadConfs
    InitialHosts <- AnyHosts
    InitialKeyring <- NoKeyring
    KeyringFaults = TRUE
    WriteFaults = TRUE
    Crashes = TRUE
CHECK_DEADLOCK FALSE
INVARIANT
    TypeOK
PROPERTIES
    StoreRoundTrip
    DeleteForgets
    RegionIsolation
    SessionIsolation
    LoadIsSnapshot

SPECIFICATION FairSpec
CONSTANTS
    Docs = {"d1", "d2"}
    None = "none"
    RepoNames = {"api"}
    Targets <- MCTargets
    Handlers = {h1, h2}
    MaxGen = 2
    MaxConcurrent = 1
    Scenarios <- Pairwise
INVARIANTS
    ServedIsStored
PROPERTIES
    StoreSpec
    AcceptedRoutes
    RemovedFallSilent
CHECK_DEADLOCK FALSE

CONSTANTS
    Cands = {"a", "b", "n"}
    Runs = {"a1", "a2", "b1", "n1"}
    CandOf <- Owner
    Kind <- GateFirst
    Required <- UnitRequired
    Plan <- Replans
    Relation <- Clustered
    Tier <- AllTiersOne
    WIPCap <- CapTwo
    Est <- OneEach
    Limit <- Roomy
    Minutes = {0}
    Results <- AllResults
    FeedLimit = 1
    MaxRetry = 2
    MaxFeedAttempts = 5
    MaxRerun = 1
    MaxEpoch = 2
    MaxHour = 1
    Env <- EnvEvents
    Casts <- FinishingCast
SPECIFICATION FairCastSpec
CHECK_DEADLOCK FALSE
PROPERTIES
    FeedDrains

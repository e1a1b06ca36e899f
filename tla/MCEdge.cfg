SPECIFICATION EdgeSpec
CONSTANTS
    Guids = {"open1", "open2", "sync", "close", "label", "push", "uninstall"}
    Content <- MCContent
    Unredactable = {"label"}
    Handlers = {"r1", "r2"}
    MaxInflight = 2
    SeenMax = 2
    MarkerBuffer = 1
    MaxAttempts = 2
    AttemptsPerScan = 2
    MaxFaults = 1
    Casts <- MCCasts
CHECK_DEADLOCK FALSE
INVARIANTS
    ExactlyOnce
    ReplayContained
    ForwardedIsProcessed
    OneLivePerHead
PROPERTIES
    StoredSettles

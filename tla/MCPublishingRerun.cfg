SPECIFICATION Spec
CONSTANTS
    Events = {"d1", "q1"}
    Type <- MCType
    Drainers = {"r1", "r2"}
    Batch = 2
    MaxAttempts = 2
    CheckpointInterval = 2
    MaxTx = 2
    Faults = {"crash", "db_error"}
    Revs = {"v1"}
    Envelopes <- MCEnvelopes
    Verb <- MCVerb
    RevOf <- MCRevOf
    Posters = {"r1", "r2"}
    Cap = 2
    Attempts = 3
    DueLimit = 25
    MaxPerCandidate = 1
    RatePerHour = 5
    Policy = "replan"
    MaxFaults = 1
    Casts <- RerunningCast
CHECK_DEADLOCK FALSE
INVARIANTS
    RerunCapKept

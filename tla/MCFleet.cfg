CONSTANTS
    Runs = {r1}
    Slots = {s1, s2}
    Remotes = {w1}
    Outcomes = {"failed"}
    MaxAttempt = 2
    MaxFence = 3
    MaxClaim = 1
SPECIFICATION FairSpec
INVARIANTS
    ExclusiveEpoch
    OnlyHolderAccepts
    ClaimsBehindFence
    AcceptedIffResult
PROPERTIES
    ImplementsFencedJob
    AbandonedIsReaped
    QueuedIsClaimed

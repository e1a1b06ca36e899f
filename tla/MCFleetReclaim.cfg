CONSTANTS
    Runs = {r1}
    Slots = {s1}
    Remotes = {}
    Outcomes = {"failed"}
    MaxAttempt = 1
    MaxFence = 3
    MaxClaim = 1
SPECIFICATION Spec
INVARIANT ReclaimedCompletable

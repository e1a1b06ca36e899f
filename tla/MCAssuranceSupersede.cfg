SPECIFICATION Spec
CONSTANTS
    Cands = {1, 2, 3}
    Casts <- OvertakenCast
    Work <- MCWork
    Registry <- MCRegistry
    Grams <- MCGrams
    PathRank <- MCPathRank
    MaxRetry = 2
CHECK_DEADLOCK FALSE
INVARIANTS
    SupersededByRepresentative

SPECIFICATION Spec
CONSTANTS
    Cands = {1, 2, 3}
    Casts <- MCCasts
    Work <- MCWork
    Registry <- MCRegistry
    Grams <- MCGrams
    PathRank <- MCPathRank
    MaxRetry = 2
CHECK_DEADLOCK FALSE
INVARIANTS
    EligibleBacked
    CleanPlanDecides
    LeakRejects
PROPERTIES
    GovernedByMerit

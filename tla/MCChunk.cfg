SPECIFICATION FairSpec
CONSTANTS
    N = 3
    Size = 2
    MaxAttempts = 2
    RetryLimit = 1
    SkipLimit = 1
    StateLimit = 2
    Rules <- Tolerant
    Filters <- NoneFiltered
    Enlisted = TRUE
    FinishChunk = TRUE
    Advances = TRUE
    EarlyClose = FALSE
    Zombies = FALSE
INVARIANT ChunkTypeOK
INVARIANT ExactlyOnce
INVARIANT CountsAccount
INVARIANT SkipBudget
INVARIANT RetryBudget
INVARIANT AmbiguityKept
INVARIANT CompletedMeansAll
PROPERTY AttemptEnds
CHECK_DEADLOCK FALSE

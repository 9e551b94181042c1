SPECIFICATION UnstoppedSpec
CONSTANTS
    N = 2
    Size = 2
    MaxAttempts = 2
    RetryLimit = 1
    SkipLimit = 1
    StateLimit = 2
    Rules <- Tolerant
    Filters <- NoneFiltered
    Enlisted = TRUE
    FinishChunk = TRUE
    Advances = TRUE
    EarlyClose = FALSE
    Zombies = TRUE
INVARIANT ExactlyOnce
INVARIANT RetryBudget
CHECK_DEADLOCK FALSE

SPECIFICATION Spec
CONSTANTS
    N = 2
    Size = 2
    MaxAttempts = 1
    RetryLimit = 1
    SkipLimit = 1
    StateLimit = 2
    Rules <- Tolerant
    Filters <- NoneFiltered
    Enlisted = TRUE
    FinishChunk = TRUE
    Advances = TRUE
    EarlyClose = FALSE
    Zombies = FALSE
INVARIANT StoppedAtBoundary
CHECK_DEADLOCK FALSE

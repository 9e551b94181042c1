SPECIFICATION Spec
CONSTANTS
    N = 2
    Size = 2
    MaxAttempts = 2
    RetryLimit = 1
    SkipLimit = 1
    StateLimit = 2
    Rules <- Patient
    Filters <- SecondFiltered
    Enlisted = FALSE
    FinishChunk = FALSE
    Advances = FALSE
    EarlyClose = TRUE
    Zombies = FALSE
INVARIANT NothingLost
INVARIANT CountsAccount
CHECK_DEADLOCK FALSE

SPECIFICATION Spec
CONSTANTS
    JobIds = {j1, j2}
    Users = {u1, u2}
    Goroutines = {g1, g2}
    Handlers = {h1, h2}
    None = None
    MaxConcurrent = 2
    MaxRetries = 0
    RetryInputs <- NoRetry
    CallbackRetries = 0
    CallbackConfigured = FALSE
    StorageFaults = FALSE
    LockWritable = TRUE
    ReuseIds = FALSE
    MaxPosts = 3
    MaxCrashes = 1
    MaxResets = 1
SYMMETRY Symmetry
INVARIANTS TypeOK UserExclusive LockfileTellsTheTruth InProgressIsHeld SuccessHasImage
PROPERTIES ClaimedInOrder QueuedCancelSticks

SPECIFICATION FairUpdateSpec
CONSTANTS
    JobIds = {j1, j2}
    Users = {u1, u2}
    Goroutines = {g1}
    Handlers = {h1}
    None = None
    MaxConcurrent = 1
    MaxRetries = 0
    RetryInputs <- NoRetry
    CallbackRetries = 0
    CallbackConfigured = FALSE
    StorageFaults = FALSE
    LockWritable = TRUE
    ReuseIds = FALSE
    MaxPosts = 2
    MaxCrashes = 1
    MaxResets = 0
    Scripts <- BothScripts
INVARIANTS UpdateInv RightBinaryRuns
PROPERTIES LockedWaitEndsIdle UpdateCompletes
\* A script that fails can leave the service stopped for good.
CHECK_DEADLOCK FALSE

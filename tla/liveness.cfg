SPECIFICATION FairSpec
CONSTANTS
    JobIds = {j1, j2}
    Users = {u1, u2}
    Goroutines = {g1}
    Handlers = {h1}
    None = None
    MaxConcurrent = 1
    MaxRetries = 0
    RetryInputs <- OneRetry
    CallbackRetries = 0
    CallbackConfigured = TRUE
    StorageFaults = FALSE
    LockWritable = TRUE
    ReuseIds = FALSE
    MaxPosts = 2
    MaxCrashes = 1
    MaxResets = 0
PROPERTIES PendingSettles LockfileGoes

SPECIFICATION UpdateSpec
CONSTANTS
    JobIds = {j1, j2}
    Users = {u1, u2}
    Goroutines = {g1, g2}
    Handlers = {h1}
    None = None
    MaxConcurrent = 2
    MaxRetries = 0
    RetryInputs <- NoRetry
    CallbackRetries = 0
    CallbackConfigured = FALSE
    StorageFaults = FALSE
    LockWritable = FALSE
    ReuseIds = FALSE
    MaxPosts = 2
    MaxCrashes = 0
    MaxResets = 0
    Scripts <- OnlyInstall
PROPERTY LooksWhenIdle
\* A script that fails can leave the service stopped for good.
CHECK_DEADLOCK FALSE

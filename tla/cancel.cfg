SPECIFICATION Spec
CONSTANTS
    JobIds = {j1, j2}
    Users = {u1, u2}
    Goroutines = {g1, g2}
    Handlers = {h1}
    None = None
    MaxConcurrent = 2
    MaxRetries = 0
    RetryInputs <- NoRetry
    CallbackRetries = 0
    CallbackConfigured = TRUE
    StorageFaults = FALSE
    LockWritable = TRUE
    ReuseIds = FALSE
    MaxPosts = 2
    MaxCrashes = 1
    MaxResets = 0
SYMMETRY Symmetry
PROPERTY CanceledIsFinal

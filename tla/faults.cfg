SPECIFICATION Spec
CONSTANTS
    JobIds = {j1, j2}
    Users = {u1, u2}
    Goroutines = {g1, g2}
    Handlers = {h1}
    None = None
    MaxConcurrent = 1
    MaxRetries = 0
    RetryInputs <- OneRetry
    CallbackRetries = 1
    CallbackConfigured = TRUE
    StorageFaults = TRUE
    LockWritable = TRUE
    ReuseIds = FALSE
    MaxPosts = 2
    MaxCrashes = 1
    MaxResets = 0
SYMMETRY Symmetry
INVARIANTS TruthInv ConcurrencyLimit BackendAgrees
PROPERTIES NoRebuildAfterSuccess ImplementsSlots

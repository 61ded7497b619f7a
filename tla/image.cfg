SPECIFICATION Spec
CONSTANTS
    Projects <- MCProjects
    Submissions <- MCSubmissions
    MaxCrashes = 1
INVARIANTS
    ImageInv
    KnownFailures
    KnownStops
    CommandsKept
    SubmitAsFound
    ReplanRepeats

SPECIFICATION Spec
CHECK_DEADLOCK FALSE
CONSTANTS
    Dirs <- MCDirs
    Root = "."
    Above <- MCAbove
    Keys <- MCKeys
    PublicKeys <- MCPublic
    RuntimePreferred <- MCRuntime
    NonSecretKeys <- MCNoSecret
    BadKeys <- MCBad
    Repos <- MCRepos
    Inputs <- MCInputs
    MaxCrashes = 0
INVARIANT ParamsReachTheBuild

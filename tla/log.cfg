SPECIFICATION Spec
CONSTANTS
    Pipes <- BothPipes
    Steps = 1
    Sudo = {1}
    Outputs <- ShortOutputs
    PipeCapacity = 2
INVARIANT LogIsComplete
CHECK_DEADLOCK FALSE

SPECIFICATION FairSpec
CONSTANTS
    Pipes <- BothPipes
    Steps = 2
    Sudo = {2}
    Outputs <- SmallOutputs
    PipeCapacity = 2
INVARIANTS RunnerTypeOK LogHasNoHoles KilledIsTimeout
PROPERTIES BuildEnds
CHECK_DEADLOCK FALSE

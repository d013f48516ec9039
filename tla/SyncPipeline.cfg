CONSTANTS
    laptop = laptop
    desktop = desktop
    Nodes = {laptop, desktop}
    Keys = {k1}
    Hashes <- MCHashes
    MaxStamp = 2
    MaxRuns = 1
    MaxCount = 1
    MaxPush = 2
    MaxTime = 1
    MaxEntries = 1
    Ttl = 0
SPECIFICATION PipelineSpec
SYMMETRY MCSymmetry
INVARIANT DrainedAreYoungest
PROPERTY PipelineImplementsLww
CHECK_DEADLOCK FALSE

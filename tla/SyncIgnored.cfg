CONSTANTS
    laptop = laptop
    desktop = desktop
    server = server
    Nodes = {laptop, desktop}
    Keys = {k1}
    NoKey = NoKey
    MaxStamp = 2
    MaxSent = 2
SPECIFICATION SyncSpec
SYMMETRY MCNodeSymmetry
PROPERTY IgnoredIsOlder
CHECK_DEADLOCK FALSE

CONSTANTS
    laptop = laptop
    desktop = desktop
    server = server
    Nodes = {laptop, desktop, server}
    Keys = {k1}
    NoKey = NoKey
    MaxStamp = 2
    MaxSent = 2
SPECIFICATION SyncSpec
SYMMETRY MCNodeSymmetry
INVARIANTS ClockIsIssued ClockCertifiesState LaterCopyNewerToken
PROPERTIES DeletionHolds ImplementsLww
CHECK_DEADLOCK FALSE

CONSTANTS
    Keys = {1, 2, 3}
    NoKey = NoKey
    ApiKeys = {3}
    Priority <- MCPriority
    Full = 2
    Threshold5 = 2
    Threshold7 = 2
    Grace = 1
    Interval = 2
    MaxChanges = 2
SPECIFICATION FairSwitchSpec
PROPERTIES GraceHolds NoFlapping UsedUpIsLeft RotationReachesAll

CONSTANTS
    Keys = {k1}
    NoKey = NoKey
    Commands = {c1}
    Loop = Loop
    Split = TRUE
    MaxCommands = 2
    MaxEvents = 2
SPECIFICATION FairTokenSpec
PROPERTIES MarkHeals ExpiredIsRefreshed
CHECK_DEADLOCK FALSE

CONSTANTS
    Keys = {k1, k2}
    NoKey = NoKey
    Commands = {c1, c2}
    Loop = Loop
    Split = TRUE
    MaxCommands = 2
    MaxEvents = 1
SPECIFICATION TimedSpec
SYMMETRY MCSymmetry
INVARIANTS TokenKept CooldownOnlyDead
CHECK_DEADLOCK FALSE

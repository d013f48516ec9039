CONSTANTS
    Writers = {w1, w2}
    Peers = {p1}
    Hosts = {h1}
    Instances = {i1}
    SyncKeys = {k1}
    Options = {o1, o2}
    NoKey = NoKey
    Missing = Missing
    Garbled = Garbled
    MaxEdits = 2
    MaxTroubles = 0
SPECIFICATION SettingsSpec
INVARIANT ThreadSafe
CHECK_DEADLOCK FALSE

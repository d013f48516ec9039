CONSTANTS
    tauri = tauri
    daemon = daemon
    refreshLoop = refreshLoop
    watcher = watcher
    Procs = {tauri, daemon}
    Threads = {refreshLoop, watcher}
    ProcOf <- MCProcOf
    Supervised = {daemon}
    Keys = {k1}
    MaxRetries = 1
    MaxStamp = 2
    MaxFaults = 1
    NoLock = NoLock
    Absent = Absent
    Blank = Blank
    Torn = Torn
    Writers = {w1, w2}
    Peers = {p1}
    Hosts = {h1}
    Instances = {i1}
    SyncKeys = {k1}
    Options = {o1, o2}
    NoKey = NoKey
    Missing = Missing
    Garbled = Garbled
    MaxEdits = 2
    MaxTroubles = 1
    Ids = {i1}
    Ports = {8081, 8082}
    Commands = {c1, c2}
    Programs = {"application", "daemon"}
    NoConfig = NoConfig
    Idle = Idle
    MaxCommands = 3
    MaxRuntimes = 2
    MaxRuns = 2
    MaxFlips = 1
SPECIFICATION MCSpec
SYMMETRY MCSymmetry
INVARIANTS SoleWriterDurable AloneIsDurable CrashKeepsOldOrNew Accounted
PROPERTY GoesBackByReloadOrAdd
CHECK_DEADLOCK FALSE

CONSTANTS
    tauri = tauri
    daemon = daemon
    quotaLoop = quotaLoop
    refreshLoop = refreshLoop
    watcher = watcher
    Procs = {tauri, daemon}
    Threads = {quotaLoop, watcher}
    ProcOf <- MCProcOf
    Supervised = {daemon}
    Keys = {k1}
    MaxRetries = 1
    MaxStamp = 1
    MaxFaults = 1
    NoLock = NoLock
    Absent = Absent
    Blank = Blank
    Torn = Torn
SPECIFICATION FairSpec
INVARIANTS LockExclusion FileWhole
PROPERTY StaleLockHeals

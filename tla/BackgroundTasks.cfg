CONSTANTS
    Daemons = {d1, d2}
    NoPid = NoPid
    d1 = d1
    d2 = d2
    Configs <- MCConfigs
    MaxKills = 1
    Nodes = {n1, n2}
    Debounce = 3
    Latency = 1
    MaxSaves = 2
    MaxMishaps = 1
    Accounts = {a1}
    Usages = {0, 60}
    Limits = {60, 100}
    Gaps = {1, 31}
    Targets <- MCTargets
    Asked <- MCAsked
    Scale = 10
    NoCalc = NoCalc
    MaxChanges = 2
    MaxFailures = 1
SPECIFICATION MCSpec
INVARIANTS PidFileTells MissedOnlyInWindow AlarmsAreTold
PROPERTIES StopsWhenAsked EchoDies 
CHECK_DEADLOCK FALSE

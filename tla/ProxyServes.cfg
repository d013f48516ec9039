CONSTANTS
    Ips = {ip1}
    Requests = {r1, r2}
    Accounts = {a1, a2}
    NoAccount = NoAccount
    Upstreams = {u1, u2}
    IpOf <- MCIpOf
    Burst = 2
    Rate = 1
    PurgeInterval = 1
    StaleAfter = 2
    PurgeSize = 1
    MaxPolls = 1
    FlushAt = 2
    Bucket = 1
    Timeout = 1
    MaxTime = 2
    MaxChanges = 1
    n1 = n1
    u1 = u1
    n2 = n2
    o1 = o1
    Clients = {n1, n2, o1}
    Native = {n1, n2}
    Flagged = {n1, o1}
    Headers = {"user-agent", "content-type", "anthropic-beta", "x-own", "authorization"}
    AuthHeaders = {"authorization"}
    Outbound = {"user-agent", "content-type", "anthropic-beta", "authorization"}
    Enabled = TRUE
    AutoCapture = TRUE
    MaxSamples = 2
    Overrides <- MCOverrides
    Asks <- MCAsks
    Messages <- MCMessages
    MaxRequests = 3
SYMMETRY MCSymmetry
SPECIFICATION MCSpec
INVARIANTS NeverOverAdmits NoNeedless401 CountedOnce SessionsHoldUsage AskedIsSent NoOwnHeaders AnswerIsTheMessage CleanIsOnDisk
CHECK_DEADLOCK FALSE

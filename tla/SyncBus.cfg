CONSTANTS
    p1 = p1
    m1 = m1
    m2 = m2
    m3 = m3
    Peers = {p1}
    Ourselves = Ourselves
    Stranger = Stranger
    Addrs = {a1}
    Ports = {4001}
    Ids = {m1, m2, m3}
    Mail <- MCMail
    DedupSize = 1
    Programs = {"application", "daemon"}
    NoEntry = NoEntry
    MaxBuses = 2
    MaxEdits = 1
    MaxFlips = 1
SPECIFICATION FairBusSpec
INVARIANTS PeerHasLoop TakenOnceInWindow
PROPERTY EventuallyConnected
CHECK_DEADLOCK FALSE

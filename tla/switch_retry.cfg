SPECIFICATION RetrySpec
CONSTANTS
    Procs = {p1, p2}
    Inodes = {i1}
    t1 = t1
    t2 = t2
    m1 = m1
    m2 = m2
    Targets = {t1, t2}
    MACs = {m1, m2}
    NoInode = NoInode
    Broken = Broken
    InvalidConfig = InvalidConfig
    NoMAC = NoMAC
    NoEntry = NoEntry
    Callers = {pc1}
    NoCall = NoCall
    NoProc = NoProc
    Lossy = TRUE
    Patient = TRUE
    Faults = {"command", "lost", "peer", "edit"}
    Configs <- Exclusive
PROPERTY EveryTargetServed

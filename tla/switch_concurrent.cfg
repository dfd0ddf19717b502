SPECIFICATION Spec
CONSTANTS
    Procs = {p1, p2, p3}
    Inodes = {i1, i2, i3}
    t1 = t1
    t2 = t2
    m1 = m1
    m2 = m2
    Targets = {t1, t2}
    MACs = {m1, m2}
    NoInode = NoInode
    Broken = Broken
    InvalidConfig = InvalidConfig
    NoMAC = NoMAC
    NoEntry = NoEntry
    Faults = {"command"}
    Configs <- BothOnly
INVARIANT TornOnlyWhileSaving
SYMMETRY Symmetry

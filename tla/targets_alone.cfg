SPECIFICATION Spec
CONSTANTS
    Writers = {w1}
    Names <- ManyNames
    BlankNames <- TheBlanks
    Tries = {1, 2, 3}
    Keys <- AllKeys
    GoodKeys <- TheGoodKeys
    KeyOf <- TheKeyOf
    MACs = {m1, m2, m3}
    Absent = Absent
    Unreadable = Unreadable
    Faults = {"io", "crash"}
INVARIANTS TypeOK NoLitter LearnedCanBeNamed NamedHostIsSaved
PROPERTIES TargetsAreKept KeepsTargetMap

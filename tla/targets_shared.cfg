SPECIFICATION Spec
CONSTANTS
    Writers = {w1, w2}
    Names <- TwoNames
    BlankNames <- TheBlanks
    Tries = {1, 2}
    Keys <- AllKeys
    GoodKeys <- TheGoodKeys
    KeyOf <- TheKeyOf
    MACs = {m1, m2}
    Absent = Absent
    Unreadable = Unreadable
    Faults = {"io", "crash", "edit", "inplace"}
INVARIANTS OneKeyPerHost UnreadableOnlyWhileEdited

SPECIFICATION Spec
CONSTANTS
    a = a
    b = b
    Keys = {a, b}
    NoKey = NoKey
    Reports <- TwoKeys
    Values = {0, 1}
    Hosts = {h1}
    NoHost = NoHost
    MaxPending = 1
    Faults = {"undo", "emit", "stop", "kill"}
INVARIANTS TypeOK TextInOrder NoPolledKey
PROPERTY KeyLeftOnlyByCut

SPECIFICATION FairSpec
CONSTANTS
    a = a
    b = b
    Keys = {a, b}
    NoKey = NoKey
    Reports <- NoText
    Values = {}
    Hosts = {h1, h2}
    NoHost = NoHost
    MaxPending = 1
    Faults = {}
PROPERTY EverySubscriberLearned

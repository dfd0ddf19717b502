SPECIFICATION FairSpec
CONSTANTS
    a = a
    b = b
    Keys = {a, b}
    NoKey = NoKey
    Reports <- OneKey
    Values = {}
    Hosts = {h1}
    NoHost = NoHost
    MaxPending = 1
    Faults = {"dbus", "emit", "config", "stop"}
PROPERTIES StuckKeyEndsDaemon StopsWhenTold ErrorRestarts EverySubscriberLearned

CONSTANTS
    d1 = d1
    d2 = d2
    k1 = k1
    k2 = k2
    NoEntry = NoEntry
    Devices <- MCDevices
    Keys <- MCKeysOne
    TreeSet <- MCTreeSet
    TTLs <- MCTTLs
    MaxTime <- MCMaxTime
SPECIFICATION Spec
PROPERTY
    AbsSpec

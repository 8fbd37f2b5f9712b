CONSTANTS
    d1 = d1
    d2 = d2
    k1 = k1
    k2 = k2
    NoEntry = NoEntry
    Devices <- MCDevices
    Keys <- MCKeys
    TreeSet <- MCTreeSet
    TTLs <- MCTTLs
    MaxTime <- MCMaxTime
SPECIFICATION Spec
INVARIANTS
    TypeOK
    CountExact
SYMMETRY MCSymmetry

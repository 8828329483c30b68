CONSTANTS
    ka = ka
    kb = kb
    i1 = i1
    i2 = i2
    None = None
    Keys <- MCKeys
    Items <- MCItems
SPECIFICATION LedgerSpec
SYMMETRY MCSymmetry
INVARIANTS
    CacheCoherent
PROPERTY ImplementsLedger

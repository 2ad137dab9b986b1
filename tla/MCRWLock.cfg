CONSTANT
    Task = {t1, t2, t3, t4}

SPECIFICATION FairSpec

INVARIANTS
    HoldersCounted
    NobodyWaitsForFreeLock

PROPERTIES
    PreferredServed

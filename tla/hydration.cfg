SPECIFICATION FairSpec
CONSTANTS
    Callers = {c1, c2}
    Keys = {k1, k2, k3}
    Slots = {s1, s2, s3, s4}
    None = None
    Capacity = 2
    MaxPanics = 1
INVARIANTS
    NoSecondLeader
    NoStaleSlot
PROPERTY
    EveryCallReturns

SPECIFICATION Spec
CONSTANTS
    k1 = k1
    k2 = k2
    k3 = k3
    k4 = k4
    v1 = v1
    v2 = v2
    Nothing = Nothing
    Forever = Forever
    Keys = {k1, k2, k3, k4}
    Values = {v1, v2}
    Lifetimes = {1}
    MaxTime = 3
    Capacity = 2
    SweepLimit = 1
SYMMETRY KeySymmetry
INVARIANTS
    TypeOK
    RecentlyUsedIsKept
PROPERTY ImplementsLossyCache

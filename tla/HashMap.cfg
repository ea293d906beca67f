\* Four keys, three entries; see MCHashMap for the collisions.
SPECIFICATION Spec
CONSTANTS
    k1 = k1
    k2 = k2
    k3 = k3
    k4 = k4
    Keys <- MCKeys
    Hash <- MCHash
    u = u
    v = v
    Values <- MCValues
    NoKey = nokey
    NoValue = novalue
    Capacity = 3
SYMMETRY MCSymmetry
INVARIANTS
    FillIsStored
    StoredIsFound
    IterationIsComplete
PROPERTY ImplementsMap

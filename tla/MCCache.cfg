SPECIFICATION CacheSpec
CONSTANTS
    Keys = {k1, k2, k3, k4}
    Capacity = 2
    Ttl = 1
    LruModes = {TRUE, FALSE}
    MaxOrder = 5
    MaxClears = 1
    Absent = Absent
SYMMETRY Symmetry
INVARIANTS
    EntriesListed
    CapacityWithoutLru

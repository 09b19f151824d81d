SPECIFICATION CacheSpec
CONSTANTS
    Keys = {k1, k2, k3}
    Capacity = 2
    Ttl = 1
    LruModes = {TRUE}
    MaxOrder = 4
    MaxClears = 0
    Absent = Absent
SYMMETRY Symmetry
INVARIANT
    CapacityRespected
CHECK_DEADLOCK FALSE

SPECIFICATION Spec
CONSTANTS
    Clients = {c1,c2,c3}
    Ids = {i1,i2,i3,i4,i5}
    MinSize = 2
    MaxSize = 2
    MaxLost = 2
    None = None
SYMMETRY Symmetry
INVARIANTS
    PermitsAccounted
    TotalExact
    OpenBounded

SPECIFICATION FairSpec
CONSTANTS
    Producers = {p1, p2, p3}
    Consumers = {c1, c2}
    MaxSize = 2
    DropOnFull = FALSE
    MaxMessages = 4
    MaxDrops = 1
    None = None
INVARIANTS
    SlotsAccounted
    StatsExact
    SendNeverWaits
PROPERTIES
    DropOnlyWhenFull
    Delivered

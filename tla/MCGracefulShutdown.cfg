SPECIFICATION FairSpec
CONSTANTS
    Requests = {r1, r2, r3}
    Waiters = {w1, w2}
    NumSignals = 2
INVARIANTS
    ActiveExact
    SignalsFirst
PROPERTIES
    DrainedForever
    Drains
    WaitReturns
CHECK_DEADLOCK FALSE

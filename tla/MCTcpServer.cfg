SPECIFICATION FairSpec
CONSTANTS
    Conns = {c1, c2}
    Limits = {0, 1}
    MaxEvents = 3
    None = None
INVARIANTS
    LimitNeverBinds
    CountExact
    StopLeavesNoTask
    LiveSessionsReachable
    ClosedIsDead
PROPERTIES
    StopTerminates
    StopEndsTasks
    IdleSessionSwept
CHECK_DEADLOCK FALSE

SPECIFICATION Spec
CONSTANTS
    Conns = {c1, c2}
    Limits = {1}
    MaxEvents = 3
    None = None
INVARIANT
    LimitEnforced
CHECK_DEADLOCK FALSE

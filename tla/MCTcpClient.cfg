SPECIFICATION ClientFairSpec
CONSTANTS
    Tasks = {a, b}
    AttemptLimits = {0, 2}
    Nobody = Nobody
INVARIANT
    RetryIsClean
PROPERTIES
    CallsEnd
    Recovers

SPECIFICATION FairSpec
CONSTANTS
    Calls = {c1, c2, c3}
    FailureThreshold = 3
    SuccessThreshold = 2
    Timeout = 2
    WindowSize = 2
    None = None
INVARIANT
    ThresholdsRespected
PROPERTIES
    KeepsPromise
    Recovers

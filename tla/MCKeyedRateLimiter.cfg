SPECIFICATION FairSpec
CONSTANTS
    Limiters = {l1, l2}
    Callers = {a, b}
    Keys = {k}
    Wants = {1, 2}
    Timeouts = {0, 1}
    Capacity = 1
    RefillAmounts = {0, 1}
    RefillInterval = 2
    U32 = 16
    MaxAllowance = 4
    None = None
    Alone = Alone
INVARIANTS
    RateRespected
    KeyRateRespected
PROPERTY
    AcquireReturns

SPECIFICATION FairSpec
CONSTANTS
    Base = 2
    MaxMessageSize = 1
    Senders = {s1, s2}
    Receivers = {r1}
    Messages <- MCMessages
    BufferSlack = 5
    WireCapacity = 5
    MaxSends = 2
    None = None
INVARIANT
    CleanClose
PROPERTIES
    IsAChannel
    Delivers
    CallsReturn
CHECK_DEADLOCK FALSE

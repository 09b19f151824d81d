SPECIFICATION BalancerFairSpec
CONSTANTS
    b1 = b1
    b2 = b2
    States <- MCStates
    Address <- MCAddress
    Weight <- MCWeight
    Initial <- MCInitial
    Strategies = {"RoundRobin", "LeastConnections", "WeightedRoundRobin", "Random"}
    Callers = {c1, c2}
    Crews = {{c1, c2, h1}, {c1, h1, h2}}
    Checkers = {h1, h2}
    UnhealthyThreshold = 1
    MaxFailures = 1
    IndexCycle = 2
    IndexWidth = 2
    NoBackend = NoBackend
INVARIANTS
    ConnectionsExact
    ChosenIsListed
    RoundRobinEven
PROPERTY
    ReturnsToService

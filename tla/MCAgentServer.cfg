SPECIFICATION ServerFairSpec
CONSTANTS
    Conns = {c1, c2, c3}
    Foreign = {c3}
    NoConn = NoConn
    Limit = 2
    MaxPolls = 1
INVARIANTS
    PermitsAreExact
PROPERTIES
    EveryClientIsDispatched
    StalledClientsAreDropped

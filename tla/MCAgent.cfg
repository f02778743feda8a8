SPECIFICATION AgentFairSpec
CONSTANTS
    g1 = g1
    g2 = g2
    k1 = k1
    n1 = n1
    None = None
    Workers = {w1, w2}
    Scopes = {g1, g2}
    DekKeys = {k1}
    Nonces = {n1}
    Keys = {m1}
    Boxes <- MCBoxes
    GrantRequests <- OneRequest
    UseRequests <- MCUses
    IdleTimeout = 2
    MaxTtl = 3
    WallSteps <- NoSteps
    MaxNow = 3
    CsDrift = 0
    MaxOffset = 0
    MaxKeypair = 2
INVARIANTS
    KeysOnlyForApprovedCrypto
PROPERTIES
    MaintenanceNeverWaitsForStore

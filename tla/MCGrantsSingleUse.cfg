SPECIFICATION Spec
CONSTANTS
    g1 = g1
    g2 = g2
    k1 = k1
    k2 = k2
    n1 = n1
    n2 = n2
    w1 = w1
    w2 = w2
    None = None
    Workers = {w1, w2}
    Scopes <- MCScopes
    DekKeys <- MCDekKeys
    Nonces <- MCNonces
    Boxes <- MCBoxes
    GrantRequests <- OneRequest
    UseRequests <- OneUse
    IdleTimeout = 2
    MaxTtl = 3
    WallSteps <- NoSteps
    MaxNow = 5
    CsDrift = 0
    MaxOffset = 0
    MaxKeypair = 1
INVARIANTS
    ApprovalSingleUse

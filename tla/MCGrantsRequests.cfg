SPECIFICATION Spec
CONSTANTS
    g1 = g1
    g2 = g2
    k1 = k1
    k2 = k2
    n1 = n1
    n2 = n2
    w1 = w1
    w2 = w2
    None = None
    Workers = {w1}
    Scopes <- MCScopes
    DekKeys <- MCDekKeys
    Nonces <- MCNonces
    Boxes <- MCBoxes
    GrantRequests <- AllRequests
    UseRequests <- MCUses
    IdleTimeout = 2
    MaxTtl = 3
    WallSteps <- Backward
    MaxNow = 6
    CsDrift = 1
    MaxOffset = 1
    MaxKeypair = 2
INVARIANTS
    GrantMatchesApproval
PROPERTIES
    NonceSpentOnlyForUsableGrant
    ApprovalReusedOnlyAfterExpiry

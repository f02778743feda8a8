SPECIFICATION Spec
CONSTANTS
    g1 = g1
    g2 = g2
    k1 = k1
    k2 = k2
    n1 = n1
    n2 = n2
    w1 = w1
    w2 = w2
    None = None
    Workers = {w1, w2}
    Scopes <- MCScopes
    DekKeys <- MCDekKeys
    Nonces <- MCNonces
    Boxes <- MCBoxes
    GrantRequests <- RacingRequests
    UseRequests <- OneUse
    IdleTimeout = 2
    MaxTtl = 3
    WallSteps <- Backward
    MaxNow = 4
    CsDrift = 1
    MaxOffset = 1
    MaxKeypair = 1
SYMMETRY WorkerSymmetry
INVARIANTS
    TypeOK
    DeadlineHolds
    ApprovalsBackOneGrant
PROPERTIES
    ImplementsLedger
    NothingProlongsAGrant

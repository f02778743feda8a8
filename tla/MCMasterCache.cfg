SPECIFICATION FairSpec
CONSTANTS
    Workers = {w1, w2, w3}
    Keys = {m1, m2}
    None = None
    IdleTimeout = 2
    MaxNow = 5
INVARIANTS
    LoadsAreShared
PROPERTIES
    IdleMasterIsNotRevived
    LoadingLockIsReleased

SPECIFICATION Spec
CONSTANTS
    None = None
    Idle = Idle
    Shared = Shared
    i1 = i1
    i2 = i2
    r1 = r1
    r2 = r2
    w1 = w1
    w2 = w2
    Instances <- MCInstances
    Requests <- MCRequests
    Clients = {c1}
    Wallets <- MCWallets
    Nonces = {n1}
    Skews <- MCSkews
    NonceTTL = 3
    TimestampWindow = 3
    SkewTolerance = 1
    Limit = 2
    Window = 2
    MaxTime = 4
    MaxRequests = 3
    MaxBoots = 2
SYMMETRY Symmetry
INVARIANTS
    NonceUsedOnce
    HeaderExpires
    QuotaHolds
PROPERTIES
    PromptIsServed
CHECK_DEADLOCK FALSE

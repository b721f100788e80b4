SPECIFICATION LegacySpec
CONSTANTS
    None = None
    NoTree = NoTree
    NoRecord = NoRecord
    creator = creator
    dao = dao
    alice = alice
    bob = bob
    Keys <- MCKeys
    Creator <- creator
    Leaves <- OldLeaves
    CampaignArgs <- NoArgs
    StreamArgs <- NoArgs
    RootArgs <- NoArgs
    FundAmounts = {}
    GracePeriod = 1
    Minute = 2
    PerLeafCap = 1
    Rent = 1
    U64Max = 12
    MaxTime = 6
    MaxCreations = 1
INVARIANTS
    ClaimAfterWithdrawIsExact
CHECK_DEADLOCK FALSE

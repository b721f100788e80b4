SPECIFICATION Spec
CONSTANTS
    None = None
    NoTree = NoTree
    NoRecord = NoRecord
    creator = creator
    dao = dao
    alice = alice
    bob = bob
    Keys <- MCKeys
    Creator <- creator
    Leaves <- MCLeaves
    CampaignArgs <- SplArgs
    StreamArgs <- NoArgs
    RootArgs <- NoArgs
    FundAmounts <- Amounts
    GracePeriod = 1
    Minute = 2
    PerLeafCap = 2
    Rent = 1
    U64Max = 12
    MaxTime = 4
    MaxCreations = 1
INVARIANTS
    NoLeafPaidTwice
CHECK_DEADLOCK FALSE

SPECIFICATION FreshOrLegacy
CONSTANTS
    None = None
    NoTree = NoTree
    NoRecord = NoRecord
    creator = creator
    dao = dao
    alice = alice
    bob = bob
    Keys <- MCKeys
    Creator <- creator
    Leaves <- LiveLeaves
    CampaignArgs <- LiveArgs
    StreamArgs <- NoArgs
    RootArgs <- NoArgs
    FundAmounts <- Amounts
    GracePeriod = 2
    Minute = 2
    PerLeafCap = 2
    Rent = 1
    U64Max = 12
    MaxTime = 5
    MaxCreations = 1
PROPERTIES
    MigrationPaysExactly
    EveryLeafPaid
    SweepCompletes
CHECK_DEADLOCK FALSE

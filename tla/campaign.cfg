SPECIFICATION Spec
CONSTANTS
    None = None
    NoTree = NoTree
    NoRecord = NoRecord
    creator = creator
    dao = dao
    alice = alice
    bob = bob
    Keys <- MCKeys
    Creator <- creator
    Leaves <- MCLeaves
    CampaignArgs <- BothArgs
    StreamArgs <- MCStreams
    RootArgs <- MCRoots
    FundAmounts <- Amounts
    GracePeriod = 2
    Minute = 2
    PerLeafCap = 2
    Rent = 1
    U64Max = 12
    MaxTime = 5
    MaxCreations = 2
INVARIANTS
    BooksMatchBank
    SupplyCap
    RecordsMatchBooks
    RecordsMatchPayments
    NeverAheadOfSchedule
    EveryClaimCovered
    TwoPathsAgree
    OffersMatchProgram
PROPERTIES
    RefinesEscrow
    StopsHold
    PaysWhatIsShown
    NoEarlyClawback
    CloseLosesNothing
CHECK_DEADLOCK FALSE

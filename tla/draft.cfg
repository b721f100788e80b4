SPECIFICATION Spec
CONSTANTS
    None = None
    alice = alice
    bob = bob
    carol = carol
    sol = sol
    usd = usd
    Tokens = {sol, usd}
    Native = sol
    Decimals <- MCDecimals
    DefaultDecimals = 2
    Minute = 2
    PerLeafCap = 1
    MaxMilestone = 1
    MaxTreeDepth = 3
    Wallets = {alice, bob, carol}
    Entries <- MCEntries
    Files <- MCFiles
    MaxEntries = 3
    FirstTime = 3
    MaxTime = 5
    Amounts = {75}
    MaxRows = 2
    MaxEdits = 2
    MaxRotations = 2
    ShownDecimals = 1
    PreviewRows = 2
    Grain = 512
    Largest <- MCLargest
    Double <- MCDouble
    Slip = 50
INVARIANTS
    FundedInItsToken
    WrittenIsSent
    EveryLeafCanBePaid
    PagesAgree
CHECK_DEADLOCK FALSE

SPECIFICATION LiveSpec
CONSTANTS
    None = None
    d1 = d1
    s = s
    Addresses = {a}
    Native = {a}
    Drafts = {d1, s}
    Streams = {s}
    Supply <- MCSupply
    Tabs = {t1, t2}
    MaxTx = 3
INVARIANTS
    RowMatchesTree
    NothingForgotten
    UnfundedIsListed
    ListedIsUnfunded
PROPERTIES
    QueueDrains
CHECK_DEADLOCK FALSE

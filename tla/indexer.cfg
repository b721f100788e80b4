SPECIFICATION Spec
CONSTANTS
    None = None
    NoRow = NoRow
    Idle = Idle
    Trees = {t1}
    Roots = {r1, r2}
    FirstRoot = r1
    Supply = 3
    Grace = 1
    Handlers <- MoneyHandlers
    MaxTx = 2
    MaxPerBlock = 2
    MaxEvents = 2
    Workers = {w1, w2}
    PageSize = 1
    Skew = 1
SYMMETRY Symmetry
INVARIANTS
    RowBehindChain
PROPERTIES
    RowsNeverForget
    PassCoversItsRange
CHECK_DEADLOCK FALSE

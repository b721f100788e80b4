SPECIFICATION CronSpec
CONSTANTS
    None = None
    NoRow = NoRow
    Idle = Idle
    Trees = {t1}
    Roots = {r1, r2}
    FirstRoot = r1
    Supply = 3
    Grace = 1
    Handlers <- CronHandlers
    MaxTx = 4
    MaxPerBlock = 1
    MaxEvents = 1
    Workers = {w1}
    PageSize = 2
    Skew = 1
INVARIANTS
    NothingBehindCheckpoint
PROPERTIES
    RowsConverge
CHECK_DEADLOCK FALSE

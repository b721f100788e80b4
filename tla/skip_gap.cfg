SPECIFICATION CrashSpec
CONSTANTS
    None = None
    NoRow = NoRow
    Idle = Idle
    Trees = {t1}
    Roots = {r1, r2}
    FirstRoot = r1
    Supply = 3
    Grace = 1
    Handlers <- MoneyHandlers
    MaxTx = 2
    MaxPerBlock = 1
    MaxEvents = 1
    Workers = {w1}
    PageSize = 2
    Skew = 1
INVARIANTS
    NothingBehindCheckpoint
CHECK_DEADLOCK FALSE

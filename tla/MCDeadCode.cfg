SPECIFICATION Spec
CONSTANTS
    N = 3
    x = x
    y = y
    z = z
    NoLocal = NoLocal
    Locals = {x, y}
    MaxRounds = 1
    MaxSweeps = 128
    Listings <- Small
INVARIANTS
    TypeOK
    ReadsKept
    NothingDeadIsLeft
    EnoughSweeps
CHECK_DEADLOCK FALSE

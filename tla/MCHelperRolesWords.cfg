SPECIFICATION Spec
CONSTANTS
    t = t
    u = u
    m = m
    n = n
    Targets = {t, u}
    Methods = {m, n}
    Programs <- AllPrograms
INVARIANT ThrowsWhatItSaid
CHECK_DEADLOCK FALSE

SPECIFICATION Spec
CONSTANTS
    t = t
    u = u
    m = m
    n = n
    Targets = {t, u}
    Methods = {m, n}
    Programs <- AllPrograms
INVARIANTS
    TypeOK
    ReattachedByTwo
    ProvenRaisesStay
    AgreedSitesReadTheirRole
CHECK_DEADLOCK FALSE

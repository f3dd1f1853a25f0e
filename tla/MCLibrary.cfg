SPECIFICATION Spec
CONSTANTS
    Programs <- OneBinary
    TimeLimit = FALSE
    MaxRuns = 2
    Workers = {w1, w2}
    Methods = {m1, m2, m3, m4}
    Types = {A, B}
    Ptrs = {p1, p2}
    Addrs = {a1, a2}
    LambdaNames = {n1}
    NoMethod = NoMethod
    NoType = NoType
    NoName = NoName
    m1 = m1
    m2 = m2
    m3 = m3
    m4 = m4
    A = A
    B = B
    p1 = p1
    p2 = p2
    a1 = a1
    a2 = a2
    n1 = n1
PROPERTY ImplementsTable

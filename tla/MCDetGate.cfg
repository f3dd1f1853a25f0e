SPECIFICATION GateSpec
CONSTANTS
    Workers = {w1, w2}
    Methods = {m1, m2, m3}
    Types = {A, B}
    Ptrs = {p1, p2}
    Addrs = {a1}
    LambdaNames = {n1}
    Programs <- GatedBinary
    TimeLimit = FALSE
    MaxRuns = 1
    NoMethod = NoMethod
    NoType = NoType
    NoName = NoName
    m1 = m1
    m2 = m2
    m3 = m3
    A = A
    B = B
    p1 = p1
    p2 = p2
    a1 = a1
    n1 = n1
SYMMETRY WorkerSymmetry
INVARIANT SameButForFolds

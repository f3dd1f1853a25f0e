SPECIFICATION Spec
CONSTANTS
    N = 4
    K = 2
    Programs <- Covered
INVARIANT TypeOK
INVARIANT RenamedReadsAgree
INVARIANT PropagatedReadsAgree
INVARIANT LoweredReadsAgree
INVARIANT EveryReadDefined
CHECK_DEADLOCK FALSE

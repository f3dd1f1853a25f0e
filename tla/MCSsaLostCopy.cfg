SPECIFICATION Spec
CONSTANTS
    N = 3
    K = 2
    Programs <- Loops
INVARIANT FinalReadsAgree
CHECK_DEADLOCK FALSE

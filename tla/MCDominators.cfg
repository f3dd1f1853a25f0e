SPECIFICATION Spec
CONSTANTS
    N = 5
    Rooted <- BothWays
INVARIANT TypeOK
INVARIANT WalkStaysInTree
INVARIANT ChainKeepsDominators
INVARIANT TreeIsDominance
INVARIANT ClosedForm
INVARIANT JoinFrontiersAreCytron
PROPERTY Terminates
CHECK_DEADLOCK FALSE

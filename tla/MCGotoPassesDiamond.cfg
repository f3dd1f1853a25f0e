CONSTANTS
    PureTests <- MCPureTests
    Reads <- MCReads
    Portable <- MCPortable
    Bodies <- Diamond
    Pipelines <- AllPasses
SPECIFICATION Spec
INVARIANT SameExecutions
CHECK_DEADLOCK FALSE

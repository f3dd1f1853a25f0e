CONSTANTS
    PureTests <- MCPureTests
    Reads <- MCReads
    Portable <- MCPortable
    Bodies <- MCBodies
    Pipelines <- MCPipelines
SPECIFICATION Spec
INVARIANTS TypeOK RunsAgree JumpsLand ScopeKept CountsCover
PROPERTY JumpsShrink
CHECK_DEADLOCK FALSE

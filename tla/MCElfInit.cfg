SPECIFICATION Spec
CONSTANT Jobs <- AllJobs
INVARIANTS
    TypeOK
    RelocatedOnce
    BaseNeverDies
    WinnersTables
CHECK_DEADLOCK FALSE

\* Two requests for one job, a failing statement, a crash and a purge.
SPECIFICATION FairSpec
CONSTANTS
    Jobs = {j1}
    Invocations = {i1, i2}
    NoOwner = NoOwner
    LeaseTicks = 2
    DuplicateDetected = TRUE
    TargetErrors = {"FAILED_RETRYABLE", "FAILED_NON_RETRYABLE"}
    MaxFaults = 1
    MaxCrashes = 1
    MaxPurges = 1
CHECK_DEADLOCK FALSE
INVARIANTS
    TypeOK
    OverlapNeedsExpiry
    AnswersAreTrue
PROPERTIES
    SuccessIsFinal
    RunningEnds

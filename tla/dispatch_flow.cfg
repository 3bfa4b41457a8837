\* One dispatcher whose startup poll races its loop: two jobs of two applications
\* with one slot each, one token for both, a ready queue of one entry, one job that
\* may be cancelled.
SPECIFICATION FairSpec
CONSTANTS
    Jobs = {j1, j2}
    NoJob = NoJob
    Apps = {a1, a2}
    AppOf <- EachItsOwn
    MaxAttempts <- OneAttempt
    Dispatchers = {d1}
    PollerKinds = {"loop", "startup"}
    Tokens = {1}
    PerAppCap = 1
    FetchLimit = 2
    ReadyQueueMax = 1
    MaxDelay = 1
    Answers = {"ALREADY_RUNNING"}
    Cancellable = {j1}
    MaxFaults = 0
    MaxCrashes = 0
INVARIANTS
    ReadyQueueConsistent
    AppSlotsExact
PROPERTIES
    EveryJobFinishes

\* Two dispatchers on one table, every answer, a cancelled job, one failing
\* store or token call and one crash.
SPECIFICATION Spec
CONSTANTS
    Jobs = {j1}
    NoJob = NoJob
    Apps = {a1}
    AppOf <- OneApp
    MaxAttempts <- TwoAttempts
    Dispatchers = {d1, d2}
    PollerKinds = {"loop"}
    Tokens = {1}
    PerAppCap = 0
    FetchLimit = 1
    ReadyQueueMax = 0
    MaxDelay = 1
    Answers = {"SUCCEEDED", "FAILED_NON_RETRYABLE", "FAILED_RETRYABLE",
               "ALREADY_RUNNING", "RESOURCE_BUSY", "CANCELLED", "UNSPECIFIED",
               "UNAUTH_RESPONSE", "UNAUTH_RPC", "RPC_ERROR"}
    Cancellable = {j1}
    MaxFaults = 1
    MaxCrashes = 1
SYMMETRY Symmetry
INVARIANTS
    TypeOK
    ClaimExclusive
    DispatchingIsOwned
    AttemptsBoundCalls
PROPERTIES
    OutcomeIsFinal
    ImplementsLifecycle

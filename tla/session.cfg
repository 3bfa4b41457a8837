\* Two calls at once and their shared refresh, each kind of call, and one thing that
\* happens elsewhere: time, a loss, a revocation, an account closed, new permissions.
SPECIFICATION FairSpec
CONSTANTS
    Calls = {c1, c2}
    Renewal = Renewal
    Users = {u1, u2}
    NoUser = NoUser
    Kinds = {"api", "login", "logout", "switch", "perms", "prefer", "init"}
    MaxCalls = 2
    MaxEvents = 1
INVARIANTS TypeOK SessionAgrees
PROPERTIES SessionSurvives CallsEnd
CHECK_DEADLOCK FALSE

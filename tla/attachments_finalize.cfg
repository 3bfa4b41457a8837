SPECIFICATION Spec
CONSTANTS
    Sessions = {u1, u2}
    Payloads = {p1, p2}
    Contents = {c1, c2}
    Bindings = {b1, b2, b3}
    Fields = {f1}
    Mutations = {m1, m2}
    Calls = {k1, k2}
    MaxAttempts = 1
    SerialUploads = FALSE
    LateBinds = FALSE
    InsertAborts = TRUE
    None = None
INVARIANT FinalizeAnswersAgree
CHECK_DEADLOCK FALSE
SYMMETRY Symmetry

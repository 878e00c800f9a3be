SPECIFICATION Spec
CONSTANTS
    Sessions = {s1}
    Requests = {q1, q2}
    NoToken = NoToken
    NoUser = NoUser
    NoRequest = NoRequest
    Grace = 0
    RefreshTTL = 1
    MaxTime = 1
    MaxEpoch = 2
    MaxGen = 2
    LateDelivery = TRUE
    SignInDuringRestore = FALSE
SYMMETRY Symmetry
INVARIANTS
    StoredRecoverable
PROPERTIES
    ImplementsLineage

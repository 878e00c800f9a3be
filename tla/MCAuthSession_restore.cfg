SPECIFICATION Spec
CONSTANTS
    Sessions = {s1, s2}
    Requests = {q1, q2}
    NoToken = NoToken
    NoUser = NoUser
    NoRequest = NoRequest
    Grace = 0
    RefreshTTL = 2
    MaxTime = 1
    MaxEpoch = 3
    MaxGen = 1
    LateDelivery = FALSE
    SignInDuringRestore = TRUE
SYMMETRY Symmetry
PROPERTIES
    ForgetsOnlyDeadSessions

SPECIFICATION FairSpec
CONSTANTS
    Sessions = {s1, s2}
    Requests = {q1, q2}
    NoToken = NoToken
    NoUser = NoUser
    NoRequest = NoRequest
    Grace = 0
    RefreshTTL = 1
    MaxTime = 0
    MaxEpoch = 2
    MaxGen = 1
    LateDelivery = FALSE
    SignInDuringRestore = FALSE
PROPERTIES
    RefreshEnds
    SignInCompletes

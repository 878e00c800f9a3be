SPECIFICATION Spec
CONSTANTS
    a = a
    b = b
    Devices = {a, b}
    Tasks = {t1, t2}
    Skew <- Exact
    Tolerance = 1
    GuestDevices = {}
    OldVersions = TRUE
    MaxTime = 2
SYMMETRY Symmetry
PROPERTIES
    NothingIsLost
    AccountMovesForward
    NoResurrection

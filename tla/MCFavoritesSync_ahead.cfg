SPECIFICATION Spec
CONSTANTS
    a = a
    b = b
    Devices = {a, b}
    Tasks = {t1}
    Skew <- Ahead
    Tolerance = 1
    GuestDevices = {}
    OldVersions = FALSE
    MaxTime = 2
SYMMETRY Symmetry
PROPERTIES
    NoResurrection

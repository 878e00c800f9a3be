SPECIFICATION ReadingSpec
CONSTANTS
    a = a
    b = b
    ReadingDevices = {a, b}
    Cycles <- FirstCycles
    Instants <- FewInstants
    LastPage = 2
    Faults = {}
    MaxEvents = 3
PROPERTIES
    DroppedOnlyForAnother
SYMMETRY Symmetry
\* The reader's changes are bounded, and every device is up to date.
CHECK_DEADLOCK FALSE

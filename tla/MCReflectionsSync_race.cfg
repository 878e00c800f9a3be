SPECIFICATION ReflectionSpec
CONSTANTS
    a = a
    b = b
    Writers = {a, b}
    MaxTexts = 2
    MaxInstant = 2
    SyncStops = 0
INVARIANTS
    LosingTextKept
\* The reader's changes are bounded.
CHECK_DEADLOCK FALSE

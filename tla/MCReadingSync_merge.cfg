SPECIFICATION ReadingSpec
CONSTANTS
    a = a
    b = b
    ReadingDevices = {a, b}
    Cycles <- FirstCycles
    Instants <- FewInstants
    LastPage = 2
    Faults = {"abandon", "meta", "stops", "records"}
    MaxEvents = 3
INVARIANTS
    CompleteMeansSame
    OneKhatmaPerCycle
    BaseIsTheAccounts
PROPERTIES
    UndoKeepsProgress
    DeletedForGood
SYMMETRY Symmetry
\* The reader's changes are bounded, and every device is up to date.
CHECK_DEADLOCK FALSE

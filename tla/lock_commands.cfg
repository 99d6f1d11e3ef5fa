SPECIFICATION Spec
CONSTANTS
    Process = {p1, p2, p3}
    None = None
    MaxUpdates = 2
    ManyRemovers = FALSE
    Commands = {"file", "create", "unlock"}
    Faults = {"crash"}
INVARIANTS
    LockReleased
    RestsReady
PROPERTIES
    NoLostUpdate
    BackToReady
CHECK_DEADLOCK FALSE

SPECIFICATION Spec
CONSTANTS
    Process = {p1, p2, p3}
    None = None
    MaxUpdates = 2
    ManyRemovers = FALSE
    Commands = {"file", "name", "create", "select", "unlock"}
    Faults = {"crash", "core", "remover"}
INVARIANTS
    OneWorker
CHECK_DEADLOCK FALSE

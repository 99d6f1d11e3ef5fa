SPECIFICATION FairSpec
CONSTANTS
    p1 = p1
    p2 = p2
    p3 = p3
    Package = {p1, p2, p3}
    None = None
    Needs <- NeedsOne
    Source = {p1}
    Start <- Starts
    Command <- Commands
    Limit = 3
    Faults = {"script", "undo", "crash"}
INVARIANTS
    WriteAhead
    RollbackRestores
PROPERTIES
    RollbackEnds
CHECK_DEADLOCK FALSE

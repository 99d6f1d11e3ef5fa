SPECIFICATION FairSpec
CONSTANTS
    p1 = p1
    p2 = p2
    p3 = p3
    Package = {p1, p2, p3}
    None = None
    World <- Worlds
    Command <- Commands
    Faults = {"script", "hook", "unlink", "crash"}
INVARIANTS
    TreeKept
    PlanIsClosure
PROPERTIES
    ProtectedStays
    AutoremoveExact
    RemovalEnds

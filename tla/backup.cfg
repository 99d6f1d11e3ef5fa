SPECIFICATION Spec
CONSTANTS
    Path <- MCPath
    Directory <- MCDirectory
    Foreign <- MCForeign
    Content <- MCContent
    Package <- Sound
    Faults = {"script", "backup", "write", "unlink", "crash"}
INVARIANTS
    NothingLost
    OnlyOwnFiles
PROPERTIES
    AllOrNothing
    TransactionEnds
CHECK_DEADLOCK FALSE

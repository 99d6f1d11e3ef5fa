SPECIFICATION Spec
CONSTANTS
    a = a
    b = b
    c = c
    Version = {1, 2}
    Path = {a, b, c}
    Data <- MCData
    New = New
    Absent = Absent
    Torn = Torn
    Edited = Edited
    NotSaved = NotSaved
    Commands = {"install", "unpack", "configure", "deconfigure", "remove", "purge"}
    Faults = {"script", "hook", "write", "unlink", "copy", "crash"}
    AllowDowngrade = TRUE
INVARIANTS
    InstalledFilesPresent
    CancelSeesOldFiles
    ConffilePresent
PROPERTIES
    EditSurvives
    CommandEnds
CHECK_DEADLOCK FALSE

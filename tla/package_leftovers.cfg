SPECIFICATION Spec
CONSTANTS
    a = a
    b = b
    c = c
    Version = {1, 2}
    Path = {a, b, c}
    Data <- MCData
    New = New
    Absent = Absent
    Torn = Torn
    Edited = Edited
    NotSaved = NotSaved
    Commands = {"install", "unpack", "configure", "deconfigure", "remove", "purge", "reconfigure"}
    Faults = {"script", "hook", "write", "space", "rename"}
    AllowDowngrade = TRUE
INVARIANTS
    NoStrayFile
PROPERTIES
    RestsRepairable
    PurgeErases

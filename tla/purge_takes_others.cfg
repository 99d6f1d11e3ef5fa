SPECIFICATION Spec
CONSTANTS
    lib = lib
    tool = tool
    app = app
    lib1 = lib1
    lib2 = lib2
    tool1 = tool1
    tool2 = tool2
    app1 = app1
    a = a
    b = b
    c = c
    k = k
    Absent = Absent
    Admin = Admin
    None = None
    Package = {lib, tool, app}
    Deb = {lib1, lib2, tool1, tool2, app1}
    Path = {a, b, c, k}
    Edited = {c, k}
    Info <- Separate
    Command <- MCCommands
    Faults = {}
PROPERTIES
    RemovesOwn

--------------------------- MODULE MCInstallation ---------------------------
(* Two essential versions of a library, two of a tool that needs it, and   *)
(* a package that needs both and may take over one of their files.         *)
EXTENDS Installation, TLC

CONSTANTS lib, tool, app, lib1, lib2, tool1, tool2, app1, a, b, c, k

Of(name, version, files, conf, needs, essential) ==
    [name |-> name, version |-> version, files |-> files, conf |-> conf, needs |-> needs,
     essential |-> essential]

(* b goes from lib to tool, c from tool to app, k is a configuration file. *)
SeparateFiles ==
    lib1 :> Of(lib, 1, {a, b}, {}, <<>>, TRUE) @@ lib2 :> Of(lib, 2, {a}, {}, <<>>, TRUE)
      @@ tool1 :> Of(tool, 1, {c, k}, {k}, <<lib>>, FALSE)
      @@ tool2 :> Of(tool, 2, {b, k}, {k}, <<lib>>, FALSE)
      @@ app1 :> Of(app, 1, {c}, {}, <<tool, lib>>, FALSE)
Separate == SeparateFiles
(* k is also a configuration file of app.                                  *)
SharedConf ==
    lib1 :> Of(lib, 1, {a}, {}, <<>>, FALSE) @@ lib2 :> Of(lib, 2, {a}, {}, <<>>, FALSE)
      @@ tool1 :> Of(tool, 1, {c, k}, {k}, <<>>, FALSE)
      @@ tool2 :> Of(tool, 2, {c, k}, {k}, <<lib>>, FALSE)
      @@ app1 :> Of(app, 1, {b, k}, {k}, <<>>, FALSE)
(* An essential package with a configuration file.                         *)
EssentialConf ==
    lib1 :> Of(lib, 1, {a, k}, {k}, <<>>, TRUE) @@ lib2 :> Of(lib, 2, {a, k}, {k}, <<>>, TRUE)
      @@ tool1 :> Of(tool, 1, {c, b}, {b}, <<>>, FALSE)
      @@ tool2 :> Of(tool, 2, {c, b}, {b}, <<lib>>, FALSE)
      @@ app1 :> Of(app, 1, {}, {}, <<>>, FALSE)

Do(name, debs, package, force) ==
    [name |-> name, debs |-> debs, package |-> package, force |-> force]
Install1(force) == {Do("install", <<d>>, None, force) : d \in Deb}
Install2(force) ==
    {Do("install", <<d, e>>, None, force) : d \in Deb, e \in Deb}
Others == {Do(n, <<>>, p, {}) : n \in {"configure", "remove", "purge"}, p \in Package}
Distinct(S) == {x \in S : \A i, j \in DOMAIN x.debs : Info[x.debs[i]].name = Info[x.debs[j]].name => i = j}
AllCommands ==
    Install1({}) \cup Others
      \cup {Do("install", <<tool1, lib1>>, None, {}), Do("install", <<tool2, lib2>>, None, {}),
            Do("install", <<lib2, tool2>>, None, {"downgrade", "skip_same"}),
            Do("install", <<lib1>>, None, {"downgrade"}),
            Do("install", <<tool2, lib1>>, None, {"configure_any"}),
            Do("install", <<tool2>>, None, {"overwrite"}),
            Do("install", <<app1, tool2, lib2>>, None, {"overwrite"})}
MCCommands == AllCommands
OfTwo == Distinct(Install1({}) \cup Install2({})) \cup Others
Forced == Distinct(Install1({}) \cup Install2({"configure_any"}) \cup Install1({"configure_any"})) \cup Others
============================================================================

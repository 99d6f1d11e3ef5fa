---------------------------- MODULE MCDependencies ----------------------------
EXTENDS Dependencies

On(name, versions) == [name |-> name, versions |-> versions]
MayDepend(name, ranges) == {<<>>} \cup {<<On(name, r)>> : r \in ranges}
Join(P, Q)        == {p \o q : p \in P, q \in Q}
MayConflict(name) == {{}} \cup {{On(name, r)} : r \in {{1}, {2}, {1, 2}}}

Pkg(name, version, kind, held, depends, conflicts) ==
    [name |-> name, version |-> version, type |-> kind, held |-> held,
     depends |-> depends, conflicts |-> conflicts, breaks |-> {}]
Given(name, version, depends, conflicts) ==
    Pkg(name, version, "explicit", FALSE, depends, conflicts)
Offered(name, version, depends, conflicts) ==
    Pkg(name, version, "available", FALSE, depends, conflicts)

(* "e" is on the command line, "a" and "b" in a repository, twice each.    *)
Ranges == {{1, 2}, {1}, {2}}
Repository ==
    {<<Given("e", 1, e, {}),
       Offered("a", 1, a1, {}), Offered("a", 2, a2, {}),
       Offered("b", 1, b1, {}), Offered("b", 2, <<>>, {})>> :
        e  \in Join(MayDepend("a", Ranges), MayDepend("b", Ranges)),
        a1 \in MayDepend("b", Ranges), a2 \in MayDepend("b", Ranges),
        b1 \in MayDepend("a", {{1, 2}})}

(* "e" and "a" are on the command line and may not get along.              *)
CommandLine ==
    {<<Given("e", 1, e, ce), Given("a", va, a, {}),
       Offered("a", 2, <<>>, {}), Offered("b", 1, <<>>, cb)>> :
        e \in Join(MayDepend("a", Ranges), MayDepend("b", {{1}})), ce \in MayConflict("a"),
        va \in {1, 2}, a \in MayDepend("b", Ranges) \cup MayDepend("e", {{1}}),
        cb \in MayConflict("e")}

(* "b" is on the target, newer versions of it are in the repository.       *)
Installed ==
    {<<Given("e", 1, e, {}), Pkg("b", 1, "installed", held, <<>>, {}),
       Offered("a", 1, a, {}), Offered("b", 2, <<>>, {}), Offered("b", 3, <<>>, {})>> :
        e \in Join(MayDepend("a", {{1}}), MayDepend("b", {{1, 2, 3}, {2, 3}, {3}})),
        a \in MayDepend("b", {{1, 2, 3}, {2, 3}, {3}}), held \in BOOLEAN}

(* ... or some package needs the version the target has, which may be not  *)
(* configured.                                                             *)
Old(kind) ==
    {<<Given("e", 1, e, {}), Pkg("b", 1, kind, FALSE, <<>>, {}),
       Offered("a", 1, a, {}), Offered("b", 2, <<>>, {})>> :
        e \in Join(MayDepend("a", {{1}}), MayDepend("b", {{1}, {1, 2}, {2}})),
        a \in MayDepend("b", {{1}, {1, 2}, {2}})}
InstalledOld == Old("installed")
Unconfigured == Old("unpacked")

(* ... the command line has a version of "x", or upgrades "b" itself.      *)
Upgraded ==
    {<<Given("e", 1, e, {}), Given("x", 2, <<>>, {}), Pkg("b", 1, "installed", held, <<>>, {}),
       Offered("b", 2, b, {}), Offered("x", 1, <<>>, {})>> :
        e \in Join(MayDepend("b", Ranges), MayDepend("x", {{1, 2}, {1}})),
        b \in MayDepend("x", Ranges), held \in BOOLEAN}
    \cup
    {<<Given("e", 1, e, {}), Given("b", 2, <<>>, {}), Pkg("b", 1, "upgrade", FALSE, <<>>, {}),
       Offered("a", 1, a, {}), Offered("b", 3, <<>>, {})>> :
        e \in Join(MayDepend("a", {{1}}), MayDepend("b", {{1}, {2, 3}, {3}})),
        a \in MayDepend("b", {{1}, {1, 2, 3}, {3}})}

(* The packages of the repository conflict with one another.               *)
Conflicting ==
    {<<Given("e", 1, e, {}),
       Offered("a", 1, a, ca), Offered("a", 2, a, ca),
       Offered("b", 1, <<>>, cb), Offered("b", 2, <<>>, {})>> :
        e \in Join(MayDepend("a", {{1, 2}, {2}}), MayDepend("b", {{1, 2}, {1}})),
        a \in MayDepend("b", {{1, 2}}),
        ca \in MayConflict("b"), cb \in MayConflict("a")}

(* Conflicts and Breaks with what the target has, configured or not.       *)
Breaking ==
    {<<[Given("e", 1, e, ce) EXCEPT !.breaks = be], Pkg("b", 1, kind, FALSE, <<>>, {}),
       [Offered("a", 1, <<>>, {}) EXCEPT !.breaks = ba]>> :
        kind \in {"installed", "unpacked"}, e \in MayDepend("a", {{1}}),
        ce \in MayConflict("b"), be \in MayConflict("b"), ba \in MayConflict("b")}

(* A package is on the command line twice.                                 *)
Twice ==
    {<<Given("e", 1, e, {}), Given("a", 1, <<>>, {}), Given("a", 2, a, {}),
       Offered("a", 3, <<>>, {}), Offered("b", 1, b, {})>> :
        e \in Join(MayDepend("b", {{1}}), MayDepend("a", Ranges)),
        a \in MayDepend("b", {{1}}), b \in MayDepend("a", Ranges)}

Worlds == Repository \cup CommandLine \cup Conflicting \cup Breaking \cup Twice
            \cup Installed \cup InstalledOld \cup Unconfigured \cup Upgraded
=============================================================================

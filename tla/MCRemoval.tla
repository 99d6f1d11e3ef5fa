------------------------------ MODULE MCRemoval ------------------------------
(* Three packages, in the statuses and with the fields that matter.        *)
EXTENDS Removal, TLC

CONSTANTS p1, p2, p3

Chain   == (p1 :> {} @@ p2 :> {p1} @@ p3 :> {p2})  \* p3 needs p2 needs p1
Shared  == (p1 :> {} @@ p2 :> {p1} @@ p3 :> {p1})  \* p2 and p3 need p1
Ring    == (p1 :> {p2} @@ p2 :> {p1} @@ p3 :> {})  \* p1 and p2 need each other

Fields(auto, held, required, essential, self) ==
    [auto |-> auto, held |-> held, required |-> required, essential |-> essential,
     self |-> self]
Kinds == {Fields({p1, p2}, {}, {p2}, {}, {p1}), Fields({p1, p2, p3}, {}, {}, {}, {}),
          Fields({p1}, {}, {}, {p3}, {}), Fields({p2, p3}, {p1}, {}, {}, {})}
OfWpkg == {Fields({}, {}, {}, {}, {p3})}

Only(p, s) == [q \in Package |-> IF q = p THEN s ELSE "installed"]
Statuses == {Only(p1, "installed"), Only(p2, "unpacked"), Only(p3, "config_files")}

Target(t, f) ==
    [depends |-> t, status |-> f[2], required |-> f[1].required,
     essential |-> f[1].essential, held |-> f[1].held, auto |-> f[1].auto,
     self |-> f[1].self]
Targets(trees, kinds) ==
    {d \in {Target(t, f) : t \in trees, f \in kinds \X Statuses} :
        \A p \in Package : d.status[p] \in Present =>
            \A q \in d.depends[p] : d.status[q] \in Present}
Worlds == Targets({Chain, Shared, Ring}, Kinds)
Chains == Targets({Chain}, OfWpkg)

Ask(name, packages, flags) == [name |-> name, packages |-> packages, flags |-> flags]
Automatic == {Ask("autoremove", {}, {}), Ask("autoremove", {}, {"purge"})}
Commands ==
    Automatic
      \cup {Ask(n, {p1}, f) : n \in {"remove", "purge"},
                              f \in {{}, {"recursive"}, {"depends"}}}
      \cup {Ask("remove", {p1, p3}, {"recursive", "hold"}),
            Ask("purge", {p1, p2}, {"recursive", "essentials"}),
            Ask("remove", {p2}, {"depends", "recursive"}),
            Ask("deconfigure", {p3}, {}), Ask("deconfigure", {p1, p2, p3}, {"hold"})}
Deconfigures == {Ask("deconfigure", {p1}, {"recursive"})}
Removes == {Ask("remove", {p1}, {"recursive"})}
==============================================================================

----------------------------- MODULE MCJournal -----------------------------
(* Three packages: p2 needs p1, p3 needs nobody.                            *)
EXTENDS Journal, TLC

CONSTANTS p1, p2, p3

NeedsOne == (p1 :> {} @@ p2 :> {p1} @@ p3 :> {})

Ones == [p \in Package |-> 1]
At(s1, s2, s3) == [status |-> (p1 :> s1 @@ p2 :> s2 @@ p3 :> s3), version |-> Ones]
Starts ==
    {At("absent", "absent", "installed"), At("installed", "installed", "unpacked"),
     At("installed", "config_files", "not_installed")}
New == {At("absent", "absent", "installed")}
All == {At("installed", "installed", "installed")}
OnlyUnpacked == {At("unpacked", "absent", "absent")}

Do(name, packages) == [name |-> name, packages |-> packages]
Commands ==
    {Do("install", {p1, p2}), Do("install", {p3}), Do("unpack", {p2}), Do("build", {p1, p2}),
     Do("configure", {p3}), Do("configure", {p1, p2}), Do("deconfigure", {p2}),
     Do("deconfigure", {p1, p2}), Do("remove", {p2}), Do("purge", {p2}), Do("unpack", {p1}),
     Do("remove", {p1, p2}), Do("remove", {p1})}
Builds     == {Do("build", {p1, p2})}
Installs   == {Do("install", {p1})}
Configures == {Do("configure", {p1})}
Removes    == {Do("remove", {p3})}
============================================================================

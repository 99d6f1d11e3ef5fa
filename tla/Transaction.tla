----------------------------- MODULE Transaction -----------------------------
(***************************************************************************)
(* What a wpkgar_backup promises to do_unpack() and do_remove(): while the *)
(* files of a package are replaced anything may be seen on the target, but *)
(* in the end either everything the archive asked for is there, or         *)
(* everything is as it was before.                                         *)
(***************************************************************************)
CONSTANTS Path,     \* the paths a transaction may touch
          Node      \* what may be found at a path

VARIABLES files,    \* what is at each path
          before,   \* what was at each path when the transaction started
          wanted,   \* what it must leave at the paths it writes or deletes
          obsolete, \* the paths it wants deleted but may leave as they were
          running   \* "no", "yes" or "killed"

vars == <<files, before, wanted, obsolete, running>>

Init ==
    /\ files \in [Path -> Node]
    /\ before = files /\ wanted = files
    /\ obsolete = {}
    /\ running = "no"

Begin ==
    /\ running = "no"
    /\ running' = "yes"
    /\ before' = files
    /\ wanted' \in [Path -> Node]
    /\ obsolete' \in SUBSET Path
    /\ UNCHANGED files

Work ==
    /\ running = "yes"
    /\ files' \in [Path -> Node]
    /\ UNCHANGED <<before, wanted, obsolete, running>>

Committed ==
    \A p \in Path :
        files[p] = wanted[p] \/ (p \in obsolete /\ files[p] = before[p])

RolledBack == files = before

End ==
    /\ running = "yes"
    /\ Committed \/ RolledBack
    /\ running' = "no"
    /\ UNCHANGED <<files, before, wanted, obsolete>>

Killed ==
    /\ running = "yes"
    /\ running' = "killed"
    /\ files' \in [Path -> Node]
    /\ UNCHANGED <<before, wanted, obsolete>>

Next == Begin \/ Work \/ End \/ Killed

Spec == Init /\ [][Next]_vars
==============================================================================

-------------------------------- MODULE Backup --------------------------------
(***************************************************************************)
(* wpkgar_backup and the loops of do_unpack() and do_remove() that use it, *)
(* on a target where a path is a regular file, a symbolic link or a        *)
(* directory.  One step per system call that changes the target, so that a *)
(* fault or the death of the process may fall between any two.  Status and *)
(* scripts are in Package; here they only say where a transaction may be   *)
(* abandoned.                                                              *)
(*                                                                         *)
(* stat(), open() and fopen() follow links, symlink() and unlink() do not. *)
(***************************************************************************)
EXTENDS Naturals, FiniteSets, FiniteSetsExt

CONSTANTS
    Path,       \* paths of the target, numbered in the order of std::map
    Directory,  \* the paths that are directories
    Foreign,    \* the paths where another package has a file
    Content,    \* what a regular file may hold, positive numbers
    Package,    \* packages: sets of archives, the data.tar of each version
    Faults      \* what may fail: see FaultKinds

FaultKinds == {"script", "backup", "write", "unlink", "restore", "crash"}

Nothing == [kind |-> "nothing"]
Folder  == [kind |-> "directory"]
File(c) == [kind |-> "file", content |-> c]
Link(q) == [kind |-> "link", to |-> q]

Entry == {File(c) : c \in Content} \cup {Link(q) : q \in Path}
Node  == Entry \cup {Nothing, Folder}
Empty == [p \in {} |-> Nothing]

ASSUME PathAssumption ==
    Path \subseteq Nat \ {0} /\ IsFiniteSet(Path)
    /\ Directory \subseteq Path /\ Foreign \subseteq Path \ Directory
ASSUME ContentAssumption == Content \subseteq Nat \ {0}
(* An archive is a partial function on Path.  Only paths that never are    *)
(* links are linked to.                                                    *)
ASSUME ArchiveAssumption ==
    \A package \in Package : \A ar \in package :
        /\ DOMAIN ar \subseteq Path \ (Directory \cup Foreign)
        /\ \A p \in DOMAIN ar :
            /\ ar[p] \in Entry
            /\ ar[p].kind = "link" =>
                \A other \in package : ar[p].to \in DOMAIN other =>
                    other[ar[p].to].kind = "file"
ASSUME FaultAssumption == Faults \subseteq FaultKinds

VARIABLES
    archives,   \* the versions of the package
    node,       \* what is at every path
    installed,  \* the archive the database holds for the package
    pc,         \* where the transaction is
    op,         \* "unpack" or "remove"
    new,        \* the archive it extracts
    todo,       \* the paths the current loop has still to visit
    at,         \* the path being written
    entries,    \* the keys of f_files
    f_files,    \* the number of the copy of a path, 0 for ""
    f_count,    \* the number of the last copy
    f_success,  \* success() was called
    bak,        \* the content of tmp/backup/file<n>.bak, 0 if there is none
    before,     \* history: node when the transaction started
    old         \* history: installed when the transaction started

backup == <<entries, f_files, f_count, f_success, bak>>
vars == <<archives, node, installed, pc, op, new, todo, at, backup, before, old>>

Copies == 1..Cardinality(Path)

TypeOK ==
    /\ archives \in Package
    /\ node \in [Path -> Node]
    /\ {installed, new, old} \subseteq archives \cup {Empty}
    /\ pc \in {"idle", "extract", "write", "drop", "remove", "finish", "restore",
               "discard", "dead"}
    /\ op \in {"unpack", "remove"}
    /\ todo \subseteq Path
    /\ at \in Path \cup {0}
    /\ entries \subseteq Path
    /\ f_files \in [Path -> Copies \cup {0}]
    /\ f_count \in Copies \cup {0}
    /\ f_success \in BOOLEAN
    /\ bak \in [Copies -> Content \cup {0}]
    /\ before \in [Path -> Node]

Init ==
    /\ archives \in Package
    /\ \E c \in Content :
        node = [p \in Path |-> IF p \in Directory THEN Folder
                               ELSE IF p \in Foreign THEN File(c) ELSE Nothing]
    /\ installed = Empty /\ old = Empty /\ new = Empty
    /\ pc = "idle" /\ op = "unpack" /\ todo = {} /\ at = 0
    /\ entries = {} /\ f_files = [p \in Path |-> 0]
    /\ f_count = 0 /\ f_success = FALSE
    /\ bak = [k \in Copies |-> 0]
    /\ before = node

Fault(kind) == kind \in Faults

Follow(p)  == IF node[p].kind = "link" THEN node[p].to ELSE p
Exists(p)  == node[Follow(p)] # Nothing
IsDir(p)   == node[Follow(p)] = Folder

-----------------------------------------------------------------------------
(* wpkgar_backup::backup().                                                *)

(* A path is saved once; a missing one is noted as such; the content of    *)
(* any other goes to the next file of tmp/backup.                          *)
CopyTo(p, k) ==
    /\ Exists(p) /\ ~IsDir(p)
    /\ k \in Copies
    /\ entries' = entries \cup {p}
    /\ f_files' = [f_files EXCEPT ![p] = k]
    /\ f_count' = k
    /\ bak' = [bak EXCEPT ![k] = node[Follow(p)].content]
    /\ UNCHANGED f_success

SaveMissing(p) ==
    /\ ~Exists(p)
    /\ entries' = entries \cup {p}
    /\ f_files' = [f_files EXCEPT ![p] = 0]
    /\ UNCHANGED <<f_count, f_success, bak>>

SaveOver(p) ==                     \* mutation: every copy has the same name
    \/ p \in entries /\ UNCHANGED backup
    \/ p \notin entries /\ (SaveMissing(p) \/ CopyTo(p, 1))
Save(p) ==
    \/ p \in entries /\ UNCHANGED backup
    \/ p \notin entries /\ (SaveMissing(p) \/ CopyTo(p, f_count + 1))

(* It throws on a directory, and where the copy cannot be made.            *)
SaveThrows(p) ==
    /\ p \notin entries
    /\ IsDir(p) \/ (Exists(p) /\ Fault("backup"))
    /\ UNCHANGED backup

(* backup() returns TRUE: it made a copy now.                              *)
Copied(p) == p \notin entries /\ Exists(p)

-----------------------------------------------------------------------------
(* Validation: the target has nothing at a path the package does not own.  *)
NoOverwrite(ar) == \A p \in DOMAIN ar : Exists(p) => p \in DOMAIN installed

Begin(what, ar, label, paths) ==
    /\ pc = "idle"
    /\ pc' = label /\ op' = what /\ new' = ar /\ todo' = paths /\ at' = 0
    /\ before' = node /\ old' = installed
    /\ f_success' = FALSE
    /\ UNCHANGED <<node, installed, entries, f_files, f_count, bak>>

BeginUnpack(ar) ==
    /\ NoOverwrite(ar)
    /\ Begin("unpack", ar, "extract", DOMAIN ar)

BeginRemove ==
    /\ installed # Empty
    /\ Begin("remove", Empty, "remove", DOMAIN installed)

Goto(label, paths) ==
    /\ pc' = label
    /\ todo' = paths
    /\ UNCHANGED <<installed, op, new, before, old>>

(* The exception reaches the backup's restore().                           *)
Abandon == Goto("restore", entries') /\ at' = 0

-----------------------------------------------------------------------------
(* do_unpack(): extract the new archive ...                                *)

ExtractSave(p) ==
    /\ pc = "extract" /\ p \in todo
    /\ Save(p)
    /\ Goto("write", todo) /\ at' = p
    /\ UNCHANGED node

ExtractSaveThrows(p) ==
    /\ pc = "extract" /\ p \in todo
    /\ SaveThrows(p)
    /\ Abandon
    /\ UNCHANGED node

(* write_file() opens what the path leads to; os_symlink() removes what it *)
(* finds at the path itself.                                               *)
Written ==
    IF new[at].kind = "link" THEN [node EXCEPT ![at] = new[at]]
    ELSE [node EXCEPT ![Follow(at)] = new[at]]

WriteFile ==
    /\ pc = "write"
    /\ node' = Written
    /\ Goto("extract", todo \ {at}) /\ at' = 0
    /\ UNCHANGED backup

(* Before or after the unlink that makes room; a regular file may also be  *)
(* written and then refuse its mode or owner.                              *)
WriteFileFails ==
    /\ pc = "write" /\ Fault("write")
    /\ \/ node' \in {node, [node EXCEPT ![at] = Nothing]}
       \/ new[at].kind = "file" /\ node' = Written
    /\ UNCHANGED backup
    /\ Abandon

EndExtract ==
    /\ pc = "extract" /\ todo = {}
    /\ IF installed = Empty
       THEN Goto("finish", {})
       ELSE Goto("drop", {p \in DOMAIN installed : installed[p].kind = "file"})
    /\ UNCHANGED <<node, at, backup>>

(* ... then delete the regular files of the old one that a first backup    *)
(* shows not to be in the new one.  An unlink that fails is logged only.   *)
DropOldFile(p) ==
    /\ pc = "drop" /\ p \in todo
    /\ Save(p)
    /\ \/ node' = IF Copied(p) THEN [node EXCEPT ![p] = Nothing] ELSE node
       \/ Fault("unlink") /\ Copied(p) /\ UNCHANGED node
    /\ Goto("drop", todo \ {p})
    /\ UNCHANGED at

DropOldFileThrows(p) ==
    /\ pc = "drop" /\ p \in todo
    /\ SaveThrows(p)
    /\ Abandon
    /\ UNCHANGED node

-----------------------------------------------------------------------------
(* do_remove(): save and delete every file and link of the archive.        *)

RemoveTarget(p) ==                 \* mutation: the file a link leads to
    /\ pc = "remove" /\ p \in todo
    /\ Save(p)
    /\ node' = [node EXCEPT ![Follow(p)] = Nothing]
    /\ Goto("remove", todo \ {p})
    /\ UNCHANGED at
RemoveFile(p) ==
    /\ pc = "remove" /\ p \in todo
    /\ Save(p)
    /\ node' = [node EXCEPT ![p] = Nothing]
    /\ Goto("remove", todo \ {p})
    /\ UNCHANGED at

RemoveFileThrows(p) ==
    /\ pc = "remove" /\ p \in todo
    /\ SaveThrows(p) \/ (Fault("unlink") /\ node[p] # Nothing /\ Save(p))
    /\ Abandon
    /\ UNCHANGED node

EndLoop ==
    /\ pc \in {"drop", "remove"} /\ todo = {}
    /\ Goto("finish", {})
    /\ UNCHANGED <<node, at, backup>>

(* postupgrade_scripts(), copy_package_in_database(), remove_hooks().      *)
ScriptFails ==
    /\ pc \in {"extract", "drop", "remove", "finish"} /\ todo = {}
    /\ Fault("script")
    /\ UNCHANGED <<node, backup>>
    /\ Abandon

-----------------------------------------------------------------------------
(* success(), then restore() out of the destructor.                        *)

Success ==
    /\ pc = "finish"
    /\ f_success' = TRUE
    /\ installed' = new
    /\ pc' = "discard"
    /\ UNCHANGED <<node, op, new, todo, at, entries, f_files, f_count, bak, before, old>>

RestoreNew ==                          \* mutation: new files are left there
    [node EXCEPT ![Follow(Min(todo))] =
        IF f_files[Min(todo)] = 0 THEN @ ELSE File(bak[f_files[Min(todo)]])]
Restored ==
    LET p == Min(todo) IN
    IF f_files[p] = 0 THEN [node EXCEPT ![p] = Nothing]
    ELSE [node EXCEPT ![Follow(p)] = File(bak[f_files[p]])]

(* Files come back in the order of f_files, whatever happens to some.      *)
RestoreAgain ==                        \* mutation: the same file for ever
    /\ pc = "restore" /\ todo # {}
    /\ node' = Restored
    /\ Goto("restore", todo)
    /\ UNCHANGED <<at, backup>>
RestoreFile ==
    /\ pc = "restore" /\ todo # {}
    /\ LET p == Min(todo) IN
        /\ \/ (f_files[p] = 0 \/ ~IsDir(p)) /\ node' = Restored
           \/ (f_files[p] # 0 /\ IsDir(p)) /\ UNCHANGED node
           \/ Fault("restore") /\ UNCHANGED node
        /\ Goto("restore", todo \ {p})
    /\ UNCHANGED <<at, backup>>

EndRestore ==
    /\ pc = "restore" /\ todo = {}
    /\ Goto("discard", {})
    /\ UNCHANGED <<node, at, backup>>

(* In a second loop the copies go, needed or not; one that cannot be       *)
(* deleted stays.                                                          *)
Discard ==
    /\ pc = "discard" /\ entries # {}
    /\ LET p == Min(entries) IN
        /\ entries' = entries \ {p}
        /\ \/ bak' = [k \in Copies |-> IF k = f_files[p] THEN 0 ELSE bak[k]]
           \/ Fault("unlink") /\ UNCHANGED bak
    /\ UNCHANGED <<node, installed, pc, op, new, todo, at, f_files, f_count,
                   f_success, before, old>>

End ==
    /\ pc = "discard" /\ entries = {}
    /\ pc' = "idle"
    /\ f_files' = [p \in Path |-> 0] /\ f_count' = 0
    /\ UNCHANGED <<node, installed, op, new, todo, at, entries, f_success, bak,
                   before, old>>

(* The process dies; the transient status it leaves keeps every later      *)
(* command away from the package.                                          *)
Crash ==
    /\ Fault("crash")
    /\ pc \notin {"idle", "dead"}
    /\ pc' = "dead"
    /\ UNCHANGED <<node, installed, op, new, todo, at, backup, before, old>>

-----------------------------------------------------------------------------
Step ==
    \/ \E p \in Path :
        \/ ExtractSave(p) \/ ExtractSaveThrows(p)
        \/ DropOldFile(p) \/ DropOldFileThrows(p)
        \/ RemoveFile(p) \/ RemoveFileThrows(p)
    \/ WriteFile \/ WriteFileFails \/ EndExtract \/ EndLoop \/ ScriptFails
    \/ Success \/ RestoreFile \/ EndRestore \/ Discard \/ End

Next ==
    /\ UNCHANGED archives
    /\ (\E ar \in archives : BeginUnpack(ar)) \/ BeginRemove \/ Step \/ Crash

(* A transaction that was begun goes on until it ends or dies.             *)
Spec == Init /\ [][Next]_vars /\ WF_vars(Step /\ UNCHANGED archives)

-----------------------------------------------------------------------------
(* What must hold.                                                         *)

(* What a reader of every path finds: the kind of a path may change, a     *)
(* link restored as a copy of what it led to, but not what is read there.  *)
Seen(state) ==
    [p \in Path |-> IF state[p].kind = "link" THEN state[state[p].to] ELSE state[p]]

(* Until the transaction is a success, the content of every regular file   *)
(* that was there when it began is read at its path or is in the copy      *)
(* f_files names, and after a crash in some copy (wpkgar_backup,           *)
(* do_unpack, do_remove, whose log promises "backup is here").             *)
NothingLost ==
    pc # "idle" /\ ~f_success =>
        \A p \in Path : before[p].kind = "file" =>
            \/ Seen(node)[p] = before[p]
            \/ \E k \in Copies :
                /\ bak[k] = before[p].content
                /\ pc = "dead" \/ (p \in entries /\ f_files[p] = k)

(* A transaction only touches the paths of the archives it was given,      *)
(* never a file another package has (do_unpack, backup.restore).           *)
OnlyOwnFiles ==
    \A p \in Path \ (DOMAIN new \cup DOMAIN old) : node[p] = before[p]

(* A transaction that failed leaves what it found (wpkgar_backup).         *)
RestoresState == pc = "discard" /\ ~f_success => node = before

(* After an upgrade nothing is left of the files the new version has not   *)
(* (do_unpack).                                                            *)
ObsoleteGone ==
    pc = "discard" /\ f_success /\ op = "unpack" /\ Faults = {} =>
        \A p \in DOMAIN old \ DOMAIN new : node[p] = Nothing

(* Where nothing fails, a removal completes (wpkgar_backup::backup).       *)
RemovalCompletes == Faults = {} /\ op = "remove" => pc # "restore"

(* Every transaction ends, unless the process dies (do_unpack, do_remove,  *)
(* wpkgar_backup::restore).                                                *)
TransactionEnds == pc # "idle" ~> pc \in {"idle", "dead"}

Wanted ==
    [p \in Path |-> IF p \in DOMAIN new THEN new[p]
                    ELSE IF p \in DOMAIN old THEN Nothing ELSE before[p]]
T == INSTANCE Transaction WITH
        before   <- Seen(before),
        files    <- Seen(node),
        wanted   <- Seen(Wanted),
        obsolete <- IF op = "unpack" THEN DOMAIN old \ DOMAIN new ELSE {},
        running  <- CASE pc = "idle" -> "no" [] pc = "dead" -> "killed"
                      [] OTHER -> "yes"

(* The code implements Transaction: whatever fails on the way, at the end  *)
(* the new files are all there or the old ones all are (wpkgar_backup).    *)
AllOrNothing == T!Spec
==============================================================================

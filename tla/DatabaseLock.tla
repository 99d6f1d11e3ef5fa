----------------------------- MODULE DatabaseLock -----------------------------
(***************************************************************************)
(* Several wpkg and pkg-explorer processes on one administration           *)
(* directory: the lock file core/wpkg.lck, the status of the "core"        *)
(* package that goes with it, and the package records the processes read   *)
(* into their wpkgar_manager and write back whole.                         *)
(*                                                                         *)
(* A record is the set of the updates it holds; what a process saves is    *)
(* what it read and its own update.                                        *)
(***************************************************************************)
EXTENDS Naturals

CONSTANTS
    Process,     \* the processes; one runs one command at a time
    None,        \* no process, or nothing read yet
    MaxUpdates,  \* bound: how many updates are made in all
    ManyRemovers,\* whether two administrators may remove a stale lock at a time
    Commands,    \* what the processes run: see CommandNames
    Faults       \* what may fail: see FaultKinds

CommandNames == {"file",    \* a command that names .deb files or installed packages
                 "name",    \* --install <name>, which looks in the repository
                 "create",  \* --create-database-lock, for a tool outside of wpkg
                 "select",  \* --set-selection, which writes without the lock
                 "unlock"}  \* --remove-database-lock, Manager::ResetLock()
FaultKinds   == {"core",    \* core/wpkg-status cannot be read or written
                 "crash",   \* a process that has the lock dies
                 "remover"} \* a process that removes the lock dies

ASSUME ProcessAssumption == None \notin Process
ASSUME BoundAssumption   == MaxUpdates \in Nat /\ ManyRemovers \in BOOLEAN
ASSUME CommandAssumption == Commands \subseteq CommandNames
ASSUME FaultAssumption   == Faults \subseteq FaultKinds

CoreStatus == {"Ready", "Working"}

VARIABLES
    lck,      \* which process created core/wpkg.lck, None if it is not there
    core,     \* X-Status of the core package on disk
    record,   \* the updates a package's wpkg-status holds on disk
    pc,       \* where each process is
    cmd,      \* what it runs
    f_core,   \* X-Status of core in its manager, None when not loaded
    f_record, \* the package's record in its manager
    loaded,   \* the processes whose manager holds the record
    made,     \* history: the number of updates made
    died      \* history: whose lock files stay, after a death or a "create"

memory == <<f_core, f_record, loaded>>
history == <<made, died>>
vars == <<lck, core, record, pc, cmd, memory, history>>

Pc == {"idle", "list", "select", "save", "open", "load", "check", "refuse", "work", "ready",
       "unlink", "rm_unlink", "rm_load", "rm_ready"}

TypeOK ==
    /\ lck \in Process \cup {None}
    /\ core \in CoreStatus
    /\ record \subseteq 1..MaxUpdates
    /\ pc \in [Process -> Pc]
    /\ cmd \in [Process -> CommandNames \cup {"none"}]
    /\ f_core \in [Process -> CoreStatus \cup {None}]
    /\ f_record \in [Process -> SUBSET (1..MaxUpdates)]
    /\ loaded \subseteq Process
    /\ made \in 0..MaxUpdates
    /\ died \subseteq Process

Init ==
    /\ lck = None /\ core = "Ready" /\ record = {}
    /\ pc = [p \in Process |-> "idle"]
    /\ cmd = [p \in Process |-> "none"]
    /\ f_core = [p \in Process |-> None]
    /\ f_record = [p \in Process |-> {}]
    /\ loaded = {}
    /\ made = 0 /\ died = {}

Goto(p, label) == pc' = [pc EXCEPT ![p] = label] /\ UNCHANGED cmd

(* The command ends and its manager with it.                               *)
Exit(p) ==
    /\ pc' = [pc EXCEPT ![p] = "idle"]
    /\ cmd' = [cmd EXCEPT ![p] = "none"]
    /\ f_core' = [f_core EXCEPT ![p] = None]
    /\ f_record' = [f_record EXCEPT ![p] = {}]
    /\ loaded' = loaded \ {p}

(* load_package() reads a package once per manager.                        *)
LoadCore(p) ==
    f_core' = [f_core EXCEPT ![p] = IF @ = None THEN core ELSE @]

SetCore(p, status) ==
    /\ core' = status
    /\ f_core' = [f_core EXCEPT ![p] = status]

Fault(kind) == kind \in Faults

Removers == {p \in Process : cmd[p] = "unlock"}
Holders  == {p \in Process : pc[p] \in {"load", "check", "refuse", "work", "ready",
                                        "unlink"}}

-----------------------------------------------------------------------------
Start(p, c, label) ==
    /\ pc[p] = "idle"
    /\ c \in Commands
    /\ pc' = [pc EXCEPT ![p] = label]
    /\ cmd' = [cmd EXCEPT ![p] = c]
    /\ UNCHANGED <<lck, core, record, memory, history>>

StartFile(p) == Start(p, "file", "open")
StartName(p) == Start(p, "name", "list")
StartCreate(p) == Start(p, "create", "open")
StartSelect(p) == Start(p, "select", "select")

(* init_installer() runs before the lock is taken: for a package name,     *)
(* upgrade_list() loads core and the installed packages into the manager.  *)
UpgradeList(p) ==
    /\ pc[p] = "list"
    /\ LoadCore(p)
    /\ f_record' = [f_record EXCEPT ![p] = record]
    /\ loaded' = loaded \cup {p}
    /\ Goto(p, "open")
    /\ UNCHANGED <<lck, core, record, history>>

(* lock(): os_open(O_CREAT | O_EXCL).                                      *)
OpenShared(p) ==                        \* mutation: without O_EXCL
    /\ pc[p] = "open"
    /\ lck' = p
    /\ Goto(p, "load")
    /\ UNCHANGED <<core, record, memory, history>>
OpenLock(p) ==
    /\ pc[p] = "open"
    /\ lck = None
    /\ lck' = p
    /\ Goto(p, "load")
    /\ UNCHANGED <<core, record, memory, history>>

(* wpkgar_exception_locked: the command ends.                              *)
Locked(p) ==
    /\ pc[p] = "open"
    /\ lck # None
    /\ Exit(p)
    /\ UNCHANGED <<lck, core, record, history>>

(* lock(): load core; an exception here leaves before f_lock_count is      *)
(* incremented and before the wpkgar_lock exists.                          *)
LoadStatus(p) ==
    /\ pc[p] = "load"
    /\ LoadCore(p)
    /\ Goto(p, "check")
    /\ UNCHANGED <<lck, core, record, f_record, loaded, history>>

LockFails(p) ==
    /\ pc[p] \in {"load", "check"}
    /\ Fault("core")
    /\ Exit(p)
    /\ UNCHANGED <<lck, core, record, history>>

(* lock(): the core package is Ready, it becomes what the command does.    *)
TakeLock(p) ==
    /\ pc[p] = "check" /\ cmd[p] # "create"
    /\ f_core[p] = "Ready"
    /\ SetCore(p, "Working")
    /\ Goto(p, "work")
    /\ UNCHANGED <<lck, record, f_record, loaded, history>>

(* create_database_lock() ends with exit(): nothing releases the lock.     *)
LeaveLock(p) ==
    /\ pc[p] = "check" /\ cmd[p] = "create"
    /\ f_core[p] = "Ready"
    /\ core' = "Ready"
    /\ Exit(p)
    /\ died' = died \cup {p}
    /\ UNCHANGED <<lck, record, made>>

(* lock(): it is not; unlock() makes it Ready and the exception ends the   *)
(* command.                                                                *)
NotReadyLeaks(p) ==                     \* mutation: the exception comes first
    /\ pc[p] = "check"
    /\ f_core[p] # "Ready"
    /\ Exit(p)
    /\ UNCHANGED <<lck, core, record, history>>
NotReady(p) ==
    /\ pc[p] = "check"
    /\ f_core[p] # "Ready"
    /\ SetCore(p, "Ready")
    /\ Goto(p, "unlink")
    /\ UNCHANGED <<lck, record, f_record, loaded, history>>

(* Validation reads what the manager does not hold yet.                    *)
ReadEarly(p) ==                         \* mutation: while waiting for the lock
    /\ pc[p] \in {"open", "work"} /\ p \notin loaded
    /\ f_record' = [f_record EXCEPT ![p] = record]
    /\ loaded' = loaded \cup {p}
    /\ UNCHANGED <<lck, core, record, pc, cmd, f_core, history>>
ReadRecord(p) ==
    /\ pc[p] = "work" /\ p \notin loaded
    /\ f_record' = [f_record EXCEPT ![p] = record]
    /\ loaded' = loaded \cup {p}
    /\ UNCHANGED <<lck, core, record, pc, cmd, f_core, history>>

(* set_field(): the whole wpkg-status is written from memory.              *)
WriteRecord(p) ==
    /\ pc[p] = "work" /\ p \in loaded
    /\ made < MaxUpdates
    /\ made' = made + 1
    /\ f_record' = [f_record EXCEPT ![p] = @ \cup {made + 1}]
    /\ record' = f_record'[p]
    /\ UNCHANGED <<lck, core, pc, cmd, f_core, loaded, died>>

(* unlock(): first the status, then the file.                              *)
UnlinkFirst(p) ==                       \* mutation: the file goes first
    /\ pc[p] = "work"
    /\ lck' = None
    /\ Goto(p, "ready")
    /\ UNCHANGED <<core, record, memory, history>>
Unlock(p) ==
    /\ pc[p] = "work"
    /\ Goto(p, "ready")
    /\ UNCHANGED <<lck, core, record, memory, history>>

UnlockSilent(p) ==                      \* mutation: the status stays
    /\ pc[p] = "ready"
    /\ Goto(p, "unlink")
    /\ UNCHANGED <<lck, core, record, memory, history>>
UnlockReady(p) ==
    /\ pc[p] = "ready"
    /\ SetCore(p, "Ready")
    /\ Goto(p, "unlink")
    /\ UNCHANGED <<lck, record, f_record, loaded, history>>

(* unlock() throws out of a destructor: the process is terminated.         *)
UnlockFails(p) ==
    /\ pc[p] = "ready"
    /\ Fault("core")
    /\ Exit(p)
    /\ died' = died \cup {p}
    /\ UNCHANGED <<lck, core, record, made>>

(* Whoever has made it since.                                              *)
UnlockFile(p) ==
    /\ pc[p] = "unlink"
    /\ lck' = None
    /\ Exit(p)
    /\ died' = died \ {lck}
    /\ UNCHANGED <<core, record, made>>

-----------------------------------------------------------------------------
(* set_selection() loads the package and writes it back, without the lock. *)

LoadSelected(p) ==
    /\ pc[p] = "select"
    /\ f_record' = [f_record EXCEPT ![p] = record]
    /\ loaded' = loaded \cup {p}
    /\ Goto(p, "save")
    /\ UNCHANGED <<lck, core, record, f_core, history>>

SaveSelection(p) ==
    /\ pc[p] = "save"
    /\ made < MaxUpdates
    /\ made' = made + 1
    /\ record' = f_record[p] \cup {made + 1}
    /\ Exit(p)
    /\ UNCHANGED <<lck, core, died>>

-----------------------------------------------------------------------------
(* remove_lock(), which an administrator only asks for when the process    *)
(* that made the lock is gone.                                             *)

Stale == lck # None /\ lck \notin Holders

StartRemover(p) ==
    /\ Stale
    /\ ManyRemovers \/ Removers = {}
    /\ Start(p, "unlock", "rm_unlink")

RemoveLock(p) ==
    /\ pc[p] = "rm_unlink"
    /\ lck' = None
    /\ Goto(p, "rm_load")
    /\ died' = died \ {lck}
    /\ UNCHANGED <<core, record, memory, made>>

RemoveLoad(p) ==
    /\ pc[p] = "rm_load"
    /\ LoadCore(p)
    /\ Goto(p, "rm_ready")
    /\ UNCHANGED <<lck, core, record, f_record, loaded, history>>

RemoveReady(p) ==
    /\ pc[p] = "rm_ready"
    /\ core' = "Ready"
    /\ Exit(p)
    /\ UNCHANGED <<lck, record, history>>

(* A process dies where it is.                                             *)
Crash(p) ==
    /\ pc[p] # "idle"
    /\ Fault(IF cmd[p] = "unlock" THEN "remover" ELSE "crash")
    /\ Exit(p)
    /\ died' = IF lck = p THEN died \cup {p} ELSE died
    /\ UNCHANGED <<lck, core, record, made>>

-----------------------------------------------------------------------------
Step(p) ==
    \/ UpgradeList(p)
    \/ OpenLock(p) \/ Locked(p)
    \/ LoadStatus(p) \/ LockFails(p) \/ TakeLock(p) \/ LeaveLock(p) \/ NotReady(p)
    \/ ReadRecord(p) \/ WriteRecord(p)
    \/ Unlock(p) \/ UnlockReady(p) \/ UnlockFails(p) \/ UnlockFile(p)
    \/ LoadSelected(p) \/ SaveSelection(p)
    \/ RemoveLock(p) \/ RemoveLoad(p) \/ RemoveReady(p)

Next ==
    \E p \in Process :
        \/ StartFile(p) \/ StartName(p) \/ StartCreate(p) \/ StartSelect(p)
        \/ StartRemover(p)
        \/ Step(p)
        \/ Crash(p)

(* Every process that was started runs.                                    *)
Spec == Init /\ [][Next]_vars /\ \A p \in Process : WF_vars(Step(p))

-----------------------------------------------------------------------------
(* What must hold.                                                         *)

(* Two commands never work on the database at the same time (lock, unlock, *)
(* remove_lock).                                                           *)
OneWorker ==
    \A p, q \in Process :
        pc[p] \in {"work", "ready"} /\ pc[q] \in {"work", "ready"} => p = q

(* No command undoes what another has written: the record a process saves  *)
(* holds every update made before (load_package, set_field).               *)
NoLostUpdate == [][record \subseteq record']_record

(* A process that is not running any more, did not die and was not asked   *)
(* to has left no lock (wpkgar_lock).                                      *)
LockReleased == lck # None => lck \in Holders \cup died

(* When nobody works and there is no lock the core package is Ready, so    *)
(* that the next command is not refused (unlock, remove_lock).             *)
RestsReady ==
    lck = None /\ (\A p \in Process : pc[p] \in {"idle", "list", "select", "save", "open"}) =>
        core = "Ready"

(* A command that marked the core package makes it Ready again, unless it  *)
(* dies (lock, unlock).                                                    *)
BackToReady == core # "Ready" ~> core = "Ready" \/ died # {}

(* A command is refused as not Ready only by a core package that is not    *)
(* (lock).                                                                 *)
RefusedForCause ==
    \A p \in Process : pc[p] = "check" /\ f_core[p] # "Ready" => core # "Ready"
===============================================================================

------------------------------- MODULE Removal -------------------------------
(***************************************************************************)
(* Commands that take several packages away: --remove, --purge,            *)
(* --deconfigure and --autoremove.  A command first decides which packages *)
(* go (wpkgar_remove::validate(): the packages it names, and with          *)
(* --recursive those that depend on them), then takes them one after the   *)
(* other (remove(), deconfigure()).  Package.tla has the steps of one      *)
(* package and the files they touch; here a package has a status and       *)
(* whether its files are on the target.                                    *)
(***************************************************************************)
CONSTANTS
    Package,   \* the packages of the database
    None,      \* no package
    World,     \* the databases a target may start from
    Command,   \* what the administrator may ask for
    Faults     \* what may fail: see FaultKinds

FaultKinds == {"script",   \* a prerm or postinst script of a package fails
               "hook",     \* a prerm hook of core, or a validation script
               "unlink",   \* a file or a configuration file cannot be deleted
               "crash"}    \* wpkg dies; the administrator removes the lock
Flags == {"recursive", "depends", "hold", "essentials", "purge"}
Names == {"remove", "purge", "deconfigure", "autoremove"}

Present   == {"installed", "unpacked"}
Half      == {"half_installed", "half_configured"}
Rest      == Present \cup {"config_files", "not_installed"}
Status    == Rest \cup Half \cup {"removing"}
Type      == {"none", "explicit", "removing", "implicit", "same",
              "installed", "unpacked", "configured"}

(* depends: the names in Depends and Pre-Depends of each package;          *)
(* self: the packages that hold wpkg itself.                               *)
Database ==
    [depends: [Package -> SUBSET Package], status: [Package -> Rest],
     required: SUBSET Package, essential: SUBSET Package,
     held: SUBSET Package, auto: SUBSET Package, self: SUBSET Package]

ASSUME NoneAssumption == None \notin Package
ASSUME WorldAssumption == World \subseteq Database
ASSUME CommandAssumption ==
    Command \subseteq [name: Names, packages: SUBSET Package, flags: SUBSET Flags]
ASSUME FaultAssumption == Faults \subseteq FaultKinds

VARIABLES
    db,       \* the fields of the packages
    status,   \* X-Status of each package
    files,    \* the packages whose files are on the target
    pc,       \* where the command is
    cmd,      \* the command
    targets,  \* the packages a wpkgar_remove object was asked to remove
    type,     \* the type of each package in its list
    original, \* the status of each package when it was loaded
    work,     \* package_indexes of validate_dependencies()
    left,     \* the packages not yet taken
    cur,      \* the one being taken
    errors,   \* whether an error was logged
    known,    \* autoremove(): the statuses it believes in
    excused   \* history: --force-depends was used or a package failed

list    == <<targets, type, original, work, left, cur>>
vars    == <<db, status, files, pc, cmd, list, errors, known, excused>>

Pc == {"idle", "load", "depends", "scripts", "apply", "prerm", "files", "postrm",
       "deconfigure", "conffiles", "auto"}

TypeOK ==
    /\ db \in Database
    /\ status \in [Package -> Status]
    /\ files \subseteq Package
    /\ pc \in Pc
    /\ cmd \in Command \cup {None}
    /\ pc # "idle" => cmd \in Command
    /\ targets \subseteq Package
    /\ type \in [Package -> Type]
    /\ original \in [Package -> Status]
    /\ work \subseteq Package /\ left \subseteq Package
    /\ cur \in Package \cup {None}
    /\ pc \in {"prerm", "files", "postrm", "deconfigure", "conffiles"} => cur \in Package
    /\ errors \in BOOLEAN /\ excused \in BOOLEAN
    /\ known \in [Package -> Status]

Init ==
    /\ db \in World
    /\ status = db.status
    /\ files = {p \in Package : db.status[p] \in Present}
    /\ pc = "idle" /\ cmd = None
    /\ targets = {} /\ type = [p \in Package |-> "none"]
    /\ original = db.status
    /\ work = {} /\ left = {} /\ cur = None
    /\ errors = FALSE /\ excused = FALSE
    /\ known = db.status

Fault(kind) == kind \in Faults

(* autoremove() gives its wpkgar_remove objects no parameter.              *)
Autoremoving == cmd.name = "autoremove"
Flag(f) == f \in cmd.flags /\ ~Autoremoving
Purging == cmd.name = "purge" \/ (Autoremoving /\ "purge" \in cmd.flags)
Deconfiguring == cmd.name = "deconfigure"

Marked == {p \in Package : type[p] \in {"removing", "implicit"}}

-----------------------------------------------------------------------------
(* The command begins; remove() and the others build one list, autoremove()*)
(* reads every status and builds a list for each package it takes.         *)
Start(c) ==
    /\ pc = "idle"
    /\ cmd' = c
    /\ targets' = c.packages
    /\ known' = status
    /\ pc' = IF c.name = "autoremove" THEN "auto" ELSE "load"
    /\ errors' = FALSE
    /\ excused' = (excused \/ (c.name # "autoremove" /\ "depends" \in c.flags))
    /\ UNCHANGED <<db, status, files, type, original, work, left, cur>>

(* can_package_be_removed() says no.                                       *)
ProtectedFlags(p, cannot_force) ==      \* mutation: cannot_force ignored
    \/ p \in db.required
    \/ p \in db.essential /\ ~Flag("essentials")
    \/ p \in db.held /\ ~Flag("hold")
Protected(p, cannot_force) ==
    \/ p \in db.required
    \/ p \in db.essential /\ (cannot_force \/ ~Flag("essentials"))
    \/ p \in db.held /\ (cannot_force \/ ~Flag("hold"))

(* What validate_installed_packages() makes of a package of the command    *)
(* line: "explicit" stays when the package cannot be worked on.            *)
ExplicitType(p) ==
    LET works == \/ status[p] \in Half \cup {"installed"}
                 \/ status[p] = "unpacked" /\ ~Deconfiguring
                 \/ status[p] = "config_files" /\ (Deconfiguring \/ Purging)
        same  == status[p] \in {"unpacked", "config_files"} /\ ~works
    IN  IF works THEN "removing" ELSE IF same THEN "same" ELSE "explicit"

OtherType(p) ==
    CASE status[p] \in Present          -> status[p]
      [] status[p] = "config_files"     -> "configured"
      [] status[p] \notin Present \cup {"config_files"} -> "none"

(* The errors of the validate_...() functions before the dependencies.     *)
Refused ==
    \/ \E p \in Package : status[p] = "removing"
    \/ \E p \in Package \ targets : status[p] \in Half
    \/ \E p \in targets :
          \/ ExplicitType(p) = "explicit"
          \/ status[p] \in Half /\ Deconfiguring
          \/ ExplicitType(p) = "removing" /\ Protected(p, FALSE)

Load ==
    /\ pc = "load"
    /\ ~(Flag("depends") /\ Flag("recursive"))
    /\ type' = [p \in Package |-> IF p \in targets THEN ExplicitType(p) ELSE OtherType(p)]
    /\ original' = status
    /\ work' = {p \in targets : ExplicitType(p) = "removing"}
    /\ errors' = (errors \/ Refused)
    /\ pc' = "depends"
    /\ UNCHANGED <<db, status, files, cmd, targets, left, cur, known, excused>>

(* The installed packages, not yet to be removed, that name p in their     *)
(* dependencies.                                                           *)
DependentsInstalled(p) ==               \* mutation: unpacked packages forgotten
    {q \in Package \ {p} : type[q] = "installed" /\ p \in db.depends[q]}
Dependents(p) ==
    {q \in Package \ {p} : type[q] \in Present /\ p \in db.depends[q]}

CheckDependentsOnce(p) ==               \* mutation: a new mark is not followed
    /\ pc = "depends" /\ p \in work
    /\ LET found == IF Flag("depends") THEN {} ELSE Dependents(p)
           stays == {q \in found : ~Flag("recursive") \/ Protected(q, TRUE)}
           goes  == found \ stays
       IN /\ type' = [q \in Package |-> IF q \in goes THEN "implicit" ELSE type[q]]
          /\ work' = work \ {p}
          /\ errors' = (errors \/ stays # {})
    /\ UNCHANGED <<db, status, files, pc, cmd, targets, original, left, cur, known,
                   excused>>
CheckDependentsAgain(p) ==              \* mutation: a cycle is walked for ever
    /\ pc = "depends" /\ p \in work
    /\ LET found == IF Flag("depends") THEN {} ELSE Dependents(p)
           stays == {q \in found : ~Flag("recursive") \/ Protected(q, TRUE)}
           goes  == found \ stays
       IN /\ type' = [q \in Package |-> IF q \in goes THEN "implicit" ELSE type[q]]
          /\ work' = (work \ {p}) \cup {q \in Package : p \in db.depends[q]}
          /\ errors' = (errors \/ stays # {})
    /\ UNCHANGED <<db, status, files, pc, cmd, targets, original, left, cur, known,
                   excused>>
(* validate_dependencies(): one package of package_indexes.                *)
CheckDependents(p) ==
    /\ pc = "depends" /\ p \in work
    /\ LET found == IF Flag("depends") THEN {} ELSE Dependents(p)
           stays == {q \in found : ~Flag("recursive") \/ Protected(q, TRUE)}
           goes  == found \ stays
       IN /\ type' = [q \in Package |-> IF q \in goes THEN "implicit" ELSE type[q]]
          /\ work' = (work \ {p}) \cup goes
          /\ errors' = (errors \/ stays # {})
    /\ UNCHANGED <<db, status, files, pc, cmd, targets, original, left, cur, known,
                   excused>>

DependenciesChecked ==
    /\ pc = "depends" /\ work = {}
    /\ pc' = "scripts"
    /\ UNCHANGED <<db, status, files, cmd, list, errors, known, excused>>

-----------------------------------------------------------------------------
(* The command ends.                                                       *)
Finish ==
    /\ pc' = "idle" /\ cmd' = None
    /\ targets' = {} /\ type' = [p \in Package |-> "none"]
    /\ work' = {} /\ left' = {} /\ cur' = None
    /\ original' = status' /\ known' = status'

(* autoremove() goes on: unless there was an error it believes that the    *)
(* package is gone.                                                        *)
EndCandidate ==
    /\ pc' = "auto"
    /\ known' = [p \in Package |-> IF p \in targets /\ ~errors' THEN "not_installed"
                                   ELSE known[p]]
    /\ targets' = {} /\ type' = [p \in Package |-> "none"]
    /\ work' = {} /\ left' = {} /\ cur' = None
    /\ UNCHANGED <<cmd, original>>

(* The wpkgar_remove object ends, and the command unless it is autoremove. *)
EndList == (Autoremoving /\ EndCandidate) \/ (~Autoremoving /\ Finish)

(* An exception ends the command; wpkg logs it as a fatal error.           *)
Throw ==
    /\ Finish
    /\ errors' = TRUE

(* --force-depends and --recursive exclude each other.                     *)
BadFlags ==
    /\ pc = "load"
    /\ Flag("depends") /\ Flag("recursive")
    /\ UNCHANGED <<db, status, files, excused>>
    /\ Throw

(* The packages of the command line must not hold wpkg itself.             *)
IncludesSelf == ~Autoremoving /\ \E p \in targets \cap db.self : type[p] = "removing"

Validated ==
    /\ pc = "scripts" /\ ~errors /\ ~IncludesSelf
    /\ left' = Marked
    /\ pc' = "apply"
    /\ UNCHANGED <<db, status, files, cmd, targets, type, original, work, cur, errors,
                   known, excused>>

(* The validation logged an error or a validation script does.             *)
Invalid ==
    /\ pc = "scripts"
    /\ errors \/ IncludesSelf \/ Fault("hook")
    /\ errors' = TRUE
    /\ UNCHANGED <<db, status, files, excused>>
    /\ EndList

-----------------------------------------------------------------------------
(* The list has the packages of the command line first.                    *)
IsNext(p) ==
    /\ p \in left
    /\ type[p] = "removing" \/ \A q \in left : type[q] # "removing"

(* prerm_scripts(): the status while the scripts run; the other statuses   *)
(* are kept and no script is run.                                          *)
HalfStatus(p) ==
    CASE status[p] \in Present      -> "half_installed"
      [] status[p] = "config_files" -> "half_configured"
      [] OTHER                      -> status[p]

Take(p, label) ==
    /\ pc = "apply"
    /\ cur' = p
    /\ left' = left \ {p}
    /\ status' = [status EXCEPT ![p] = HalfStatus(p)]
    /\ pc' = label
    /\ UNCHANGED <<db, files, cmd, targets, type, original, work, errors, known, excused>>

StartRemove(p)      == ~Deconfiguring /\ IsNext(p) /\ Take(p, "prerm")
StartDeconfigure(p) == Deconfiguring /\ IsNext(p) /\ Take(p, "conffiles")

(* The prerm scripts were run for cur: its status was one they are for.    *)
ScriptsRun == status[cur] \in Half /\ original[cur] \notin Half

PrermDone ==
    /\ pc = "prerm"
    /\ status' = [status EXCEPT ![cur] = "removing"]
    /\ pc' = "files"
    /\ UNCHANGED <<db, files, cmd, list, errors, known, excused>>

(* The prerm script fails: a warning, and the status is restored when the  *)
(* postinst script agrees.  remove() and deconfigure() then give up.       *)
PrermFails ==
    /\ pc \in {"prerm", "conffiles"} /\ Fault("script") /\ ScriptsRun
    /\ \E restored \in BOOLEAN :
          status' = [status EXCEPT ![cur] = IF restored THEN original[cur] ELSE @]
    /\ excused' = TRUE
    /\ UNCHANGED errors
    /\ EndList
    /\ UNCHANGED <<db, files>>

(* The prerm hook of core fails: an error, and nothing is restored.        *)
HookFails ==
    /\ pc \in {"prerm", "conffiles"} /\ Fault("hook") /\ ScriptsRun
    /\ errors' = TRUE /\ excused' = TRUE
    /\ UNCHANGED <<db, status, files>>
    /\ EndList

RemoveFiles ==
    /\ pc = "files"
    /\ files' = files \ {cur}
    /\ status' = [status EXCEPT ![cur] = "half_installed"]
    /\ pc' = "postrm"
    /\ UNCHANGED <<db, cmd, list, errors, known, excused>>

(* A file cannot be deleted: the backup puts the others back.              *)
RemoveThrows ==
    /\ pc = "files" /\ Fault("unlink")
    /\ status' = [status EXCEPT ![cur] = "half_installed"]
    /\ excused' = TRUE
    /\ Throw
    /\ UNCHANGED <<db, files>>

(* The end of do_remove(); --purge goes on with the configuration files.   *)
FinishRemove ==
    LET final == IF original[cur] \in {"unpacked", "not_installed"}
                 THEN "not_installed" ELSE "config_files"
    IN
    /\ pc = "postrm"
    /\ status' = [status EXCEPT ![cur] = final]
    /\ original' = [original EXCEPT ![cur] = final]
    /\ pc' = IF Purging THEN "deconfigure" ELSE "apply"
    /\ UNCHANGED <<db, files, cmd, targets, type, work, left, cur, errors, known, excused>>

(* purge(): deconfigure() of the package just removed.                     *)
PurgeConffiles ==
    /\ pc = "deconfigure"
    /\ status' = [status EXCEPT ![cur] = HalfStatus(cur)]
    /\ pc' = "conffiles"
    /\ UNCHANGED <<db, files, cmd, list, errors, known, excused>>

(* The end of deconfigure_package(): only a package that was installed     *)
(* goes back to unpacked.                                                  *)
FinishDeconfigure ==
    /\ pc = "conffiles"
    /\ status' = [status EXCEPT ![cur] =
                     IF original[cur] = "installed" THEN "unpacked" ELSE "not_installed"]
    /\ pc' = "apply"
    /\ UNCHANGED <<db, files, cmd, list, errors, known, excused>>

DeconfigureThrows ==
    /\ pc = "conffiles" /\ Fault("unlink")
    /\ status' = [status EXCEPT ![cur] = "half_configured"]
    /\ excused' = TRUE
    /\ Throw
    /\ UNCHANGED <<db, files>>

ApplyDone ==
    /\ pc = "apply" /\ left = {}
    /\ UNCHANGED errors
    /\ UNCHANGED <<db, status, files, excused>>
    /\ EndList

-----------------------------------------------------------------------------
(* autoremove(): nobody needs the package, as far as it knows.             *)
UnneededByAny(p, statuses) ==           \* mutation: Config-Files packages need it
    \A q \in Package \ {p} :
        statuses[q] # "not_installed" => p \notin db.depends[q]
Unneeded(p, statuses) ==
    \A q \in Package \ {p} :
        statuses[q] \in Present \cup Half => p \notin db.depends[q]

AutoCandidate(p, statuses) ==
    /\ p \in db.auto \ db.self
    /\ \/ statuses[p] = "config_files" /\ Purging
       \/ /\ statuses[p] \in Present
          /\ p \notin db.essential \cup db.required
          /\ Unneeded(p, statuses)

AutoPick(p) ==
    /\ pc = "auto" /\ ~errors
    /\ AutoCandidate(p, known)
    /\ targets' = {p}
    /\ pc' = "load"
    /\ UNCHANGED <<db, status, files, cmd, type, original, work, left, cur, errors, known,
                   excused>>

AutoDone ==
    /\ pc = "auto"
    /\ errors \/ \A p \in Package : ~AutoCandidate(p, known)
    /\ UNCHANGED <<db, status, files, errors, excused>>
    /\ Finish

-----------------------------------------------------------------------------
Crash ==
    /\ pc # "idle" /\ Fault("crash")
    /\ excused' = TRUE
    /\ UNCHANGED <<db, status, files>>
    /\ Throw

Validate ==
    Load \/ BadFlags \/ (\E p \in work : CheckDependents(p)) \/ DependenciesChecked
      \/ Validated \/ Invalid

TakeOne == \E p \in left : StartRemove(p) \/ StartDeconfigure(p)

Apply ==
    TakeOne \/ PrermDone \/ PrermFails \/ HookFails \/ RemoveFiles \/ RemoveThrows
      \/ FinishRemove \/ PurgeConffiles \/ FinishDeconfigure \/ DeconfigureThrows
      \/ ApplyDone

Autoremove == (\E p \in Package : AutoPick(p)) \/ AutoDone

Work == Validate \/ Apply \/ Autoremove

Next == (\E c \in Command : Start(c)) \/ Work \/ Crash

Spec == Init /\ [][Next]_vars
(* A command that runs goes on: it waits for nobody but its own scripts.   *)
FairSpec == Spec /\ WF_vars(Work)
-----------------------------------------------------------------------------
(* Properties.                                                             *)

Whole(statuses) ==
    \A p \in Package : statuses[p] \in Present =>
        \A q \in db.depends[p] : statuses[q] \in Present

(* Once a command ended, the dependencies of every package that is still   *)
(* there are there too, unless the administrator forced it or a package    *)
(* could not be taken: validate() found everybody who needed what went.    *)
TreeKept == pc = "idle" /\ ~excused => Whole(status)

(* The same whatever failed: the order in which packages are taken keeps   *)
(* the dependencies of those not taken yet.                                *)
TreeAlwaysKept == pc = "idle" => Whole(status)

(* With --recursive, the packages that go are exactly those of the command *)
(* line that can, those that depend on them, those that depend on these... *)
Closed(S) == \A p \in S : \A q \in Package :
    q # p /\ original[q] \in Present /\ p \in db.depends[q] => q \in S \/ type[q] = "same"
PlanIsClosure ==
    pc = "scripts" /\ ~errors /\ ~Flag("depends") =>
        LET asked == {p \in targets : type[p] = "removing"}
            inTime == {S \in SUBSET Package : asked \subseteq S /\ Closed(S)}
        IN  Marked \in inTime /\ \A S \in inTime : Marked \subseteq S

(* A required package is never touched, and an essential package or one on *)
(* hold only when the command line names it and forces it: --recursive and *)
(* --autoremove never take one.                                            *)
Spared ==
    db.required
      \cup {p \in db.essential : ~(p \in targets /\ Flag("essentials"))}
      \cup {p \in db.held : ~(p \in targets /\ Flag("hold"))}
ProtectedStays ==
    [][pc \notin {"idle", "load"} => \A p \in Spared : status'[p] = status[p]]_vars

(* --autoremove never takes the files of a package that somebody on the    *)
(* target depends on, even when it believes a package gone that is not.    *)
AutoremoveSafe ==
    [][pc = "files" /\ Autoremoving =>
         \A q \in Package \ {cur} : status[q] \in Present => cur \notin db.depends[q]]_vars

(* When nothing failed, every package --autoremove leaves that was only    *)
(* installed for others is protected, holds wpkg or is still needed.       *)
AutoremoveComplete ==
    [][pc = "auto" /\ pc' = "idle" /\ ~errors' /\ ~excused' =>
         \A p \in db.auto : status[p] \in Present =>
             \/ p \in db.self \cup db.essential \cup db.required
             \/ \E q \in Package : status[q] \in Present /\ p \in db.depends[q]]_vars

(* --autoremove takes all that nobody needs any more, and nothing else     *)
(* (wpkgar_remove::autoremove).                                            *)
AutoremoveExact == AutoremoveSafe /\ AutoremoveComplete

(* A package that is not installed has no file on the target.              *)
NotInstalledHasNoFiles == \A p \in files : status[p] # "not_installed"

(* wpkg never removes the package it comes from.                           *)
SelfStays == \A p \in db.self : db.status[p] = "installed" => status[p] = "installed"

(* A package that wpkg died on can be removed to repair the target.        *)
RepairAccepted ==
    [][pc = "load" /\ (\A p \in Package : status[p] = "removing" => p \in targets)
         /\ (\A p \in targets : status[p] = "removing" /\ ~Protected(p, FALSE))
         => ~errors']_vars

(* A command that gives up says so.                                        *)
FailureReported ==
    [][pc \notin {"idle", "auto"} /\ pc' = "idle" /\ left # {} => errors']_vars

(* Every command ends.                                                     *)
RemovalEnds == pc # "idle" ~> pc = "idle"
==============================================================================

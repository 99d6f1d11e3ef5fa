------------------------------- MODULE Journal -------------------------------
(***************************************************************************)
(* The journal of a wpkgar_tracker and its rollback.  Before install,      *)
(* remove and their like change a package they append the command that     *)
(* undoes the change; rollback() runs these commands, the last one first:  *)
(* in a process of its own (wpkg --rollback), or at the end of the process *)
(* that built a source package (wpkg --build).  A package is its status    *)
(* and its version here; Package.tla and Removal.tla have the steps of the *)
(* commands, of which this module keeps those a crash or a failure tells   *)
(* apart in the journal.                                                   *)
(***************************************************************************)
EXTENDS Naturals, Sequences

CONSTANTS
    Package,
    None,      \* no package
    Needs,     \* the packages that each package depends on
    Source,    \* the packages whose archive the rollback can find: the names
               \* it is given lack a "_" for any architecture but "src"
    Start,     \* the targets a session may start from: see Target
    Command,   \* what a session may do
    Limit,     \* bound: the number of commands of a session
    Faults     \* what may fail: see FaultKinds

FaultKinds == {"script",  \* a script makes a step of the session fail
               "undo",    \* a prerm script makes a step of the rollback fail
               "crash"}   \* wpkg dies in the session
Names    == {"install", "unpack", "configure", "deconfigure", "remove", "purge", "build"}
Present  == {"installed", "unpacked"}
Gone     == {"absent", "not_installed", "config_files"}
Half     == {"half_installed", "half_configured"}
Busy     == {"unpacking", "removing"}
Status   == Present \cup Gone \cup Half \cup Busy
Versions == {1, 2}
Target   == [status: [Package -> Present \cup Gone], version: [Package -> Versions]]
Undo     == {"purge", "downgrade", "deconfigure", "configure", "install", "unpack"}
Failed   == [undo |-> "failed", package |-> None, version |-> 1]
Lines    == [undo: Undo, package: Package, version: Versions] \cup {Failed}

ASSUME NoneAssumption == None \notin Package
ASSUME NeedsAssumption == Needs \in [Package -> SUBSET Package] /\ Source \subseteq Package
ASSUME StartAssumption == Start \subseteq Target
ASSUME CommandAssumption == Command \subseteq [name: Names, packages: SUBSET Package]
ASSUME LimitAssumption == Limit \in Nat \ {0}
ASSUME FaultAssumption == Faults \subseteq FaultKinds

VARIABLES
    status, version,
    journal,   \* the lines of the file, in the rollback those not yet run
    listed,    \* f_installed_packages of the manager of this process
    errors,    \* the error count of this process is not 0
    pc, cmd,   \* where the session is, and its command
    todo, cur, \* the packages not yet worked on, and the one that is
    original,  \* its status when it was loaded
    count,     \* how many commands the session ran
    start,     \* history: the target when the journal was empty
    plain,     \* history: no command touched but what it installed or deconfigured
    marred     \* history: whether a step of the session, or of the rollback, failed

target  == <<status, version>>
session == <<cmd, todo, cur, original, count, start, plain>>
vars    == <<target, journal, listed, errors, pc, session, marred>>

Pc == {"idle", "next", "pretrack", "preconfigure", "unpack", "extract", "configure",
       "track", "postinst", "remove", "files", "deconfigure", "rollback", "done"}

TypeOK ==
    /\ status \in [Package -> Status] /\ version \in [Package -> Versions]
    /\ journal \in Seq(Lines)
    /\ listed \subseteq Package
    /\ errors \in BOOLEAN /\ plain \in BOOLEAN /\ marred \subseteq {"session", "rollback"}
    /\ pc \in Pc
    /\ cmd \in Command \cup {None}
    /\ todo \subseteq Package /\ cur \in Package \cup {None} /\ original \in Status
    /\ pc \in Pc \ {"idle", "next", "rollback", "done"} => cur \in Package
    /\ count \in 0..Limit
    /\ start \in Start

Recorded == {p \in Package : status[p] # "absent"}

Init ==
    /\ start \in Start
    /\ status = start.status /\ version = start.version
    /\ journal = <<>> /\ listed = {} /\ errors = FALSE
    /\ pc = "idle" /\ cmd = None
    /\ todo = {} /\ cur = None /\ original = "absent" /\ count = 0
    /\ plain = TRUE /\ marred = {}

Fault(kind) == kind \in Faults
Building == cmd # None /\ cmd.name = "build"
Installing == cmd.name \in {"install", "build"}

(* A process that lists the packages finds the list of its first call,     *)
(* unless that one was empty.                                              *)
ListedNow == IF listed = {} THEN Recorded ELSE listed

-----------------------------------------------------------------------------
(* The session.  A command whose validation fails changes nothing and is   *)
(* left out: these are the conditions it puts on the packages.             *)
Quiet(S) == \A p \in Package \ S : status[p] \notin Half \cup Busy
Dependents(p) == {q \in Package \ {p} : status[q] \in Present /\ p \in Needs[q]}
Accepted(c) ==
    LET S == c.packages IN
    CASE c.name \in {"install", "unpack", "build"} ->
            /\ Quiet({})
            /\ \A p \in S : Needs[p] \subseteq S \cup {q \in Package : status[q] = "installed"}
      [] c.name = "configure" -> Quiet({}) /\ \A p \in S : status[p] = "unpacked"
      [] c.name = "deconfigure" ->
            /\ Quiet({})
            /\ \A p \in S : status[p] = "installed" /\ Dependents(p) \subseteq S
      [] c.name \in {"remove", "purge"} ->
            /\ Quiet(S)
            /\ \A p \in S : /\ status[p] \in Present \cup Half
                            /\ Dependents(p) \subseteq S

Fresh(c) ==
    c.name = "install" /\ \A p \in c.packages : status[p] \in Gone

(* A new process, whose manager has listed nothing and logged nothing.     *)
Begin(c) ==
    /\ pc = "idle" /\ count < Limit
    /\ Accepted(c)
    /\ cmd' = c /\ todo' = c.packages /\ count' = count + 1
    /\ listed' = Recorded /\ errors' = FALSE
    /\ pc' = "next"
    /\ plain' = (plain /\ (c.name = "deconfigure" \/ Fresh(c)))
    /\ UNCHANGED <<target, journal, cur, original, start, marred>>

track(undo, p) ==
    journal' = Append(journal, [undo |-> undo, package |-> p, version |-> version[p]])

Set(p, s) == status' = [status EXCEPT ![p] = s]

(* The dependencies first when installing, and when configuring the order  *)
(* of the command line, which is taken to be the same one.                 *)
IsNext(p) == p \in todo /\ IF cmd.name \in {"remove", "purge", "deconfigure"}
                           THEN Dependents(p) \cap todo = {}
                           ELSE Needs[p] \cap todo \subseteq {p}

Take(p, label) ==
    /\ pc = "next" /\ IsNext(p)
    /\ cur' = p /\ todo' = todo \ {p} /\ original' = status[p]
    /\ pc' = label
    /\ UNCHANGED <<target, listed, errors, cmd, count, start, plain, marred>>

(* unpack() and remove() append the line, then change the package.         *)
TakeUnpackLate(p) ==                    \* mutation: the line is not written
    /\ cmd.name \in {"install", "build", "unpack"}
    /\ ~Installing \/ status[p] # "unpacked"
    /\ UNCHANGED journal
    /\ Take(p, "unpack")
TakeUnpack(p) ==
    /\ cmd.name \in {"install", "build", "unpack"}
    /\ ~Installing \/ status[p] # "unpacked"
    /\ track(IF status[p] \in Present THEN "downgrade" ELSE "purge", p)
    /\ Take(p, "unpack")

(* pre_configure(), with --force-configure-any.                            *)
TakePreconfigure(p) ==
    /\ cmd.name = "install" /\ status[p] = "unpacked"
    /\ track("deconfigure", p)
    /\ Take(p, "preconfigure")

TakeConfigure(p) ==
    /\ cmd.name = "configure"
    /\ Take(p, "configure")
    /\ UNCHANGED journal

(* remove() always journals "unpack": nothing ever marks its packages as   *)
(* configured.                                                             *)
TakeRemove(p) ==
    /\ cmd.name \in {"remove", "purge"}
    /\ track("unpack", p)
    /\ Take(p, "remove")

TakeDeconfigure(p) ==
    /\ cmd.name = "deconfigure"
    /\ track("configure", p)
    /\ Take(p, "deconfigure")

Step(label) ==
    /\ pc' = label
    /\ UNCHANGED <<listed, errors, session, marred>>

StartUnpack ==
    /\ pc = "unpack"
    /\ Set(cur, "unpacking")
    /\ UNCHANGED <<version, journal>>
    /\ Step("extract")

(* An upgrade brings version 2; --unpack stops before the configuration.   *)
Unpacked ==
    /\ pc = "extract"
    /\ Set(cur, "unpacked")
    /\ version' = [version EXCEPT ![cur] = IF original \in Present THEN 2 ELSE @]
    /\ UNCHANGED journal
    /\ Step(IF Installing THEN "configure" ELSE "next")

(* configure_package() sets the status before it appends the line.         *)
StartConfigure ==
    /\ pc \in {"configure", "preconfigure"}
    /\ Set(cur, "half_configured")
    /\ UNCHANGED <<version, journal>>
    /\ Step("track")

TrackConfigure ==
    /\ pc = "track"
    /\ track("deconfigure", cur)
    /\ UNCHANGED target
    /\ Step("postinst")

Configured ==
    /\ pc = "postinst"
    /\ Set(cur, "installed")
    /\ UNCHANGED <<version, journal>>
    /\ Step("next")

(* prerm_scripts() and do_remove() set one status after the other.         *)
StartRemove ==
    /\ pc = "remove"
    /\ \E s \in {"half_installed", "removing"} : Set(cur, s)
    /\ UNCHANGED <<version, journal>>
    /\ Step("files")

Removed ==
    /\ pc = "files"
    /\ Set(cur, IF cmd.name = "purge" \/ original = "unpacked" THEN "not_installed"
                ELSE "config_files")
    /\ UNCHANGED <<version, journal>>
    /\ Step("next")

Deconfigured ==
    /\ pc = "deconfigure"
    /\ Set(cur, "unpacked")
    /\ UNCHANGED <<version, journal>>
    /\ Step("next")

(* The command is over: the process of a build goes on with the rollback,  *)
(* whether what it built was built or not.                                 *)
Over ==
    /\ todo' = {} /\ cur' = None /\ original' = "absent"
    /\ IF Building THEN pc' = "rollback" /\ cmd' = cmd ELSE pc' = "idle" /\ cmd' = None
    /\ UNCHANGED <<version, listed, count, start, plain>>

CommandDone ==
    /\ pc = "next" /\ todo = {}
    /\ Over
    /\ \/ UNCHANGED <<errors, marred>>
       \/ Building /\ Fault("script") /\ errors' = TRUE /\ marred' = {"session"}
    /\ UNCHANGED <<status, journal>>

Stop ==
    /\ Fault("script")
    /\ marred' = marred \cup {"session"}
    /\ Over

(* The scripts that cancel an unpack put the old status back, or not.      *)
UnpackFails ==
    /\ pc = "extract"
    /\ \E s \in {original, "half_installed"} :
          Set(cur, IF s = "absent" THEN "not_installed" ELSE s)
    /\ errors' = TRUE
    /\ UNCHANGED journal
    /\ Stop

(* The postinst script fails: pre_configure() then appends one more line.  *)
ConfigureFails ==
    /\ pc = "postinst"
    /\ errors' = TRUE
    /\ journal' = IF cmd.name = "install" /\ original = "unpacked"
                  THEN Append(journal, Failed) ELSE journal
    /\ UNCHANGED status
    /\ Stop

(* The prerm script fails: a warning, and the old status may be back.      *)
RemoveFails ==
    /\ pc \in {"files", "deconfigure"}
    /\ \E s \in {original, "half_installed"} : Set(cur, s)
    /\ UNCHANGED <<errors, journal>>
    /\ Stop

(* wpkg dies.  The journal of a build is not asked for any more.           *)
Crash ==
    /\ pc \notin {"idle", "rollback", "done"} /\ Fault("crash") /\ ~Building
    /\ marred' = marred \cup {"session"}
    /\ UNCHANGED <<errors, journal, status>>
    /\ Over

-----------------------------------------------------------------------------
(* wpkg --rollback: a new process, with a manager of its own.              *)
StartRollback ==
    /\ pc = "idle" /\ journal # <<>>
    /\ listed' = {} /\ errors' = FALSE
    /\ pc' = "rollback"
    /\ UNCHANGED <<target, journal, session, marred>>

(* rollback() reads the file: the line "failed" has no space, so that it   *)
(* is taken for a command without its parameter and nothing is run.        *)
HasFailedLine == \E i \in DOMAIN journal : journal[i] = Failed

ParseFails ==
    /\ pc = "rollback" /\ HasFailedLine
    /\ errors' = TRUE
    /\ pc' = "done"
    /\ UNCHANGED <<target, journal, listed, session, marred>>

(* What wpkgar_install::validate() and wpkgar_remove::validate() ask of    *)
(* the package of a line.                                                  *)
QuietBut(p) == /\ \A q \in Package : status[q] \notin Busy
               /\ \A q \in Package \ {p} : status[q] \notin Half
Restorable(l) ==
    /\ l.package \in Source
    /\ Quiet({})
    /\ status[l.package] \in Gone \cup {"installed"}
    /\ \/ status[l.package] \in Gone
       \/ l.version >= version[l.package]
       \/ l.undo = "downgrade"
    /\ \A q \in Needs[l.package] : status[q] = "installed"
Removable(l) ==
    LET s == status[l.package] IN
    /\ l.package \in ListedNow
    /\ QuietBut(l.package)
    /\ s \in Present \cup {"config_files"} \/ (s \in Half /\ l.undo = "purge")
    /\ Dependents(l.package) = {} \/ (s = "unpacked" /\ l.undo = "deconfigure")
Valid(l) ==
    /\ ~errors
    /\ CASE l.undo \in {"purge", "deconfigure"} -> Removable(l)
         [] l.undo = "configure" -> Quiet({}) /\ status[l.package] \in Present
         [] l.undo \in {"install", "unpack", "downgrade"} -> Restorable(l)

(* The status run_purge() and its like leave.                              *)
Undone(l) ==
    CASE l.undo = "purge" -> "not_installed"
      [] l.undo = "deconfigure" ->
            IF status[l.package] = "config_files" THEN "not_installed" ELSE "unpacked"
      [] l.undo = "unpack" -> "unpacked"
      [] l.undo \in {"configure", "install", "downgrade"} -> "installed"

LastLineForward == journal[1]           \* mutation: the journal is run forward
LastLine == journal[Len(journal)]
OthersAll == journal                    \* mutation: the line is not done with
Others == SubSeq(journal, 1, Len(journal) - 1)

(* One line, the last of those left.  A validation that fails is an error, *)
(* and with one error no validation succeeds any more.                     *)
Running ==
    /\ pc = "rollback" /\ journal # <<>> /\ ~HasFailedLine
    /\ listed' = ListedNow
    /\ UNCHANGED <<pc, session>>

RunLine ==
    LET l == LastLine IN
    /\ Running
    /\ Valid(l)
    /\ Set(l.package, Undone(l))
    /\ version' = [version EXCEPT ![l.package] =
                      IF l.undo \in {"install", "unpack", "downgrade"} THEN l.version ELSE @]
    /\ journal' = Others
    /\ UNCHANGED <<errors, marred>>

SkipLine ==
    /\ Running
    /\ ~Valid(LastLine)
    /\ errors' = TRUE
    /\ journal' = Others
    /\ UNCHANGED <<target, marred>>

(* The prerm script of a package to remove fails: a warning, and the next  *)
(* line is run.                                                            *)
LineFails ==
    LET p == LastLine.package IN
    /\ Running /\ Fault("undo")
    /\ LastLine.undo \in {"purge", "deconfigure"}
    /\ Valid(LastLine) /\ status[p] \in Present
    /\ \E s \in {status[p], "half_installed"} : Set(p, s)
    /\ marred' = marred \cup {"rollback"}
    /\ journal' = Others
    /\ UNCHANGED <<version, errors>>

RollbackDone ==
    /\ pc = "rollback" /\ journal = <<>>
    /\ pc' = "done"
    /\ UNCHANGED <<target, journal, listed, errors, session, marred>>

Rollback == ParseFails \/ RunLine \/ SkipLine \/ LineFails \/ RollbackDone

-----------------------------------------------------------------------------
TakeOne ==
    \E p \in todo : TakeUnpack(p) \/ TakePreconfigure(p) \/ TakeConfigure(p)
                       \/ TakeRemove(p) \/ TakeDeconfigure(p)

Session ==
    TakeOne \/ StartUnpack \/ Unpacked \/ StartConfigure \/ TrackConfigure \/ Configured
      \/ StartRemove \/ Removed \/ Deconfigured \/ CommandDone
      \/ UnpackFails \/ ConfigureFails \/ RemoveFails

Next == (\E c \in Command : Begin(c)) \/ Session \/ Crash \/ StartRollback \/ Rollback

Spec == Init /\ [][Next]_vars
(* A command and a rollback go on until they are done.                     *)
FairSpec == Spec /\ WF_vars(Session) /\ WF_vars(Rollback)
-----------------------------------------------------------------------------
(* Properties.                                                             *)

(* What rollback() can restore: it purges what was not installed, and with *)
(* it the configuration files an earlier installation had left.            *)
Same(p) ==
    \/ status[p] \in {"absent", "not_installed"} /\ start.status[p] \in Gone
    \/ status[p] = start.status[p]
          /\ (status[p] \in Present => version[p] = start.version[p])
Restored == \A p \in Package : Same(p)

(* The journal is written ahead: whenever a package is not what it was,    *)
(* the journal has a line for it, but for one that was unpacked and is in  *)
(* the hands of --configure, or died there.                                *)
Journaled(p) == \E i \in DOMAIN journal : journal[i].package = p
WriteAhead ==
    pc \notin {"rollback", "done"} =>
        \A p \in Package :
            \/ Same(p) \/ Journaled(p)
            \/ status[p] = "half_configured" /\ start.status[p] = "unpacked"

(* The same at every step, for a crash may come after any.                 *)
WriteAheadAlways ==
    pc \notin {"rollback", "done"} => \A p \in Package : Same(p) \/ Journaled(p)

(* What was removed comes back unpacked, whatever it was, if its archive   *)
(* is there at all: see TakeRemove.                                        *)
LeftUnpacked(p) ==
    /\ p \in Source
    /\ start.status[p] = "installed" /\ status[p] = "unpacked"
    /\ version[p] = start.version[p]

(* A rollback that says nothing restored every package, whatever the       *)
(* session did, failed at or died from, up to the configuration of what it *)
(* removed: an undo command that cannot do its part is an error.  A prerm  *)
(* script that fails in the rollback is not.                               *)
RestoredUnlessReported ==
    pc = "done" /\ ~errors /\ "rollback" \notin marred =>
        \A p \in Package : Same(p) \/ LeftUnpacked(p)

(* A session that went well and only installed packages that were not      *)
(* there, or deconfigured packages, is undone without an error.            *)
PlainUndone == pc = "done" /\ plain /\ marred = {} => Restored /\ ~errors

(* The journal gives back what the session changed: rollback() restores or *)
(* reports, and has nothing to report after a plain session.               *)
RollbackRestores == RestoredUnlessReported /\ PlainUndone

(* A rollback ends, whatever its lines do.                                 *)
RollbackEnds == pc = "rollback" ~> pc = "done"

(* A build leaves the target as it found it.                               *)
BuildUndone == pc = "done" /\ Building /\ marred = {} => Restored

(* The lines before "failed" are run.                                      *)
FailedLineUndone == pc = "done" => journal = <<>>

(* A package that was removed is as it was, or an error was reported.      *)
RemovalUndone ==
    pc = "done" /\ ~errors /\ "rollback" \notin marred => Restored

(* What a session did without a failure can be undone, an upgrade too.     *)
UpgradeUndone == pc = "done" /\ marred = {} => Restored

(* What a session that wpkg died in did can be undone.                     *)
CrashUndone == pc = "done" => Restored
==============================================================================

------------------------------- MODULE Package -------------------------------
(***************************************************************************)
(* The life of one package on one target: wpkg --install, --unpack,        *)
(* --configure, --reconfigure, --deconfigure, --remove and --purge as      *)
(* wpkgar_install and wpkgar_remove execute them, one step per point where *)
(* the process can die or the code can leave: each X-Status written to the *)
(* database, each file extracted or deleted, each round of maintainer      *)
(* scripts.  A script, a hook or an input/output call may fail where       *)
(* Faults says so; the process may crash between any two steps and leave   *)
(* the database locked.                                                    *)
(*                                                                         *)
(* The content of a data file is the version that wrote it; every version  *)
(* ships one configuration file, whose content is the version that wrote   *)
(* it or Edited once the administrator touched it.                         *)
(***************************************************************************)
EXTENDS Naturals, FiniteSets

CONSTANTS
    Version,        \* the versions of the package, positive and ordered
    Path,           \* the data files some version ships
    New,            \* the slot of the configuration file's ".wpkg-new"
    Data,           \* Data[v]: the data files version v ships
    Absent,         \* the content of a file that does not exist
    Torn,           \* the content of a file whose write failed half way
    Edited,         \* the content of a configuration file edited by hand
    NotSaved,       \* the backup holds nothing for a file
    Commands,       \* the commands the administrator uses
    Faults,         \* what may fail: see FaultKinds
    AllowDowngrade  \* --force-downgrade

CommandNames == {"install", "unpack", "configure", "reconfigure",
                 "deconfigure", "remove", "purge"}
FaultKinds   == {"script", "hook", "write", "space", "unlink", "rename", "copy",
                 "crash"}

ASSUME VersionAssumption == Version \subseteq Nat \ {0}
ASSUME DataAssumption    == Data \in [Version -> SUBSET Path]
ASSUME SlotAssumption    == New \notin Path
ASSUME ContentAssumption ==
    /\ {Absent, Torn, Edited, NotSaved} \cap Nat = {}
    /\ Absent # Torn /\ Absent # Edited /\ Absent # NotSaved
    /\ Torn # Edited /\ Torn # NotSaved /\ Edited # NotSaved
ASSUME CommandAssumption == Commands \subseteq CommandNames
ASSUME FaultAssumption   == Faults \subseteq FaultKinds
ASSUME DowngradeAssumption == AllowDowngrade \in BOOLEAN

Slot        == Path \cup {New}
Content     == Version \cup {Absent, Torn}
ConfContent == Version \cup {Absent, Torn, Edited}

(* X-Status of the package; "none" when the database has no entry for it.  *)
Status == {"none", "not_installed", "config_files", "installing", "upgrading",
           "half_installed", "unpacked", "half_configured", "installed",
           "removing"}

Pc == {"idle", "begin", "preupgrade", "abort_prerm", "preinst", "abort_preinst",
       "extract", "unpack_file", "postupgrade", "drop_old", "cancel",
       "cancel_scripts", "copy", "set_unpacked", "configure", "conffile",
       "swap_conf", "postinst", "prerm", "prerm_scripts", "removing",
       "remove_file", "abort_remove", "postrm", "deconfigure",
       "deconf_prerm", "deconf_scripts", "deconf_file", "deconf_done"}

VARIABLES
    status,     \* X-Status in the package's wpkg-status
    db,         \* the version whose control files the database holds, 0 for none
    oldSums,    \* the version md5sums.wpkg-old was computed from, 0 for none
    disk,       \* the content of every data file and of ".wpkg-new"
    conf,       \* the configuration file, its ".wpkg-old" and its ".wpkg-user"
    saved,      \* the backup object: what restore() would write back
    pc,         \* where the running process is, "idle" when none runs
    cmd,        \* the command it runs
    target,     \* the version it installs
    orig,       \* the item's original status
    todo,       \* the files the current loop has still to visit
    failed,     \* err > 0 in configure_package()
    locked      \* core/wpkg.lck exists

control == <<pc, cmd, target, orig, todo, failed, locked>>
vars == <<status, db, oldSums, disk, conf, saved, control>>

NoBackup == [s \in Slot |-> NotSaved]

TypeOK ==
    /\ status \in Status
    /\ db \in Version \cup {0}
    /\ oldSums \in Version \cup {0}
    /\ disk \in [Slot -> Content]
    /\ conf \in [main : ConfContent, old : ConfContent, user : ConfContent]
    /\ saved \in [Slot -> Content \cup {NotSaved}]
    /\ pc \in Pc
    /\ cmd \in CommandNames \cup {"none"}
    /\ target \in Version \cup {0}
    /\ orig \in Status
    /\ todo \subseteq Slot
    /\ failed \in BOOLEAN
    /\ locked \in BOOLEAN

Init ==
    /\ status = "none"
    /\ db = 0
    /\ oldSums = 0
    /\ disk = [s \in Slot |-> Absent]
    /\ conf = [main |-> Absent, old |-> Absent, user |-> Absent]
    /\ saved = NoBackup
    /\ pc = "idle"
    /\ cmd = "none"
    /\ target = 0
    /\ orig = "none"
    /\ todo = {}
    /\ failed = FALSE
    /\ locked = FALSE

-----------------------------------------------------------------------------
(* The process ends, normally or by an exception: wpkgar_lock's destructor *)
(* removes the lock.                                                       *)
Finish ==
    /\ pc' = "idle" /\ cmd' = "none" /\ target' = 0 /\ orig' = "none"
    /\ todo' = {} /\ failed' = FALSE /\ locked' = FALSE

Goto(label) ==
    /\ pc' = label
    /\ UNCHANGED <<cmd, target, orig, todo, failed, locked>>

GotoLoop(label, files) ==
    /\ pc' = label
    /\ todo' = files
    /\ UNCHANGED <<cmd, target, orig, failed, locked>>

Fault(kind) == kind \in Faults

(* The upgrade link: the package was Installed when --install validated it *)
(* (--unpack never links, see validate_installed_package), or it is        *)
(* reconfigured, an upgrade to itself.                                     *)
Upgrade      == cmd \in {"install", "reconfigure"} /\ orig = "installed"
Reconfigure  == cmd = "reconfigure"
Transaction  == IF Upgrade THEN "upgrading" ELSE "installing"

(* wpkgar_backup: a file is saved once, a missing file is remembered as    *)
(* such; backup() is TRUE only when it made a copy now.                    *)
BackupTwice(s) == [saved EXCEPT ![s] = disk[s]]           \* mutation: saves again
Backup(s)    == IF saved[s] = NotSaved THEN [saved EXCEPT ![s] = disk[s]] ELSE saved
BackupDone(s) == saved[s] = NotSaved /\ disk[s] # Absent
RestoredLate   == disk                                   \* mutation: no restore
Restored     == [s \in Slot |-> IF saved[s] = NotSaved THEN disk[s] ELSE saved[s]]

-----------------------------------------------------------------------------
(* Validation, under the lock taken by wpkgar_lock.                        *)

Start(c, v) ==
    /\ pc = "idle"
    /\ ~locked
    /\ c \in Commands
    /\ cmd' = c /\ target' = v /\ orig' = status
    /\ todo' = {} /\ failed' = FALSE /\ locked' = TRUE
    /\ UNCHANGED <<status, db, oldSums, disk, conf, saved>>

(* No file of the new version may exist, but for those of the version it   *)
(* upgrades.                                                               *)
NoOverwrite(c, v) ==
    \A p \in Data[v] :
        \/ disk[p] = Absent
        \/ c = "install" /\ status = "installed" /\ p \in Data[db]

StartInstall(v) ==
    /\ status \in {"none", "not_installed", "config_files", "installed"}
    /\ status = "installed" => (v >= db \/ AllowDowngrade)
    /\ NoOverwrite("install", v)
    /\ Start("install", v)
    /\ pc' = "begin"

(* validate_package_name refuses a .deb file to any task but               *)
(* --install, so --unpack only takes the name of a package the database    *)
(* already holds, and unpacks it from there.                               *)
ValidUnpack(v) ==
    /\ v = db
    /\ status \in {"not_installed", "config_files", "unpacked", "installed"}
    /\ NoOverwrite("unpack", v)

StartUnpack(v) ==
    /\ ValidUnpack(v)
    /\ Start("unpack", v)
    /\ pc' = "begin"

StartConfigure ==
    /\ status = "unpacked"
    /\ Start("configure", db)
    /\ pc' = "configure"

StartReconfigure ==
    /\ status = "installed"
    /\ Start("reconfigure", db)
    /\ pc' = "begin"

StartRemove ==
    /\ status \in {"half_installed", "half_configured", "installed", "unpacked"}
    /\ Start("remove", 0)
    /\ pc' = "prerm"

StartPurge ==
    /\ status \in {"half_installed", "half_configured", "installed", "unpacked",
                   "config_files"}
    /\ Start("purge", 0)
    /\ pc' = "prerm"

StartDeconfigure ==
    /\ status \in {"installed", "config_files"}
    /\ Start("deconfigure", 0)
    /\ pc' = "deconfigure"

-----------------------------------------------------------------------------
(* wpkgar_install::do_unpack().                                            *)

(* The control files of the new version replace those of the database; the *)
(* former md5sums are renamed first, and forgotten when that fails.        *)
CopyPackage ==
    /\ db' = target
    /\ oldSums' \in IF Fault("rename") THEN {db, 0} ELSE {db}

(* An upgrade first marks the installed package (preupgrade_scripts); a    *)
(* fresh install first copies the package in the database                  *)
(* (preinst_scripts; copy_package_in_database keeps the former md5sums).   *)
BeginUpgrade ==
    /\ pc = "begin" /\ Upgrade
    /\ status' = "half_installed"
    /\ Goto("preupgrade")
    /\ UNCHANGED <<db, oldSums, disk, conf, saved>>

BeginInstall ==
    /\ pc = "begin" /\ ~Upgrade
    /\ CopyPackage
    /\ status' = "half_installed"
    /\ Goto("preinst")
    /\ UNCHANGED <<disk, conf, saved>>

(* core hooks, then "old-prerm upgrade" or else "new-prerm failed-upgrade" *)
PreupgradeScripts ==
    /\ pc = "preupgrade"
    /\ \/ /\ Goto(IF Reconfigure THEN "extract" ELSE "preinst")
          /\ UNCHANGED status
       \/ /\ Fault("hook")
          /\ Finish
          /\ UNCHANGED status
       \/ /\ Fault("script")
          /\ status' = "half_configured"
          /\ Goto("abort_prerm")
    /\ UNCHANGED <<db, oldSums, disk, conf, saved>>

(* "old-postinst abort-upgrade" after the prerm scripts failed.            *)
AbortPrerm ==
    /\ pc = "abort_prerm"
    /\ \/ status' = "installed"
       \/ Fault("script") /\ UNCHANGED status
    /\ Finish
    /\ UNCHANGED <<db, oldSums, disk, conf, saved>>

(* core hooks, then "new-preinst install|upgrade"; when it fails           *)
(* "new-postrm abort-install|abort-upgrade" unwinds.                       *)
PreinstScripts ==
    /\ pc = "preinst"
    /\ \/ Goto("extract") /\ UNCHANGED status
       \/ Fault("hook") /\ Finish /\ UNCHANGED status
       \/ Fault("script") /\ Finish /\ UNCHANGED status    \* the unwinding failed too
       \/ Fault("script") /\ ~Upgrade /\ Finish /\ status' = "not_installed"
       \/ Fault("script") /\ Upgrade /\ Goto("abort_preinst") /\ status' = "unpacked"
    /\ UNCHANGED <<db, oldSums, disk, conf, saved>>

(* "old-postinst abort-upgrade" after the preinst script failed.           *)
AbortPreinst ==
    /\ pc = "abort_preinst"
    /\ \/ status' = "installed"
       \/ Fault("script") /\ UNCHANGED status
    /\ Finish
    /\ UNCHANGED <<db, oldSums, disk, conf, saved>>

(* The backup object is created and the transaction status saved; a        *)
(* reconfigure extracts the configuration files only.                      *)
BeginExtract ==
    /\ pc = "extract"
    /\ status' = Transaction
    /\ GotoLoop("unpack_file", IF Reconfigure THEN {New} ELSE Data[target] \cup {New})
    /\ UNCHANGED <<db, oldSums, disk, conf, saved>>

UnpackFile(s) ==
    /\ pc = "unpack_file" /\ s \in todo
    /\ saved' = Backup(s)
    /\ disk' = [disk EXCEPT ![s] = target]
    /\ GotoLoop("unpack_file", todo \ {s})
    /\ UNCHANGED <<status, db, oldSums, conf>>

(* The file cannot be opened, before or after os_unlink() made room for    *)
(* it, or its mode or owner cannot be set once it is written.              *)
UnpackFileFails(s) ==
    /\ pc = "unpack_file" /\ s \in todo
    /\ Fault("write")
    /\ saved' = Backup(s)
    /\ \E c \in {disk[s], Absent, target} : disk' = [disk EXCEPT ![s] = c]
    /\ GotoLoop("cancel", {})
    /\ UNCHANGED <<status, db, oldSums, conf>>

(* The disk is full: fwrite() comes back short, which fstream::write()     *)
(* does not take for an error, and what fclose() makes of the rest is not  *)
(* looked at.  The copy in the backup is cut short the same way.           *)
UnpackFileShort(s) ==
    /\ pc = "unpack_file" /\ s \in todo
    /\ Fault("space")
    /\ \/ saved' = Backup(s)
       \/ BackupDone(s) /\ saved' = [saved EXCEPT ![s] = Torn]
    /\ disk' = [disk EXCEPT ![s] = Torn]
    /\ GotoLoop("unpack_file", todo \ {s})
    /\ UNCHANGED <<status, db, oldSums, conf>>

EndExtract ==
    /\ pc = "unpack_file" /\ todo = {}
    /\ status' = "half_installed"
    /\ Goto(IF Upgrade THEN "postupgrade" ELSE "set_unpacked")
    /\ UNCHANGED <<db, oldSums, disk, conf, saved>>

(* "old-postrm upgrade" or else "new-postrm failed-upgrade", which failing *)
(* cancels; then the core hooks, which failing leave without a cancel: the *)
(* backup's destructor restores the files.  On success the loop over the   *)
(* files of the old version starts.                                        *)
PostupgradeScripts ==
    /\ pc = "postupgrade"
    /\ \/ /\ status' = "upgrading"
          /\ GotoLoop("drop_old", Data[db])
          /\ UNCHANGED <<disk, saved>>
       \/ /\ Fault("script")
          /\ Goto("cancel")
          /\ UNCHANGED <<status, disk, saved>>
       \/ /\ Fault("hook")
          /\ disk' = Restored
          /\ saved' = NoBackup
          /\ Finish
          /\ UNCHANGED status
    /\ UNCHANGED <<db, oldSums, conf>>

(* Mutation: the old files are all kept.                                   *)
KeepOldFile(p) ==
    /\ pc = "drop_old" /\ p \in todo
    /\ saved' = Backup(p)
    /\ GotoLoop("drop_old", todo \ {p})
    /\ UNCHANGED <<status, db, oldSums, disk, conf>>

(* A file the backup copies only now was not in the new version: it goes.  *)
(* An unlink that fails is logged and ignored.                             *)
DropOldFile(p) ==
    /\ pc = "drop_old" /\ p \in todo
    /\ saved' = Backup(p)
    /\ disk' = [disk EXCEPT ![p] = IF BackupDone(p) THEN Absent ELSE @]
    /\ GotoLoop("drop_old", todo \ {p})
    /\ UNCHANGED <<status, db, oldSums, conf>>

DropOldFileIgnored(p) ==
    /\ pc = "drop_old" /\ p \in todo
    /\ Fault("unlink") /\ BackupDone(p)
    /\ saved' = Backup(p)
    /\ GotoLoop("drop_old", todo \ {p})
    /\ UNCHANGED <<status, db, oldSums, disk, conf>>

(* The copy of the old file to the backup fails.                           *)
DropOldFileFails(p) ==
    /\ pc = "drop_old" /\ p \in todo
    /\ Fault("write") /\ BackupDone(p)
    /\ GotoLoop("cancel", {})
    /\ UNCHANGED <<status, db, oldSums, disk, conf, saved>>

EndDropOld ==
    /\ pc = "drop_old" /\ todo = {}
    /\ Goto(IF Reconfigure THEN "set_unpacked" ELSE "copy")
    /\ UNCHANGED <<status, db, oldSums, disk, conf, saved>>

(* Mutation: the status is left as it was.                                 *)
CancelFilesOnly ==
    /\ pc = "cancel"
    /\ disk' = Restored
    /\ saved' = NoBackup
    /\ Goto("cancel_scripts")
    /\ UNCHANGED <<status, db, oldSums, conf>>

(* cancel_upgrade_scripts() and cancel_install_scripts(): status, files,   *)
(* then scripts.                                                           *)
CancelStatus ==
    /\ pc = "cancel"
    /\ status' = "half_installed"
    /\ disk' = Restored
    /\ saved' = NoBackup
    /\ Goto("cancel_scripts")
    /\ UNCHANGED <<db, oldSums, conf>>

CancelUpgradeScripts ==
    /\ pc = "cancel_scripts" /\ Upgrade
    /\ \/ status' = "installed"
       \/ Fault("script") /\ status' = "unpacked"   \* old-postinst failed
       \/ Fault("script") /\ UNCHANGED status       \* old-preinst or new-postrm failed
    /\ Finish
    /\ UNCHANGED <<db, oldSums, disk, conf, saved>>

CancelInstallScripts ==
    /\ pc = "cancel_scripts" /\ ~Upgrade
    /\ \/ status' = "not_installed"
       \/ Fault("script") /\ UNCHANGED status
    /\ Finish
    /\ UNCHANGED <<db, oldSums, disk, conf, saved>>

CopyInDatabase ==
    /\ pc = "copy"
    /\ CopyPackage
    /\ Goto("set_unpacked")
    /\ UNCHANGED <<status, disk, conf, saved>>

(* An exception out of copy_package_in_database() is not caught: only the  *)
(* backup's destructor runs.                                               *)
CopyInDatabaseFails ==
    /\ pc = "copy"
    /\ Fault("copy")
    /\ disk' = Restored
    /\ saved' = NoBackup
    /\ Finish
    /\ UNCHANGED <<status, db, oldSums, conf>>

SetUnpacked ==
    /\ pc = "set_unpacked"
    /\ status' = "unpacked"
    /\ saved' = NoBackup
    /\ IF cmd = "unpack" THEN Finish ELSE Goto("configure")
    /\ UNCHANGED <<db, oldSums, disk, conf>>

-----------------------------------------------------------------------------
(* wpkgar_install::configure_package().                                    *)

BeginConfigure ==
    /\ pc = "configure"
    /\ status' = "half_configured"
    /\ Goto("conffile")
    /\ UNCHANGED <<db, oldSums, disk, conf, saved>>

(* The configuration file is missing: the one --deconfigure kept comes     *)
(* back, otherwise the packaged one is put in place.                       *)
UseSavedConffile ==
    /\ pc = "conffile"
    /\ conf.main = Absent /\ conf.user # Absent
    /\ conf' = [conf EXCEPT !.main = conf.user, !.user = Absent]
    /\ Goto("postinst")
    /\ UNCHANGED <<status, db, oldSums, disk, saved>>

UseNewConffile ==
    /\ pc = "conffile"
    /\ conf.main = Absent /\ conf.user = Absent /\ disk[New] # Absent
    /\ conf' = [conf EXCEPT !.main = disk[New]]
    /\ disk' = [disk EXCEPT ![New] = Absent]
    /\ Goto("postinst")
    /\ UNCHANGED <<status, db, oldSums, saved>>

UnmodifiedAlways == oldSums # 0                           \* mutation: no md5sum test
Unmodified == oldSums # 0 /\ conf.main = oldSums

(* It exists and is the administrator's, or there is nothing to replace it *)
KeepConffile ==
    /\ pc = "conffile"
    /\ conf.main # Absent
    /\ ~Unmodified \/ disk[New] = Absent
    /\ Goto("postinst")
    /\ UNCHANGED <<status, db, oldSums, disk, conf, saved>>

(* Mutation: the first of the two renames only.                            *)
RetireOnly ==
    /\ pc = "conffile"
    /\ conf.main # Absent /\ Unmodified /\ disk[New] # Absent
    /\ conf' = [conf EXCEPT !.old = conf.main, !.main = Absent]
    /\ Goto("postinst")
    /\ UNCHANGED <<status, db, oldSums, disk, saved>>

(* It is what the former version shipped: to ".wpkg-old" first ...         *)
RetireConffile ==
    /\ pc = "conffile"
    /\ conf.main # Absent /\ Unmodified /\ disk[New] # Absent
    /\ conf' = [conf EXCEPT !.old = conf.main, !.main = Absent]
    /\ Goto("swap_conf")
    /\ UNCHANGED <<status, db, oldSums, disk, saved>>

(* ... then the new one in its place.                                      *)
ReplaceConffile ==
    /\ pc = "swap_conf"
    /\ conf' = [conf EXCEPT !.main = disk[New]]
    /\ disk' = [disk EXCEPT ![New] = Absent]
    /\ Goto("postinst")
    /\ UNCHANGED <<status, db, oldSums, saved>>

(* os_rename() only throws where its second argument is TRUE, which is the *)
(* move to ".wpkg-old": there an error is counted.  Any other rename that  *)
(* fails is not noticed.  The scripts run all the same.                    *)
ConffileFails ==
    \/ /\ pc = "conffile" /\ conf.main = Absent
       /\ Fault("rename") \/ (conf.user = Absent /\ disk[New] = Absent)
       /\ Goto("postinst")
       /\ UNCHANGED <<status, db, oldSums, disk, conf, saved>>
    \/ /\ pc = "swap_conf" /\ Fault("rename")
       /\ Goto("postinst")
       /\ UNCHANGED <<status, db, oldSums, disk, conf, saved>>
    \/ /\ pc = "conffile" /\ Fault("rename")
       /\ conf.main # Absent /\ Unmodified /\ disk[New] # Absent
       /\ conf' = [conf EXCEPT !.old = Absent]
       /\ pc' = "postinst" /\ failed' = TRUE
       /\ UNCHANGED <<status, db, oldSums, disk, saved, cmd, target, orig, todo, locked>>

(* The former ".wpkg-old" cannot be deleted: nothing catches that.         *)
RetireConffileFails ==
    /\ pc = "conffile" /\ Fault("unlink")
    /\ conf.main # Absent /\ Unmodified /\ disk[New] # Absent /\ conf.old # Absent
    /\ Finish
    /\ UNCHANGED <<status, db, oldSums, disk, conf, saved>>

(* "new-postinst configure" and the core hooks.                            *)
PostinstScripts ==
    /\ pc = "postinst"
    /\ \/ status' = IF failed THEN status ELSE "installed"
       \/ Fault("script") /\ UNCHANGED status
       \/ Fault("hook") /\ UNCHANGED status
    /\ Finish
    /\ UNCHANGED <<db, oldSums, disk, conf, saved>>

-----------------------------------------------------------------------------
(* wpkgar_remove::do_remove().                                             *)

(* prerm_scripts() marks what was properly installed and skips the scripts *)
(* of anything else.                                                       *)
PrermStatus(from, scripts, skip) ==
    /\ pc = from
    /\ CASE status \in {"installed", "unpacked"} ->
                status' = "half_installed" /\ Goto(scripts)
         [] status = "config_files" ->
                status' = "half_configured" /\ Goto(scripts)
         [] OTHER ->
                UNCHANGED status /\ Goto(skip)
    /\ UNCHANGED <<db, oldSums, disk, conf, saved>>

(* core hooks, then "prerm remove|deconfigure|purge"; when that fails      *)
(* "postinst abort-..." and, if it succeeds, the original status again.    *)
PrermScripts(scripts, next) ==
    /\ pc = scripts
    /\ \/ Goto(next) /\ UNCHANGED status
       \/ Fault("hook") /\ Finish /\ UNCHANGED status
       \/ Fault("script") /\ Finish /\ UNCHANGED status
       \/ Fault("script") /\ Finish /\ status' = orig
    /\ UNCHANGED <<db, oldSums, disk, conf, saved>>

RemoveStatus  == PrermStatus("prerm", "prerm_scripts", "removing")
RemoveScripts == PrermScripts("prerm_scripts", "removing")

BeginRemove ==
    /\ pc = "removing"
    /\ status' = "removing"
    /\ GotoLoop("remove_file", Data[db])
    /\ UNCHANGED <<db, oldSums, disk, conf, saved>>

RemoveFile(p) ==
    /\ pc = "remove_file" /\ p \in todo
    /\ saved' = Backup(p)
    /\ disk' = [disk EXCEPT ![p] = Absent]
    /\ GotoLoop("remove_file", todo \ {p})
    /\ UNCHANGED <<status, db, oldSums, conf>>

(* The catch block: status, then "postinst abort-remove" on the way to the *)
(* backup's destructor.                                                    *)
RemoveFileFails(p) ==
    /\ pc = "remove_file" /\ p \in todo
    /\ Fault("unlink")
    /\ saved' = Backup(p)
    /\ status' = "half_installed"
    /\ GotoLoop("abort_remove", {})
    /\ UNCHANGED <<db, oldSums, disk, conf>>

(* Mutation: the removal is tried again.                                   *)
AbortRemoveRetries ==
    /\ pc = "abort_remove"
    /\ disk' = Restored
    /\ saved' = NoBackup
    /\ GotoLoop("remove_file", Data[db])
    /\ UNCHANGED <<status, db, oldSums, conf>>

AbortRemove ==
    /\ pc = "abort_remove"
    /\ disk' = Restored
    /\ saved' = NoBackup
    /\ Finish
    /\ UNCHANGED <<status, db, oldSums, conf>>

EndRemove ==
    /\ pc = "remove_file" /\ todo = {}
    /\ status' = "half_installed"
    /\ Goto("postrm")
    /\ UNCHANGED <<db, oldSums, disk, conf, saved>>

(* "postrm remove" and the hooks cannot stop the removal; the final status *)
(* depends on the original one and becomes the original one.               *)
FinishRemove ==
    /\ pc = "postrm"
    /\ status' = IF orig \in {"unpacked", "not_installed"}
                   THEN "not_installed" ELSE "config_files"
    /\ saved' = NoBackup
    /\ \/ cmd = "remove" /\ Finish
       \/ /\ cmd = "purge"
          /\ pc' = "deconfigure" /\ orig' = status'
          /\ UNCHANGED <<cmd, target, todo, failed, locked>>
    /\ UNCHANGED <<db, oldSums, disk, conf>>

-----------------------------------------------------------------------------
(* wpkgar_remove::deconfigure_package(), for --deconfigure and the second  *)
(* half of --purge.                                                        *)

Deconfiguring == orig = "installed"

DeconfigureStatus  == PrermStatus("deconfigure", "deconf_prerm", "deconf_scripts")
DeconfigureScripts == PrermScripts("deconf_prerm", "deconf_scripts")

BeginDeconfigure ==
    /\ pc = "deconf_scripts"
    /\ status' = "half_configured"
    /\ Goto("deconf_file")
    /\ UNCHANGED <<db, oldSums, disk, conf, saved>>

(* --deconfigure keeps the administrator's file under another name.        *)
SaveConffile ==
    /\ pc = "deconf_file" /\ Deconfiguring
    /\ conf' = [conf EXCEPT !.user = conf.main, !.main = Absent]
    /\ Goto("deconf_done")
    /\ UNCHANGED <<status, db, oldSums, disk, saved>>

(* Mutation: only the configuration file itself is deleted.                *)
PurgeMainConffile ==
    /\ pc = "deconf_file" /\ ~Deconfiguring
    /\ conf' = [conf EXCEPT !.main = Absent]
    /\ Goto("deconf_done")
    /\ UNCHANGED <<status, db, oldSums, disk, saved>>

PurgeConffile ==
    /\ pc = "deconf_file" /\ ~Deconfiguring
    /\ conf' = [conf EXCEPT !.main = Absent, !.old = Absent]
    /\ disk' = [disk EXCEPT ![New] = Absent]
    /\ Goto("deconf_done")
    /\ UNCHANGED <<status, db, oldSums, saved>>

(* Its rename fails, which nobody notices; the former copy is gone.        *)
SaveConffileFails ==
    /\ pc = "deconf_file" /\ Deconfiguring
    /\ Fault("rename") /\ conf.main # Absent
    /\ conf' = [conf EXCEPT !.user = Absent]
    /\ Goto("deconf_done")
    /\ UNCHANGED <<status, db, oldSums, disk, saved>>

(* The unlink of the former copy, or one of the three of a purge, throws:  *)
(* the command dies as it is.                                              *)
DeconfigureFails ==
    /\ pc = "deconf_file" /\ Fault("unlink")
    /\ \/ /\ Deconfiguring /\ conf.user # Absent
          /\ UNCHANGED <<conf, disk>>
       \/ /\ ~Deconfiguring /\ conf.main # Absent
          /\ UNCHANGED <<conf, disk>>
       \/ /\ ~Deconfiguring /\ disk[New] # Absent
          /\ conf' = [conf EXCEPT !.main = Absent]
          /\ UNCHANGED disk
       \/ /\ ~Deconfiguring /\ conf.old # Absent
          /\ conf' = [conf EXCEPT !.main = Absent]
          /\ disk' = [disk EXCEPT ![New] = Absent]
    /\ Finish
    /\ UNCHANGED <<status, db, oldSums, saved>>

(* The status comes before "postrm deconfigure|purge", whose failure, like *)
(* the hooks', is only logged.                                             *)
FinishDeconfigure ==
    /\ pc = "deconf_done"
    /\ status' = IF Deconfiguring THEN "unpacked" ELSE "not_installed"
    /\ Finish
    /\ UNCHANGED <<db, oldSums, disk, conf, saved>>

-----------------------------------------------------------------------------
(* The world around the process.                                           *)

(* The process dies: nothing is unwound and the lock file stays.           *)
Crash ==
    /\ pc # "idle"
    /\ Fault("crash")
    /\ pc' = "idle" /\ cmd' = "none" /\ target' = 0 /\ orig' = "none"
    /\ todo' = {} /\ failed' = FALSE
    /\ saved' = NoBackup
    /\ \/ UNCHANGED disk
       \/ pc = "unpack_file" /\ \E s \in todo : disk' = [disk EXCEPT ![s] = Torn]
    /\ UNCHANGED <<status, db, oldSums, conf, locked>>

(* wpkg --remove-database-lock, once no process runs.                      *)
RemoveLock ==
    /\ pc = "idle" /\ locked
    /\ locked' = FALSE
    /\ UNCHANGED <<status, db, oldSums, disk, conf, saved, pc, cmd, target, orig,
                   todo, failed>>

EditConffile ==
    /\ conf.main \notin {Absent, Edited}
    /\ conf' = [conf EXCEPT !.main = Edited]
    /\ UNCHANGED <<status, db, oldSums, disk, saved, control>>

Validate ==
    \/ \E v \in Version : StartInstall(v) \/ StartUnpack(v)
    \/ StartConfigure \/ StartReconfigure
    \/ StartRemove \/ StartPurge \/ StartDeconfigure

Unpack ==
    \/ BeginUpgrade \/ BeginInstall
    \/ PreupgradeScripts \/ AbortPrerm \/ PreinstScripts \/ AbortPreinst
    \/ BeginExtract
    \/ \E s \in Slot : UnpackFile(s) \/ UnpackFileFails(s) \/ UnpackFileShort(s)
    \/ EndExtract \/ PostupgradeScripts
    \/ \E p \in Path : DropOldFile(p) \/ DropOldFileIgnored(p) \/ DropOldFileFails(p)
    \/ EndDropOld
    \/ CancelStatus \/ CancelUpgradeScripts \/ CancelInstallScripts
    \/ CopyInDatabase \/ CopyInDatabaseFails \/ SetUnpacked

Configure ==
    \/ BeginConfigure
    \/ UseSavedConffile \/ UseNewConffile \/ KeepConffile
    \/ RetireConffile \/ RetireConffileFails \/ ReplaceConffile \/ ConffileFails
    \/ PostinstScripts

Remove ==
    \/ RemoveStatus \/ RemoveScripts \/ BeginRemove
    \/ \E p \in Path : RemoveFile(p) \/ RemoveFileFails(p)
    \/ AbortRemove \/ EndRemove \/ FinishRemove

Deconfigure ==
    \/ DeconfigureStatus \/ DeconfigureScripts \/ BeginDeconfigure
    \/ SaveConffile \/ SaveConffileFails \/ PurgeConffile \/ DeconfigureFails \/ FinishDeconfigure

Step == Unpack \/ Configure \/ Remove \/ Deconfigure

Next == Validate \/ Step \/ Crash \/ RemoveLock \/ EditConffile

(* A running process goes on until it ends or dies.                        *)
Spec == Init /\ [][Next]_vars /\ WF_vars(Step)

-----------------------------------------------------------------------------
(* What must hold.                                                         *)

(* A status that says the files are there never lies, at any step of any   *)
(* command, hence after a crash at any point: while X-Status reads         *)
(* Installed or Unpacked, every data file of the version the database      *)
(* describes has that version's content (do_unpack, do_remove).            *)
InstalledFilesPresent ==
    status \in {"installed", "unpacked"} =>
        db \in Version /\ \A p \in Data[db] : disk[p] = db

(* Nothing is left behind: whatever the scripts did, a package that is     *)
(* Installed or Unpacked has no file of another version on the disk, and   *)
(* one that is not installed has no data file at all (the deletion loops   *)
(* of do_unpack and do_remove, the restore of the backup).                 *)
NoStrayFile ==
    /\ status \in {"installed", "unpacked"} =>
           \A p \in Path \ Data[db] : disk[p] = Absent
    /\ status \in {"none", "not_installed", "config_files"} =>
           \A p \in Path : disk[p] = Absent

(* A command that ends without being killed never leaves one of the        *)
(* transient statuses that every later validation refuses, unless a killed *)
(* one left it before.                                                     *)
RestsRepairable ==
    [][ pc # "idle" /\ pc' = "idle" /\ ~locked' =>
          status' \notin {"installing", "upgrading", "removing"} ]_vars

(* When the scripts that cancel an upgrade run, the files of the old       *)
(* version are back (cancel_upgrade_scripts).                              *)
CancelSeesOldFiles ==
    pc = "cancel_scripts" /\ Upgrade => \A p \in Data[db] : disk[p] = db

(* An Installed package has its configuration file (configure_package,     *)
(* deconfigure_package).                                                   *)
ConffilePresent == status = "installed" => conf.main # Absent

(* A hand-edited configuration file survives every step of every command   *)
(* but the purge: as the file itself or as ".wpkg-user".                   *)
EditSurvives ==
    [][ (Edited \in {conf.main, conf.user}) =>
          \/ Edited \in {conf'.main, conf'.user}
          \/ pc = "deconf_file" /\ ~Deconfiguring ]_vars

(* A purge that reports Not-Installed left neither the configuration file, *)
(* nor the copies the installer made of it, nor any data file.             *)
PurgeErases ==
    [][ cmd = "purge" /\ pc' = "idle" /\ ~locked' /\ status' = "not_installed" =>
          /\ conf'.main = Absent /\ conf'.old = Absent
          /\ \A s \in Slot : disk'[s] = Absent ]_vars

(* A command comes to an end as long as its process is scheduled and its   *)
(* scripts return.                                                         *)
CommandEnds == pc # "idle" ~> pc = "idle"

-----------------------------------------------------------------------------
(* What the documentation and the messages of the code claim, and the code *)
(* does not do.                                                            *)

(* "--reconfigure: Reinstall (unpack) clean configuration files"           *)
(* (reconfigure): whatever it does, it is no licence to delete data files; *)
(* do_unpack says that only files "not present in the new package get      *)
(* removed".                                                               *)
ReconfigureKeepsFiles ==
    [][ cmd = "reconfigure" =>
          \A p \in Path : disk[p] = target => disk'[p] = target ]_vars

(* "--purge to completely remove those packages": no file of the package,  *)
(* whatever its extension, outlives the purge.                             *)
PurgeLeavesNothing ==
    [][ cmd = "purge" /\ pc' = "idle" /\ status' = "not_installed" =>
          conf' = [main |-> Absent, old |-> Absent, user |-> Absent] ]_vars

(* "the postrm abort-install script succeeded for package; its previous    *)
(* status was restored" (preinst_scripts).                                 *)
AbortInstallRestoresStatus ==
    [][ cmd = "install" /\ pc = "preinst" /\ status' = "not_installed" =>
          orig \in {"none", "not_installed"} ]_vars

(* "If the process fails, then the package stays in an Half-Installed      *)
(* status" (do_unpack).                                                    *)
FailedUnpackIsHalfInstalled ==
    [][ pc = "copy" /\ pc' = "idle" => status' = "half_installed" ]_vars

(* "restore the backed up files (it has to happen before running the       *)
(* scripts)" (cancel_install_scripts): the script that aborts a removal    *)
(* finds the files it is told were not removed.                            *)
AbortRemoveSeesFiles ==
    pc = "abort_remove" /\ orig = "installed" =>
        \A p \in Data[db] : disk[p] = db

(* "replacing configuration file because it was never modified": one that  *)
(* nobody edited is the one of the Installed version (configure_package).  *)
UneditedConffileIsCurrent ==
    status = "installed" /\ conf.main \in Version => conf.main = db

(* "with --unpack we can do nearly everything: 1. from Not Installed to    *)
(* Unpacked" (validate_installed_package): a version that is not installed *)
(* can be unpacked.                                                        *)
UnpackFromNotInstalled ==
    pc = "idle" /\ status \in {"none", "not_installed"} =>
        \E v \in Version : ValidUnpack(v)
=============================================================================

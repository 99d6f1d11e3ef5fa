---------------------------- MODULE Package_proofs ----------------------------
(***************************************************************************)
(* The safety of Package for every set of versions, files, commands and    *)
(* faults: types; the truth of an Installed or Unpacked status as long as  *)
(* --reconfigure is not used; the statuses commands end with; what happens *)
(* to the configuration file and what is left of the files.                *)
(***************************************************************************)
EXTENDS Package, TLAPS

-----------------------------------------------------------------------------
(* Types.  A command loops over Data[db], so the types rest on the database *)
(* describing some version as soon as the package has a status.            *)

UnpackPc  == {"begin", "preupgrade", "abort_prerm", "preinst", "abort_preinst",
              "extract", "unpack_file", "postupgrade", "drop_old", "cancel",
              "cancel_scripts", "copy", "set_unpacked"}

ControlOK ==
    /\ pc \in Pc /\ cmd \in CommandNames \cup {"none"}
    /\ target \in Version \cup {0} /\ orig \in Status
    /\ todo \subseteq Slot /\ failed \in BOOLEAN /\ locked \in BOOLEAN

DatabaseOK ==
    status \in Status /\ db \in Version \cup {0} /\ oldSums \in Version \cup {0}

FilesOK ==
    /\ disk \in [Slot -> Content]
    /\ conf \in [main : ConfContent, old : ConfContent, user : ConfContent]
    /\ saved \in [Slot -> Content \cup {NotSaved}]

TypeInv ==
    /\ ControlOK /\ DatabaseOK /\ FilesOK
    /\ status # "none" => db \in Version
    /\ pc \notin {"idle", "begin"} => status # "none"
    /\ pc \in UnpackPc => target \in Version
    /\ pc \in {"begin", "prerm", "deconfigure"} => status = orig
    /\ pc \in {"prerm", "prerm_scripts", "deconfigure", "deconf_prerm"} => orig # "none"

-----------------------------------------------------------------------------
(* The inductive invariant.                                                *)

UpgradePc == {"preupgrade", "abort_prerm", "abort_preinst", "postupgrade", "drop_old",
              "copy"}
BackupPc  == {"unpack_file", "postupgrade", "drop_old", "cancel", "copy",
              "set_unpacked", "remove_file", "abort_remove", "postrm"}

(* The files of the database's version are on the disk.                    *)
FilesPresent == \A p \in Data[db] : disk[p] = db

(* The backup can bring them back.                                         *)
FilesRestorable == \A p \in Data[db] : Restored[p] = db

(* The files of the new version that were extracted stay extracted, and    *)
(* the backup knows them, so that the deletion loop spares them.           *)
Extracted(files) == \A p \in files : disk[p] = target /\ saved[p] # NotSaved

(* An empty backup outside the loops that fill it.                         *)
BackupScope == pc \notin BackupPc => saved = NoBackup

(* The status promises nothing while files come and go.                    *)
StatusHonest == pc \in BackupPc => status \notin {"installed", "unpacked"}

(* An upgrade leaves the database alone until its last step, a fresh       *)
(* install writes it first.                                                *)
DatabaseVersion ==
    /\ pc \in UnpackPc => cmd \in {"install", "unpack"}
    /\ pc \in UpgradePc => Upgrade
    /\ pc \in UnpackPc \ {"begin"} /\ ~Upgrade => db = target

(* The files of the old version, there or in the backup, until the upgrade *)
(* deletes them.                                                           *)
OldFiles ==
    /\ (pc \in {"preupgrade", "abort_prerm", "preinst", "abort_preinst", "extract",
                "cancel_scripts"} /\ Upgrade) => FilesPresent
    /\ (pc \in {"unpack_file", "postupgrade", "drop_old", "cancel"} /\ Upgrade)
           => FilesRestorable

(* The files of the new version from their extraction on.                  *)
NewFiles ==
    /\ pc = "unpack_file" => Extracted(Data[target] \ todo)
    /\ pc \in {"postupgrade", "drop_old", "copy"} => Extracted(Data[target])
    /\ pc \in {"set_unpacked", "configure", "conffile", "swap_conf", "postinst"}
           => FilesPresent

(* What a removal that has not started to delete may give back.            *)
KeptFiles ==
    /\ pc \in {"prerm_scripts", "deconf_prerm"} /\ orig \in {"installed", "unpacked"}
           => FilesPresent
    /\ pc \in {"deconf_scripts", "deconf_file", "deconf_done"} /\ orig = "installed"
           => FilesPresent

Progress ==
    BackupScope /\ StatusHonest /\ DatabaseVersion /\ OldFiles /\ NewFiles /\ KeptFiles

IInv ==
    /\ TypeInv
    /\ cmd # "reconfigure"
    /\ InstalledFilesPresent
    /\ Progress

-----------------------------------------------------------------------------
(* Every action keeps the types.                                           *)

LEMMA GotoOK ==
    ASSUME ControlOK, NEW l \in Pc, Goto(l) PROVE ControlOK'
BY DEF ControlOK, Goto

LEMMA GotoLoopOK ==
    ASSUME ControlOK, NEW l \in Pc, NEW files \in SUBSET Slot, GotoLoop(l, files)
    PROVE  ControlOK'
BY DEF ControlOK, GotoLoop

LEMMA FinishOK ==
    ASSUME ControlOK, Finish PROVE ControlOK'
BY DEF ControlOK, Finish, Pc, Status

LEMMA TypeInvValidate == ASSUME TypeInv, Validate PROVE TypeInv'
<1> USE VersionAssumption, DataAssumption
    DEF TypeInv, DatabaseOK, FilesOK, UnpackPc, Slot, Content, ConfContent, Status
<1>1. ASSUME NEW v \in Version, StartInstall(v) PROVE TypeInv'
  <2>1. ControlOK'
    BY <1>1 DEF StartInstall, Start, ControlOK, CommandNames, Pc
  <2>2. DatabaseOK'
    BY <1>1 DEF StartInstall, Start, ControlOK
  <2>3. FilesOK'
    BY <1>1 DEF StartInstall, Start
  <2> QED
    BY <1>1, <2>1, <2>2, <2>3 DEF StartInstall, Start
<1>2. ASSUME NEW v \in Version, StartUnpack(v) PROVE TypeInv'
  <2>1. ControlOK'
    BY <1>2 DEF StartUnpack, Start, ControlOK, CommandNames, Pc
  <2>2. DatabaseOK'
    BY <1>2 DEF StartUnpack, Start, ValidUnpack, ControlOK
  <2>3. FilesOK'
    BY <1>2 DEF StartUnpack, Start
  <2> QED
    BY <1>2, <2>1, <2>2, <2>3 DEF StartUnpack, Start, ValidUnpack
<1>3. CASE StartConfigure
  <2>1. ControlOK'
    BY <1>3 DEF StartConfigure, Start, ControlOK, CommandNames, Pc
  <2>2. DatabaseOK'
    BY <1>3 DEF StartConfigure, Start, ControlOK
  <2>3. FilesOK'
    BY <1>3 DEF StartConfigure, Start
  <2> QED
    BY <1>3, <2>1, <2>2, <2>3 DEF StartConfigure, Start
<1>4. CASE StartReconfigure
  <2>1. ControlOK'
    BY <1>4 DEF StartReconfigure, Start, ControlOK, CommandNames, Pc
  <2>2. DatabaseOK'
    BY <1>4 DEF StartReconfigure, Start, ControlOK
  <2>3. FilesOK'
    BY <1>4 DEF StartReconfigure, Start
  <2> QED
    BY <1>4, <2>1, <2>2, <2>3 DEF StartReconfigure, Start
<1>5. CASE StartRemove
  <2>1. ControlOK'
    BY <1>5 DEF StartRemove, Start, ControlOK, CommandNames, Pc
  <2>2. DatabaseOK'
    BY <1>5 DEF StartRemove, Start, ControlOK
  <2>3. FilesOK'
    BY <1>5 DEF StartRemove, Start
  <2> QED
    BY <1>5, <2>1, <2>2, <2>3 DEF StartRemove, Start
<1>6. CASE StartPurge
  <2>1. ControlOK'
    BY <1>6 DEF StartPurge, Start, ControlOK, CommandNames, Pc
  <2>2. DatabaseOK'
    BY <1>6 DEF StartPurge, Start, ControlOK
  <2>3. FilesOK'
    BY <1>6 DEF StartPurge, Start
  <2> QED
    BY <1>6, <2>1, <2>2, <2>3 DEF StartPurge, Start
<1>7. CASE StartDeconfigure
  <2>1. ControlOK'
    BY <1>7 DEF StartDeconfigure, Start, ControlOK, CommandNames, Pc
  <2>2. DatabaseOK'
    BY <1>7 DEF StartDeconfigure, Start, ControlOK
  <2>3. FilesOK'
    BY <1>7 DEF StartDeconfigure, Start
  <2> QED
    BY <1>7, <2>1, <2>2, <2>3 DEF StartDeconfigure, Start
<1> QED
  BY <1>1, <1>2, <1>3, <1>4, <1>5, <1>6, <1>7 DEF Validate

LEMMA TypeInvUnpack == ASSUME TypeInv, Unpack PROVE TypeInv'
<1> USE VersionAssumption, DataAssumption
    DEF TypeInv, DatabaseOK, FilesOK, UnpackPc, Slot, Content, ConfContent, Status
<1>1. CASE BeginUpgrade
  BY <1>1 DEF BeginUpgrade, Goto, Upgrade, ControlOK, CommandNames, Pc
<1>2. CASE BeginInstall
  BY <1>2 DEF BeginInstall, CopyPackage, Goto, ControlOK, CommandNames, Pc
<1>3. CASE PreupgradeScripts
  <2>1. ControlOK'
    BY <1>3, GotoOK, FinishOK DEF PreupgradeScripts, ControlOK, CommandNames,
       Pc
  <2>2. DatabaseOK'
    BY <1>3 DEF PreupgradeScripts, ControlOK
  <2>3. FilesOK'
    BY <1>3 DEF PreupgradeScripts
  <2> QED
    BY <1>3, <2>1, <2>2, <2>3 DEF PreupgradeScripts, Goto, Finish
<1>4. CASE AbortPrerm
  <2>1. ControlOK'
    BY <1>4, FinishOK DEF AbortPrerm, ControlOK, CommandNames, Pc
  <2>2. DatabaseOK'
    BY <1>4 DEF AbortPrerm, ControlOK
  <2>3. FilesOK'
    BY <1>4 DEF AbortPrerm
  <2> QED
    BY <1>4, <2>1, <2>2, <2>3 DEF AbortPrerm, Finish
<1>5. CASE PreinstScripts
  <2>1. ControlOK'
    BY <1>5, GotoOK, FinishOK DEF PreinstScripts, ControlOK, CommandNames, Pc
  <2>2. DatabaseOK'
    BY <1>5 DEF PreinstScripts, ControlOK
  <2>3. FilesOK'
    BY <1>5 DEF PreinstScripts
  <2> QED
    BY <1>5, <2>1, <2>2, <2>3 DEF PreinstScripts, Goto, Finish
<1>6. CASE AbortPreinst
  <2>1. ControlOK'
    BY <1>6, FinishOK DEF AbortPreinst, ControlOK, CommandNames, Pc
  <2>2. DatabaseOK'
    BY <1>6 DEF AbortPreinst, ControlOK
  <2>3. FilesOK'
    BY <1>6 DEF AbortPreinst
  <2> QED
    BY <1>6, <2>1, <2>2, <2>3 DEF AbortPreinst, Finish
<1>7. CASE BeginExtract
  BY <1>7 DEF BeginExtract, GotoLoop, Transaction, ControlOK, CommandNames, Pc
<1>8. ASSUME NEW s \in Slot, UnpackFile(s) PROVE TypeInv'
  BY <1>8 DEF UnpackFile, GotoLoop, Backup, ControlOK, CommandNames, Pc
<1>9. ASSUME NEW s \in Slot, UnpackFileFails(s) PROVE TypeInv'
  BY <1>9 DEF UnpackFileFails, GotoLoop, Backup, ControlOK, CommandNames, Pc
<1>9a. ASSUME NEW s \in Slot, UnpackFileShort(s) PROVE TypeInv'
  BY <1>9a DEF UnpackFileShort, GotoLoop, Backup, ControlOK, CommandNames, Pc
<1>10. CASE EndExtract
  BY <1>10 DEF EndExtract, Goto, ControlOK, CommandNames, Pc
<1>11. CASE PostupgradeScripts
  <2>1. ControlOK'
    BY <1>11, GotoOK, GotoLoopOK, FinishOK DEF PostupgradeScripts, ControlOK,
       CommandNames, Pc
  <2>2. DatabaseOK'
    BY <1>11 DEF PostupgradeScripts, ControlOK
  <2>3. FilesOK'
    BY <1>11 DEF PostupgradeScripts, Restored, NoBackup
  <2> QED
    BY <1>11, <2>1, <2>2, <2>3 DEF PostupgradeScripts, Goto, GotoLoop, Finish
<1>12. ASSUME NEW p \in Path, DropOldFile(p) PROVE TypeInv'
  BY <1>12 DEF DropOldFile, GotoLoop, Backup, ControlOK, CommandNames, Pc
<1>13. ASSUME NEW p \in Path, DropOldFileIgnored(p) PROVE TypeInv'
  BY <1>13 DEF DropOldFileIgnored, GotoLoop, Backup, ControlOK, CommandNames,
     Pc
<1>14. ASSUME NEW p \in Path, DropOldFileFails(p) PROVE TypeInv'
  BY <1>14 DEF DropOldFileFails, GotoLoop, ControlOK, CommandNames, Pc
<1>15. CASE EndDropOld
  BY <1>15 DEF EndDropOld, Goto, ControlOK, CommandNames, Pc
<1>16. CASE CancelStatus
  BY <1>16 DEF CancelStatus, Goto, Restored, NoBackup, ControlOK,
     CommandNames, Pc
<1>17. CASE CancelUpgradeScripts
  <2>1. ControlOK'
    BY <1>17, FinishOK DEF CancelUpgradeScripts, ControlOK, CommandNames, Pc
  <2>2. DatabaseOK'
    BY <1>17 DEF CancelUpgradeScripts, ControlOK
  <2>3. FilesOK'
    BY <1>17 DEF CancelUpgradeScripts
  <2> QED
    BY <1>17, <2>1, <2>2, <2>3 DEF CancelUpgradeScripts, Finish
<1>18. CASE CancelInstallScripts
  <2>1. ControlOK'
    BY <1>18, FinishOK DEF CancelInstallScripts, ControlOK, CommandNames, Pc
  <2>2. DatabaseOK'
    BY <1>18 DEF CancelInstallScripts, ControlOK
  <2>3. FilesOK'
    BY <1>18 DEF CancelInstallScripts
  <2> QED
    BY <1>18, <2>1, <2>2, <2>3 DEF CancelInstallScripts, Finish
<1>19. CASE CopyInDatabase
  BY <1>19 DEF CopyInDatabase, CopyPackage, Goto, ControlOK, CommandNames, Pc
<1>20. CASE CopyInDatabaseFails
  BY <1>20 DEF CopyInDatabaseFails, Finish, Restored, NoBackup, ControlOK,
     CommandNames, Pc
<1>21. CASE SetUnpacked
  <2>1. ControlOK'
    BY <1>21, GotoOK, FinishOK DEF SetUnpacked, ControlOK, CommandNames, Pc
  <2>2. DatabaseOK'
    BY <1>21 DEF SetUnpacked, ControlOK
  <2>3. FilesOK'
    BY <1>21 DEF SetUnpacked, NoBackup
  <2> QED
    BY <1>21, <2>1, <2>2, <2>3 DEF SetUnpacked, Goto, Finish
<1> QED
  BY <1>1, <1>2, <1>3, <1>4, <1>5, <1>6, <1>7, <1>8, <1>9, <1>9a, <1>10, <1>11,
     <1>12, <1>13, <1>14, <1>15, <1>16, <1>17, <1>18, <1>19, <1>20, <1>21 DEF
     Unpack

LEMMA TypeInvConfigure == ASSUME TypeInv, Configure PROVE TypeInv'
<1> USE VersionAssumption, DataAssumption
    DEF TypeInv, DatabaseOK, FilesOK, UnpackPc, Slot, Content, ConfContent, Status
<1>1. CASE BeginConfigure
  BY <1>1 DEF BeginConfigure, Goto, ControlOK, CommandNames, Pc
<1>2. CASE UseSavedConffile
  <2>1. ControlOK'
    BY <1>2, GotoOK DEF UseSavedConffile, ControlOK, CommandNames, Pc
  <2>2. DatabaseOK'
    BY <1>2 DEF UseSavedConffile, ControlOK
  <2>3. FilesOK'
    BY <1>2 DEF UseSavedConffile
  <2> QED
    BY <1>2, <2>1, <2>2, <2>3 DEF UseSavedConffile, Goto
<1>3. CASE UseNewConffile
  BY <1>3 DEF UseNewConffile, Goto, ControlOK, CommandNames, Pc
<1>4. CASE KeepConffile
  BY <1>4 DEF KeepConffile, Goto, ControlOK, CommandNames, Pc
<1>5. CASE RetireConffile
  <2>1. ControlOK'
    BY <1>5, GotoOK DEF RetireConffile, ControlOK, CommandNames, Pc
  <2>2. DatabaseOK'
    BY <1>5 DEF RetireConffile, ControlOK
  <2>3. FilesOK'
    BY <1>5 DEF RetireConffile
  <2> QED
    BY <1>5, <2>1, <2>2, <2>3 DEF RetireConffile, Goto
<1>6. CASE ReplaceConffile
  BY <1>6 DEF ReplaceConffile, Goto, ControlOK, CommandNames, Pc
<1>7. CASE ConffileFails
  <2>1. ControlOK'
    BY <1>7, GotoOK DEF ConffileFails, ControlOK, Pc
  <2>2. DatabaseOK' /\ FilesOK'
    BY <1>7 DEF ConffileFails
  <2> QED
    BY <1>7, <2>1, <2>2 DEF ConffileFails, Goto
<1>8. CASE PostinstScripts
  <2>1. ControlOK'
    BY <1>8, FinishOK DEF PostinstScripts, ControlOK, CommandNames, Pc
  <2>2. DatabaseOK'
    BY <1>8 DEF PostinstScripts, ControlOK
  <2>3. FilesOK'
    BY <1>8 DEF PostinstScripts
  <2> QED
    BY <1>8, <2>1, <2>2, <2>3 DEF PostinstScripts, Finish
<1>9. CASE RetireConffileFails
  BY <1>9 DEF RetireConffileFails, Finish, ControlOK, CommandNames, Pc
<1> QED
  BY <1>1, <1>2, <1>3, <1>4, <1>5, <1>6, <1>7, <1>8, <1>9 DEF Configure

LEMMA TypeInvRemove == ASSUME TypeInv, Remove PROVE TypeInv'
<1> USE VersionAssumption, DataAssumption
    DEF TypeInv, DatabaseOK, FilesOK, UnpackPc, Slot, Content, ConfContent, Status
<1>1. CASE RemoveStatus
  BY <1>1 DEF RemoveStatus, PrermStatus, Goto, ControlOK, CommandNames, Pc
<1>2. CASE RemoveScripts
  <2>1. ControlOK'
    BY <1>2, GotoOK, FinishOK DEF RemoveScripts, PrermScripts, ControlOK,
       CommandNames, Pc
  <2>2. DatabaseOK'
    BY <1>2 DEF RemoveScripts, PrermScripts, ControlOK
  <2>3. FilesOK'
    BY <1>2 DEF RemoveScripts, PrermScripts
  <2> QED
    BY <1>2, <2>1, <2>2, <2>3 DEF RemoveScripts, PrermScripts, Goto, Finish
<1>3. CASE BeginRemove
  BY <1>3 DEF BeginRemove, GotoLoop, ControlOK, CommandNames, Pc
<1>4. ASSUME NEW p \in Path, RemoveFile(p) PROVE TypeInv'
  BY <1>4 DEF RemoveFile, GotoLoop, Backup, ControlOK, CommandNames, Pc
<1>5. ASSUME NEW p \in Path, RemoveFileFails(p) PROVE TypeInv'
  BY <1>5 DEF RemoveFileFails, GotoLoop, Backup, ControlOK, CommandNames, Pc
<1>6. CASE AbortRemove
  <2>1. ControlOK'
    BY <1>6, FinishOK DEF AbortRemove, ControlOK, CommandNames, Pc
  <2>2. DatabaseOK'
    BY <1>6 DEF AbortRemove, ControlOK
  <2>3. FilesOK'
    BY <1>6 DEF AbortRemove, Restored, NoBackup
  <2> QED
    BY <1>6, <2>1, <2>2, <2>3 DEF AbortRemove, Finish
<1>7. CASE EndRemove
  BY <1>7 DEF EndRemove, Goto, ControlOK, CommandNames, Pc
<1>8. CASE FinishRemove
  <2>1. ControlOK'
    BY <1>8, FinishOK DEF FinishRemove, ControlOK, CommandNames, Pc
  <2>2. DatabaseOK'
    BY <1>8 DEF FinishRemove, ControlOK
  <2>3. FilesOK'
    BY <1>8 DEF FinishRemove, NoBackup
  <2> QED
    BY <1>8, <2>1, <2>2, <2>3 DEF FinishRemove, Finish
<1> QED
  BY <1>1, <1>2, <1>3, <1>4, <1>5, <1>6, <1>7, <1>8 DEF Remove

LEMMA TypeInvDeconfigure == ASSUME TypeInv, Deconfigure PROVE TypeInv'
<1> USE VersionAssumption, DataAssumption
    DEF TypeInv, DatabaseOK, FilesOK, UnpackPc, Slot, Content, ConfContent, Status
<1>1. CASE DeconfigureStatus
  BY <1>1 DEF DeconfigureStatus, PrermStatus, Goto, ControlOK, CommandNames,
     Pc
<1>2. CASE DeconfigureScripts
  <2>1. ControlOK'
    BY <1>2, GotoOK, FinishOK DEF DeconfigureScripts, PrermScripts, ControlOK,
       CommandNames, Pc
  <2>2. DatabaseOK'
    BY <1>2 DEF DeconfigureScripts, PrermScripts, ControlOK
  <2>3. FilesOK'
    BY <1>2 DEF DeconfigureScripts, PrermScripts
  <2> QED
    BY <1>2, <2>1, <2>2, <2>3 DEF DeconfigureScripts, PrermScripts, Goto,
       Finish
<1>3. CASE BeginDeconfigure
  BY <1>3 DEF BeginDeconfigure, Goto, ControlOK, CommandNames, Pc
<1>4. CASE SaveConffile
  <2>1. ControlOK'
    BY <1>4, GotoOK DEF SaveConffile, ControlOK, CommandNames, Pc
  <2>2. DatabaseOK'
    BY <1>4 DEF SaveConffile, ControlOK
  <2>3. FilesOK'
    BY <1>4 DEF SaveConffile
  <2> QED
    BY <1>4, <2>1, <2>2, <2>3 DEF SaveConffile, Goto
<1>5. CASE PurgeConffile
  <2>1. ControlOK'
    BY <1>5, GotoOK DEF PurgeConffile, ControlOK, CommandNames, Pc
  <2>2. DatabaseOK'
    BY <1>5 DEF PurgeConffile, ControlOK
  <2>3. FilesOK'
    BY <1>5 DEF PurgeConffile
  <2> QED
    BY <1>5, <2>1, <2>2, <2>3 DEF PurgeConffile, Goto
<1>6. CASE DeconfigureFails
  BY <1>6 DEF DeconfigureFails, Finish, ControlOK, CommandNames, Pc
<1>7. CASE FinishDeconfigure
  BY <1>7 DEF FinishDeconfigure, Finish, ControlOK, CommandNames, Pc
<1>8. CASE SaveConffileFails
  BY <1>8 DEF SaveConffileFails, Goto, ControlOK, CommandNames, Pc
<1> QED
  BY <1>1, <1>2, <1>3, <1>4, <1>5, <1>6, <1>7, <1>8 DEF Deconfigure

LEMMA TypeInvWorld ==
    ASSUME TypeInv, Crash \/ RemoveLock \/ EditConffile PROVE TypeInv'
<1> USE VersionAssumption DEF TypeInv, DatabaseOK, FilesOK, UnpackPc, Content,
    ConfContent, Status
<1>1. CASE Crash
  <2>1. ControlOK'
    BY <1>1 DEF Crash, ControlOK, Pc
  <2>2. DatabaseOK' /\ FilesOK'
    BY <1>1 DEF Crash, NoBackup
  <2> QED
    BY <1>1, <2>1, <2>2 DEF Crash
<1>2. CASE RemoveLock
  <2>1. ControlOK'
    BY <1>2 DEF RemoveLock, ControlOK
  <2>2. DatabaseOK' /\ FilesOK'
    BY <1>2 DEF RemoveLock
  <2> QED
    BY <1>2, <2>1, <2>2 DEF RemoveLock
<1>3. CASE EditConffile
  BY <1>3 DEF EditConffile, ControlOK, control
<1> QED
  BY <1>1, <1>2, <1>3

LEMMA TypeInvInit == ASSUME Init PROVE TypeInv
<1>1. ControlOK
  BY DEF Init, ControlOK, Pc, Status
<1>2. DatabaseOK
  BY DEF Init, DatabaseOK, Status
<1>3. FilesOK
  BY DEF Init, FilesOK, Content, ConfContent, NoBackup
<1> QED
  BY <1>1, <1>2, <1>3 DEF Init, TypeInv, UnpackPc

LEMMA TypeInvNext == ASSUME TypeInv, [Next]_vars PROVE TypeInv'
<1>1. CASE Next
  BY <1>1, TypeInvValidate, TypeInvUnpack, TypeInvConfigure, TypeInvRemove,
     TypeInvDeconfigure, TypeInvWorld DEF Next, Step
<1>2. CASE UNCHANGED vars
  BY <1>2 DEF vars, control, TypeInv, ControlOK, DatabaseOK, FilesOK
<1> QED
  BY <1>1, <1>2

LEMMA TypeInvariant == Spec => []TypeInv
<1> QED
  BY TypeInvInit, TypeInvNext, PTL DEF Spec

(* Every variable keeps its type, whatever the commands and the faults:    *)
(* the loops of do_unpack and do_remove only ever visit files of a version *)
(* the database really describes.                                          *)
THEOREM TypeCorrect == Spec => []TypeOK
<1>1. TypeInv => TypeOK
  BY DEF TypeInv, ControlOK, DatabaseOK, FilesOK, TypeOK
<1> QED
  BY <1>1, TypeInvariant, PTL

-----------------------------------------------------------------------------
(* Every action keeps the invariant, as long as nobody reconfigures.       *)

LEMMA SafeValidate ==
    ASSUME "reconfigure" \notin Commands, "space" \notin Faults, IInv, TypeInv', Validate
    PROVE  IInv'
<1> USE SlotAssumption, VersionAssumption, DataAssumption, ContentAssumption
    DEF IInv, Progress, BackupScope, StatusHonest, DatabaseVersion,
        OldFiles, NewFiles, KeptFiles, FilesPresent, FilesRestorable,
        Extracted, Restored, NoBackup, FilesOK, Slot, InstalledFilesPresent,
        TypeInv, ControlOK, DatabaseOK, UnpackPc, UpgradePc, BackupPc,
        Upgrade, Reconfigure, Goto, GotoLoop, Finish
<1>1. ASSUME NEW v \in Version, StartInstall(v) PROVE IInv'
  BY <1>1 DEF StartInstall, Start
<1>2. ASSUME NEW v \in Version, StartUnpack(v) PROVE IInv'
  BY <1>2 DEF StartUnpack, Start, ValidUnpack
<1>3. CASE StartConfigure
  BY <1>3 DEF StartConfigure, Start
<1>4. CASE StartReconfigure
  BY <1>4 DEF StartReconfigure, Start
<1>5. CASE StartRemove
  BY <1>5 DEF StartRemove, Start
<1>6. CASE StartPurge
  BY <1>6 DEF StartPurge, Start
<1>7. CASE StartDeconfigure
  BY <1>7 DEF StartDeconfigure, Start
<1> QED
  BY <1>1, <1>2, <1>3, <1>4, <1>5, <1>6, <1>7 DEF Validate

LEMMA SafeUnpack ==
    ASSUME "reconfigure" \notin Commands, "space" \notin Faults, IInv, TypeInv', Unpack
    PROVE  IInv'
<1> USE SlotAssumption, VersionAssumption, DataAssumption, ContentAssumption
    DEF IInv, Progress, BackupScope, StatusHonest, DatabaseVersion,
        OldFiles, NewFiles, KeptFiles, FilesPresent, FilesRestorable,
        Extracted, Restored, NoBackup, FilesOK, Slot, InstalledFilesPresent,
        TypeInv, ControlOK, DatabaseOK, UnpackPc, UpgradePc, BackupPc,
        Upgrade, Reconfigure, Goto, GotoLoop, Finish
<1>1. CASE BeginUpgrade
  BY <1>1 DEF BeginUpgrade
<1>2. CASE BeginInstall
  BY <1>2 DEF BeginInstall, CopyPackage
<1>3. CASE PreupgradeScripts
  BY <1>3 DEF PreupgradeScripts
<1>4. CASE AbortPrerm
  BY <1>4 DEF AbortPrerm
<1>5. CASE PreinstScripts
  BY <1>5 DEF PreinstScripts
<1>6. CASE AbortPreinst
  BY <1>6 DEF AbortPreinst
<1>7. CASE BeginExtract
  BY <1>7 DEF BeginExtract, Transaction
<1>8. ASSUME NEW s \in Slot, UnpackFile(s) PROVE IInv'
  <2>1. (cmd # "reconfigure")'
    BY <1>8 DEF UnpackFile, Backup
  <2>2. InstalledFilesPresent'
    BY <1>8 DEF UnpackFile, Backup
  <2>3. BackupScope'
    BY <1>8 DEF UnpackFile, Backup
  <2>4. StatusHonest'
    BY <1>8 DEF UnpackFile, Backup
  <2>5. DatabaseVersion'
    BY <1>8 DEF UnpackFile, Backup
  <2>6. OldFiles'
    BY <1>8 DEF UnpackFile, Backup
  <2>7. NewFiles'
    <3>1. Extracted(Data[target] \ todo)
      BY <1>8 DEF UnpackFile
    <3>2. disk'[s] = target' /\ saved'[s] # NotSaved
      BY <1>8 DEF UnpackFile, Backup, Content
    <3>3. ASSUME NEW p \in Data[target'] \ todo'
          PROVE  disk'[p] = target' /\ saved'[p] # NotSaved
      <4>1. p \in Slot
        BY <1>8 DEF UnpackFile
      <4>2. CASE p = s
        BY <3>2, <4>2
      <4>3. CASE p # s
        BY <1>8, <3>1, <4>1, <4>3 DEF UnpackFile, Backup
      <4> QED
        BY <4>2, <4>3
    <3> QED
      BY <1>8, <3>3 DEF UnpackFile
  <2>8. KeptFiles'
    BY <1>8 DEF UnpackFile, Backup
  <2> QED
    BY <2>1, <2>2, <2>3, <2>4, <2>5, <2>6, <2>7, <2>8
<1>9. ASSUME NEW s \in Slot, UnpackFileFails(s) PROVE IInv'
  BY <1>9 DEF UnpackFileFails, Backup
<1>9a. ASSUME NEW s \in Slot, UnpackFileShort(s) PROVE IInv'
  BY <1>9a DEF UnpackFileShort, Fault
<1>10. CASE EndExtract
  BY <1>10 DEF EndExtract
<1>11. CASE PostupgradeScripts
  BY <1>11 DEF PostupgradeScripts
<1>12. ASSUME NEW p \in Path, DropOldFile(p) PROVE IInv'
  BY <1>12 DEF DropOldFile, Backup, BackupDone
<1>13. ASSUME NEW p \in Path, DropOldFileIgnored(p) PROVE IInv'
  BY <1>13 DEF DropOldFileIgnored, Backup, BackupDone
<1>14. ASSUME NEW p \in Path, DropOldFileFails(p) PROVE IInv'
  BY <1>14 DEF DropOldFileFails, BackupDone
<1>15. CASE EndDropOld
  BY <1>15 DEF EndDropOld
<1>16. CASE CancelStatus
  BY <1>16 DEF CancelStatus
<1>17. CASE CancelUpgradeScripts
  BY <1>17 DEF CancelUpgradeScripts
<1>18. CASE CancelInstallScripts
  BY <1>18 DEF CancelInstallScripts
<1>19. CASE CopyInDatabase
  BY <1>19 DEF CopyInDatabase, CopyPackage
<1>20. CASE CopyInDatabaseFails
  BY <1>20 DEF CopyInDatabaseFails
<1>21. CASE SetUnpacked
  BY <1>21 DEF SetUnpacked
<1> QED
  BY <1>1, <1>2, <1>3, <1>4, <1>5, <1>6, <1>7, <1>8, <1>9, <1>9a, <1>10, <1>11,
     <1>12, <1>13, <1>14, <1>15, <1>16, <1>17, <1>18, <1>19, <1>20, <1>21 DEF
     Unpack

LEMMA SafeConfigure ==
    ASSUME "reconfigure" \notin Commands, "space" \notin Faults, IInv, TypeInv', Configure
    PROVE  IInv'
<1> USE SlotAssumption, VersionAssumption, DataAssumption, ContentAssumption
    DEF IInv, Progress, BackupScope, StatusHonest, DatabaseVersion,
        OldFiles, NewFiles, KeptFiles, FilesPresent, FilesRestorable,
        Extracted, Restored, NoBackup, FilesOK, Slot, InstalledFilesPresent,
        TypeInv, ControlOK, DatabaseOK, UnpackPc, UpgradePc, BackupPc,
        Upgrade, Reconfigure, Goto, GotoLoop, Finish
<1>1. CASE BeginConfigure
  BY <1>1 DEF BeginConfigure
<1>2. CASE UseSavedConffile
  BY <1>2 DEF UseSavedConffile
<1>3. CASE UseNewConffile
  BY <1>3 DEF UseNewConffile
<1>4. CASE KeepConffile
  BY <1>4 DEF KeepConffile
<1>5. CASE RetireConffile
  BY <1>5 DEF RetireConffile
<1>6. CASE ReplaceConffile
  BY <1>6 DEF ReplaceConffile
<1>7. CASE ConffileFails
  BY <1>7 DEF ConffileFails
<1>8. CASE PostinstScripts
  BY <1>8 DEF PostinstScripts
<1>9. CASE RetireConffileFails
  BY <1>9 DEF RetireConffileFails
<1> QED
  BY <1>1, <1>2, <1>3, <1>4, <1>5, <1>6, <1>7, <1>8, <1>9 DEF Configure

LEMMA SafeRemove ==
    ASSUME "reconfigure" \notin Commands, "space" \notin Faults, IInv, TypeInv', Remove
    PROVE  IInv'
<1> USE SlotAssumption, VersionAssumption, DataAssumption, ContentAssumption
    DEF IInv, Progress, BackupScope, StatusHonest, DatabaseVersion,
        OldFiles, NewFiles, KeptFiles, FilesPresent, FilesRestorable,
        Extracted, Restored, NoBackup, FilesOK, Slot, InstalledFilesPresent,
        TypeInv, ControlOK, DatabaseOK, UnpackPc, UpgradePc, BackupPc,
        Upgrade, Reconfigure, Goto, GotoLoop, Finish
<1>1. CASE RemoveStatus
  BY <1>1 DEF RemoveStatus, PrermStatus
<1>2. CASE RemoveScripts
  BY <1>2 DEF RemoveScripts, PrermScripts
<1>3. CASE BeginRemove
  BY <1>3 DEF BeginRemove
<1>4. ASSUME NEW p \in Path, RemoveFile(p) PROVE IInv'
  BY <1>4 DEF RemoveFile, Backup
<1>5. ASSUME NEW p \in Path, RemoveFileFails(p) PROVE IInv'
  BY <1>5 DEF RemoveFileFails, Backup
<1>6. CASE AbortRemove
  BY <1>6 DEF AbortRemove
<1>7. CASE EndRemove
  BY <1>7 DEF EndRemove
<1>8. CASE FinishRemove
  BY <1>8 DEF FinishRemove
<1> QED
  BY <1>1, <1>2, <1>3, <1>4, <1>5, <1>6, <1>7, <1>8 DEF Remove

LEMMA SafeDeconfigure ==
    ASSUME "reconfigure" \notin Commands, "space" \notin Faults, IInv, TypeInv', Deconfigure
    PROVE  IInv'
<1> USE SlotAssumption, VersionAssumption, DataAssumption, ContentAssumption
    DEF IInv, Progress, BackupScope, StatusHonest, DatabaseVersion,
        OldFiles, NewFiles, KeptFiles, FilesPresent, FilesRestorable,
        Extracted, Restored, NoBackup, FilesOK, Slot, InstalledFilesPresent,
        TypeInv, ControlOK, DatabaseOK, UnpackPc, UpgradePc, BackupPc,
        Upgrade, Reconfigure, Goto, GotoLoop, Finish
<1>1. CASE DeconfigureStatus
  BY <1>1 DEF DeconfigureStatus, PrermStatus
<1>2. CASE DeconfigureScripts
  BY <1>2 DEF DeconfigureScripts, PrermScripts
<1>3. CASE BeginDeconfigure
  BY <1>3 DEF BeginDeconfigure
<1>4. CASE SaveConffile
  BY <1>4 DEF SaveConffile, Deconfiguring
<1>5. CASE PurgeConffile
  BY <1>5 DEF PurgeConffile, Deconfiguring
<1>6. CASE DeconfigureFails
  BY <1>6 DEF DeconfigureFails, Deconfiguring
<1>7. CASE FinishDeconfigure
  BY <1>7 DEF FinishDeconfigure, Deconfiguring
<1>8. CASE SaveConffileFails
  BY <1>8 DEF SaveConffileFails
<1> QED
  BY <1>1, <1>2, <1>3, <1>4, <1>5, <1>6, <1>7, <1>8 DEF Deconfigure

LEMMA SafeWorld ==
    ASSUME IInv, TypeInv', Crash \/ RemoveLock \/ EditConffile
    PROVE  IInv'
<1> USE DEF IInv, Progress, BackupScope, StatusHonest, DatabaseVersion, OldFiles,
        NewFiles, KeptFiles, InstalledFilesPresent, FilesPresent,
        FilesRestorable, Extracted, Restored, UnpackPc, UpgradePc, BackupPc,
        Upgrade
<1>1. CASE Crash
  BY <1>1 DEF Crash
<1>2. CASE RemoveLock
  BY <1>2 DEF RemoveLock
<1>3. CASE EditConffile
  BY <1>3 DEF EditConffile, control
<1> QED
  BY <1>1, <1>2, <1>3

LEMMA SafeInit == ASSUME Init PROVE IInv
<1>1. TypeInv
  BY TypeInvInit
<1>2. Progress
  BY DEF Init, Progress, BackupScope, StatusHonest, DatabaseVersion, OldFiles,
     NewFiles, KeptFiles, UnpackPc, UpgradePc, BackupPc
<1> QED
  BY <1>1, <1>2 DEF Init, IInv, InstalledFilesPresent

LEMMA SafeNext ==
    ASSUME "reconfigure" \notin Commands, "space" \notin Faults, IInv, [Next]_vars PROVE IInv'
<1>1. TypeInv'
  BY TypeInvNext DEF IInv
<1>2. CASE Next
  BY <1>1, <1>2, SafeValidate, SafeUnpack, SafeConfigure, SafeRemove,
     SafeDeconfigure, SafeWorld DEF Next, Step
<1>3. CASE UNCHANGED vars
  BY <1>1, <1>3 DEF vars, control, IInv, Progress, BackupScope, StatusHonest,
     DatabaseVersion, OldFiles, NewFiles, KeptFiles, InstalledFilesPresent,
     FilesPresent, FilesRestorable, Extracted, Restored, Upgrade
<1> QED
  BY <1>2, <1>3

LEMMA Inductive ==
    ASSUME "reconfigure" \notin Commands, "space" \notin Faults PROVE Spec => []IInv
BY SafeInit, SafeNext, PTL DEF Spec

(* With neither --reconfigure nor a full disk, X-Status never lies about   *)
(* the data files: at any step of any command, under any other fault and   *)
(* after a crash anywhere, a package marked Installed or Unpacked has      *)
(* every file of the version the database describes (do_unpack, do_remove, *)
(* wpkgar_backup).                                                         *)
THEOREM InstalledIsTrue ==
    ASSUME "reconfigure" \notin Commands, "space" \notin Faults PROVE Spec => []InstalledFilesPresent
<1>1. IInv => InstalledFilesPresent
  BY DEF IInv
<1> QED
  BY <1>1, Inductive, PTL

(* With neither --reconfigure nor a full disk, the scripts that cancel an  *)
(* upgrade always run over the files of the old version                    *)
(* (cancel_upgrade_scripts), however far the extraction and the deletions  *)
(* had gone.                                                               *)
THEOREM CancelIsTotal ==
    ASSUME "reconfigure" \notin Commands, "space" \notin Faults PROVE Spec => []CancelSeesOldFiles
<1>1. IInv => CancelSeesOldFiles
  BY DEF IInv, Progress, OldFiles, FilesPresent, CancelSeesOldFiles
<1> QED
  BY <1>1, Inductive, PTL
-----------------------------------------------------------------------------
(* Commands that end, rest.                                                *)

Transient == {"installing", "upgrading", "removing"}

(* The status that each place of the code finds, and what the package was  *)
(* when it was validated.                                                  *)
StatusAt ==
    /\ pc \in {"preupgrade", "preinst", "extract", "postupgrade", "cancel_scripts",
               "abort_remove", "postrm"} => status = "half_installed"
    /\ pc \in {"abort_prerm", "conffile", "swap_conf", "postinst", "deconf_file",
               "deconf_done"} => status = "half_configured"
    /\ pc = "abort_preinst" => status = "unpacked"
    /\ pc \in {"prerm_scripts", "deconf_prerm"}
           => status \in {"half_installed", "half_configured"}
    /\ orig \notin Transient
    /\ pc \in UpgradePc => orig = "installed"
    /\ pc # "idle" => locked
    /\ StatusHonest

LEMMA StatusAtValidate ==
    ASSUME StatusAt, Validate
    PROVE  StatusAt'
<1> USE DEF StatusAt, StatusHonest, BackupPc, UpgradePc, Upgrade, Transient,
        Start, Goto, GotoLoop, Finish
<1>1. ASSUME NEW v \in Version, StartInstall(v) PROVE StatusAt'
  BY <1>1 DEF StartInstall, Start
<1>2. ASSUME NEW v \in Version, StartUnpack(v) PROVE StatusAt'
  BY <1>2 DEF StartUnpack, Start, ValidUnpack
<1>3. CASE StartConfigure
  BY <1>3 DEF StartConfigure, Start
<1>4. CASE StartReconfigure
  BY <1>4 DEF StartReconfigure, Start
<1>5. CASE StartRemove
  BY <1>5 DEF StartRemove, Start
<1>6. CASE StartPurge
  BY <1>6 DEF StartPurge, Start
<1>7. CASE StartDeconfigure
  BY <1>7 DEF StartDeconfigure, Start
<1> QED
  BY <1>1, <1>2, <1>3, <1>4, <1>5, <1>6, <1>7 DEF Validate

LEMMA StatusAtUnpack ==
    ASSUME StatusAt, Unpack
    PROVE  StatusAt'
<1> USE DEF StatusAt, StatusHonest, BackupPc, UpgradePc, Upgrade, Transient,
        Start, Goto, GotoLoop, Finish
<1>1. CASE BeginUpgrade
  BY <1>1 DEF BeginUpgrade
<1>2. CASE BeginInstall
  BY <1>2 DEF BeginInstall, CopyPackage
<1>3. CASE PreupgradeScripts
  BY <1>3 DEF PreupgradeScripts
<1>4. CASE AbortPrerm
  BY <1>4 DEF AbortPrerm
<1>5. CASE PreinstScripts
  BY <1>5 DEF PreinstScripts
<1>6. CASE AbortPreinst
  BY <1>6 DEF AbortPreinst
<1>7. CASE BeginExtract
  BY <1>7 DEF BeginExtract, Transaction
<1>8. ASSUME NEW s \in Slot, UnpackFile(s) PROVE StatusAt'
  BY <1>8 DEF UnpackFile, Backup
<1>9. ASSUME NEW s \in Slot, UnpackFileFails(s) PROVE StatusAt'
  BY <1>9 DEF UnpackFileFails, Backup
<1>10. ASSUME NEW s \in Slot, UnpackFileShort(s) PROVE StatusAt'
  BY <1>10 DEF UnpackFileShort, Backup, BackupDone
<1>11. CASE EndExtract
  BY <1>11 DEF EndExtract
<1>12. CASE PostupgradeScripts
  BY <1>12 DEF PostupgradeScripts
<1>13. ASSUME NEW p \in Path, DropOldFile(p) PROVE StatusAt'
  BY <1>13 DEF DropOldFile, Backup, BackupDone
<1>14. ASSUME NEW p \in Path, DropOldFileIgnored(p) PROVE StatusAt'
  BY <1>14 DEF DropOldFileIgnored, Backup, BackupDone
<1>15. ASSUME NEW p \in Path, DropOldFileFails(p) PROVE StatusAt'
  BY <1>15 DEF DropOldFileFails, BackupDone
<1>16. CASE EndDropOld
  BY <1>16 DEF EndDropOld
<1>17. CASE CancelStatus
  BY <1>17 DEF CancelStatus
<1>18. CASE CancelUpgradeScripts
  BY <1>18 DEF CancelUpgradeScripts
<1>19. CASE CancelInstallScripts
  BY <1>19 DEF CancelInstallScripts
<1>20. CASE CopyInDatabase
  BY <1>20 DEF CopyInDatabase, CopyPackage
<1>21. CASE CopyInDatabaseFails
  BY <1>21 DEF CopyInDatabaseFails
<1>22. CASE SetUnpacked
  BY <1>22 DEF SetUnpacked
<1> QED
  BY <1>1, <1>2, <1>3, <1>4, <1>5, <1>6, <1>7, <1>8, <1>9, <1>10, <1>11, <1>12,
     <1>13, <1>14, <1>15, <1>16, <1>17, <1>18, <1>19, <1>20, <1>21, <1>22 DEF
     Unpack

LEMMA StatusAtConfigure ==
    ASSUME StatusAt, Configure
    PROVE  StatusAt'
<1> USE DEF StatusAt, StatusHonest, BackupPc, UpgradePc, Upgrade, Transient,
        Start, Goto, GotoLoop, Finish
<1>1. CASE BeginConfigure
  BY <1>1 DEF BeginConfigure
<1>2. CASE UseSavedConffile
  BY <1>2 DEF UseSavedConffile
<1>3. CASE UseNewConffile
  BY <1>3 DEF UseNewConffile
<1>4. CASE KeepConffile
  BY <1>4 DEF KeepConffile
<1>5. CASE RetireConffile
  BY <1>5 DEF RetireConffile
<1>6. CASE RetireConffileFails
  BY <1>6 DEF RetireConffileFails
<1>7. CASE ReplaceConffile
  BY <1>7 DEF ReplaceConffile
<1>8. CASE ConffileFails
  BY <1>8 DEF ConffileFails
<1>9. CASE PostinstScripts
  BY <1>9 DEF PostinstScripts
<1> QED
  BY <1>1, <1>2, <1>3, <1>4, <1>5, <1>6, <1>7, <1>8, <1>9 DEF Configure

LEMMA StatusAtRemove ==
    ASSUME StatusAt, Remove
    PROVE  StatusAt'
<1> USE DEF StatusAt, StatusHonest, BackupPc, UpgradePc, Upgrade, Transient,
        Start, Goto, GotoLoop, Finish
<1>1. CASE RemoveStatus
  BY <1>1 DEF RemoveStatus, PrermStatus
<1>2. CASE RemoveScripts
  BY <1>2 DEF RemoveScripts, PrermScripts
<1>3. CASE BeginRemove
  BY <1>3 DEF BeginRemove
<1>4. ASSUME NEW p \in Path, RemoveFile(p) PROVE StatusAt'
  BY <1>4 DEF RemoveFile, Backup
<1>5. ASSUME NEW p \in Path, RemoveFileFails(p) PROVE StatusAt'
  BY <1>5 DEF RemoveFileFails, Backup
<1>6. CASE AbortRemove
  BY <1>6 DEF AbortRemove
<1>7. CASE EndRemove
  BY <1>7 DEF EndRemove
<1>8. CASE FinishRemove
  BY <1>8 DEF FinishRemove
<1> QED
  BY <1>1, <1>2, <1>3, <1>4, <1>5, <1>6, <1>7, <1>8 DEF Remove

LEMMA StatusAtDeconfigure ==
    ASSUME StatusAt, Deconfigure
    PROVE  StatusAt'
<1> USE DEF StatusAt, StatusHonest, BackupPc, UpgradePc, Upgrade, Transient,
        Start, Goto, GotoLoop, Finish
<1>1. CASE DeconfigureStatus
  BY <1>1 DEF DeconfigureStatus, PrermStatus
<1>2. CASE DeconfigureScripts
  BY <1>2 DEF DeconfigureScripts, PrermScripts
<1>3. CASE BeginDeconfigure
  BY <1>3 DEF BeginDeconfigure
<1>4. CASE SaveConffile
  BY <1>4 DEF SaveConffile, Deconfiguring
<1>5. CASE SaveConffileFails
  BY <1>5 DEF SaveConffileFails, Deconfiguring
<1>6. CASE PurgeConffile
  BY <1>6 DEF PurgeConffile, Deconfiguring
<1>7. CASE DeconfigureFails
  BY <1>7 DEF DeconfigureFails, Deconfiguring
<1>8. CASE FinishDeconfigure
  BY <1>8 DEF FinishDeconfigure, Deconfiguring
<1> QED
  BY <1>1, <1>2, <1>3, <1>4, <1>5, <1>6, <1>7, <1>8 DEF Deconfigure

LEMMA StatusAtWorld ==
    ASSUME StatusAt, Crash \/ RemoveLock \/ EditConffile
    PROVE  StatusAt'
<1> USE DEF StatusAt, StatusHonest, BackupPc, UpgradePc, Upgrade, Transient,
        Start, Goto, GotoLoop, Finish
<1>1. CASE Crash
  BY <1>1 DEF Crash
<1>2. CASE RemoveLock
  BY <1>2 DEF RemoveLock
<1>3. CASE EditConffile
  BY <1>3 DEF EditConffile, control
<1> QED
  BY <1>1, <1>2, <1>3

LEMMA StatusAlwaysAt == Spec => []StatusAt
<1>1. Init => StatusAt
  BY DEF Init, StatusAt, StatusHonest, BackupPc, UpgradePc, Transient
<1>2. StatusAt /\ [Next]_vars => StatusAt'
  <2>1. ASSUME StatusAt, UNCHANGED vars PROVE StatusAt'
    BY <2>1 DEF StatusAt, StatusHonest, vars, control
  <2> QED
    BY <2>1, StatusAtValidate, StatusAtUnpack, StatusAtConfigure, StatusAtRemove,
       StatusAtDeconfigure, StatusAtWorld DEF Next, Step
<1> QED
  BY <1>1, <1>2, PTL DEF Spec

(* Whatever fails, but for the copy of a package into the database, a      *)
(* command that ends by itself leaves a status that later commands accept: *)
(* every early return of do_unpack and do_remove comes after the status    *)
(* was set back.                                                           *)
THEOREM CommandsRest ==
    ASSUME "copy" \notin Faults PROVE Spec => RestsRepairable
<1>1. StatusAt /\ [Next]_vars =>
        [pc # "idle" /\ pc' = "idle" /\ ~locked' =>
             status' \notin {"installing", "upgrading", "removing"}]_vars
  <2> SUFFICES ASSUME StatusAt, Next, pc # "idle", pc' = "idle", ~locked'
               PROVE  status' \notin Transient
    BY DEF Transient
  <2> USE DEF StatusAt, Transient, Goto, GotoLoop, Finish
  <2>1. CASE Validate
    BY <2>1 DEF Validate, StartInstall, Start, StartUnpack, ValidUnpack,
       StartConfigure, StartReconfigure, StartRemove, StartPurge,
       StartDeconfigure, Fault
  <2>2. CASE Unpack
    BY <2>2 DEF Unpack, BeginUpgrade, BeginInstall, CopyPackage,
       PreupgradeScripts, AbortPrerm, PreinstScripts, AbortPreinst,
       BeginExtract, Transaction, UnpackFile, UnpackFileFails, UnpackFileShort,
       EndExtract, PostupgradeScripts, DropOldFile, DropOldFileIgnored,
       DropOldFileFails, EndDropOld, CancelStatus, CancelUpgradeScripts,
       CancelInstallScripts, CopyInDatabase, CopyInDatabaseFails, SetUnpacked,
       Fault
  <2>3. CASE Configure
    BY <2>3 DEF Configure, BeginConfigure, UseSavedConffile, UseNewConffile,
       KeepConffile, RetireConffile, RetireConffileFails, ReplaceConffile,
       ConffileFails, PostinstScripts, Fault
  <2>4. CASE Remove
    BY <2>4 DEF Remove, RemoveStatus, PrermStatus, RemoveScripts, PrermScripts,
       BeginRemove, RemoveFile, RemoveFileFails, AbortRemove, EndRemove,
       FinishRemove, Fault
  <2>5. CASE Deconfigure
    BY <2>5 DEF Deconfigure, DeconfigureStatus, PrermStatus, DeconfigureScripts,
       PrermScripts, BeginDeconfigure, SaveConffile, Deconfiguring,
       SaveConffileFails, PurgeConffile, DeconfigureFails, FinishDeconfigure,
       Fault
  <2>6. CASE Crash \/ RemoveLock \/ EditConffile
    BY <2>6 DEF Crash, RemoveLock, EditConffile, control
  <2> QED
    BY <2>1, <2>2, <2>3, <2>4, <2>5, <2>6 DEF Next, Step
<1> QED
  BY <1>1, StatusAlwaysAt, PTL DEF Spec, RestsRepairable

-----------------------------------------------------------------------------
(* The configuration file.                                                 *)

(* There is something to configure the package with.                       *)
Configurable == conf.main # Absent \/ conf.user # Absent \/ disk[New] # Absent

(* Where the package has its configuration file: before an installed       *)
(* package is touched, and once it is configured.                          *)
MainThere ==
    /\ orig = "installed" /\ pc \in UnpackPc \cup {"prerm", "prerm_scripts", "deconfigure",
           "deconf_prerm", "deconf_scripts", "deconf_file"} => conf.main # Absent
    /\ pc \in {"deconfigure", "deconf_prerm"} => orig # "unpacked"
    /\ pc = "postinst" => conf.main # Absent
    /\ orig = "installed" /\ pc = "deconf_done" => conf.user # Absent

(* Where it must at least be configurable.                                 *)
FreshThere ==
    /\ pc = "unpack_file" => New \in todo \/ disk[New] # Absent
    /\ pc \in {"postupgrade", "drop_old", "copy", "set_unpacked"} => disk[New] # Absent
    /\ pc \in {"configure", "conffile"} => Configurable
    /\ pc = "swap_conf" => conf.main = Absent /\ conf.user = Absent /\ disk[New] # Absent
    /\ orig = "unpacked" /\ pc \in {"prerm", "prerm_scripts"} => Configurable
    /\ status = "unpacked" => Configurable

(* The copy that --deconfigure keeps is the only one: it is moved, both    *)
(* ways.                                                                   *)
OneCopy == conf.user # Absent => conf.main = Absent

ConfInv == TypeInv /\ OneCopy /\ MainThere /\ FreshThere /\ ConffilePresent

LEMMA ConfValidate ==
    ASSUME "rename" \notin Faults, TypeInv', StatusAt, ConfInv, Validate
    PROVE  ConfInv'
<1> USE SlotAssumption, VersionAssumption, ContentAssumption DEF ConfInv,
        StatusAt, StatusHonest, BackupPc, UpgradePc, OneCopy, MainThere,
        FreshThere, ConffilePresent, Configurable, UnpackPc, Slot, Content,
        ConfContent, FilesOK, TypeInv, ControlOK, DatabaseOK, Upgrade,
        Reconfigure, Restored, NoBackup, Start, Goto, GotoLoop, Finish, Fault
<1>1. ASSUME NEW v \in Version, StartInstall(v) PROVE ConfInv'
  BY <1>1 DEF StartInstall, Start
<1>2. ASSUME NEW v \in Version, StartUnpack(v) PROVE ConfInv'
  BY <1>2 DEF StartUnpack, Start, ValidUnpack
<1>3. CASE StartConfigure
  BY <1>3 DEF StartConfigure, Start
<1>4. CASE StartReconfigure
  BY <1>4 DEF StartReconfigure, Start
<1>5. CASE StartRemove
  BY <1>5 DEF StartRemove, Start
<1>6. CASE StartPurge
  BY <1>6 DEF StartPurge, Start
<1>7. CASE StartDeconfigure
  BY <1>7 DEF StartDeconfigure, Start
<1> QED
  BY <1>1, <1>2, <1>3, <1>4, <1>5, <1>6, <1>7 DEF Validate

LEMMA ConfUnpack ==
    ASSUME "rename" \notin Faults, TypeInv', StatusAt, ConfInv, Unpack
    PROVE  ConfInv'
<1> USE SlotAssumption, VersionAssumption, ContentAssumption DEF ConfInv,
        StatusAt, StatusHonest, BackupPc, UpgradePc, OneCopy, MainThere,
        FreshThere, ConffilePresent, Configurable, UnpackPc, Slot, Content,
        ConfContent, FilesOK, TypeInv, ControlOK, DatabaseOK, Upgrade,
        Reconfigure, Restored, NoBackup, Start, Goto, GotoLoop, Finish, Fault
<1>1. CASE BeginUpgrade
  BY <1>1 DEF BeginUpgrade
<1>2. CASE BeginInstall
  BY <1>2 DEF BeginInstall, CopyPackage
<1>3. CASE PreupgradeScripts
  BY <1>3 DEF PreupgradeScripts
<1>4. CASE AbortPrerm
  BY <1>4 DEF AbortPrerm
<1>5. CASE PreinstScripts
  BY <1>5 DEF PreinstScripts
<1>6. CASE AbortPreinst
  BY <1>6 DEF AbortPreinst
<1>7. CASE BeginExtract
  BY <1>7 DEF BeginExtract, Transaction
<1>8. ASSUME NEW s \in Slot, UnpackFile(s) PROVE ConfInv'
  BY <1>8 DEF UnpackFile, Backup
<1>9. ASSUME NEW s \in Slot, UnpackFileFails(s) PROVE ConfInv'
  BY <1>9 DEF UnpackFileFails, Backup
<1>10. ASSUME NEW s \in Slot, UnpackFileShort(s) PROVE ConfInv'
  BY <1>10 DEF UnpackFileShort, Backup, BackupDone
<1>11. CASE EndExtract
  BY <1>11 DEF EndExtract
<1>12. CASE PostupgradeScripts
  BY <1>12 DEF PostupgradeScripts
<1>13. ASSUME NEW p \in Path, DropOldFile(p) PROVE ConfInv'
  BY <1>13 DEF DropOldFile, Backup, BackupDone
<1>14. ASSUME NEW p \in Path, DropOldFileIgnored(p) PROVE ConfInv'
  BY <1>14 DEF DropOldFileIgnored, Backup, BackupDone
<1>15. ASSUME NEW p \in Path, DropOldFileFails(p) PROVE ConfInv'
  BY <1>15 DEF DropOldFileFails, BackupDone
<1>16. CASE EndDropOld
  BY <1>16 DEF EndDropOld
<1>17. CASE CancelStatus
  BY <1>17 DEF CancelStatus
<1>18. CASE CancelUpgradeScripts
  BY <1>18 DEF CancelUpgradeScripts
<1>19. CASE CancelInstallScripts
  BY <1>19 DEF CancelInstallScripts
<1>20. CASE CopyInDatabase
  BY <1>20 DEF CopyInDatabase, CopyPackage
<1>21. CASE CopyInDatabaseFails
  BY <1>21 DEF CopyInDatabaseFails
<1>22. CASE SetUnpacked
  BY <1>22 DEF SetUnpacked
<1> QED
  BY <1>1, <1>2, <1>3, <1>4, <1>5, <1>6, <1>7, <1>8, <1>9, <1>10, <1>11, <1>12,
     <1>13, <1>14, <1>15, <1>16, <1>17, <1>18, <1>19, <1>20, <1>21, <1>22 DEF
     Unpack

LEMMA ConfConfigure ==
    ASSUME "rename" \notin Faults, TypeInv', StatusAt, ConfInv, Configure
    PROVE  ConfInv'
<1> USE SlotAssumption, VersionAssumption, ContentAssumption DEF ConfInv,
        StatusAt, StatusHonest, BackupPc, UpgradePc, OneCopy, MainThere,
        FreshThere, ConffilePresent, Configurable, UnpackPc, Slot, Content,
        ConfContent, FilesOK, TypeInv, ControlOK, DatabaseOK, Upgrade,
        Reconfigure, Restored, NoBackup, Start, Goto, GotoLoop, Finish, Fault
<1>1. CASE BeginConfigure
  BY <1>1 DEF BeginConfigure
<1>2. CASE UseSavedConffile
  BY <1>2 DEF UseSavedConffile
<1>3. CASE UseNewConffile
  BY <1>3 DEF UseNewConffile
<1>4. CASE KeepConffile
  BY <1>4 DEF KeepConffile
<1>5. CASE RetireConffile
  BY <1>5 DEF RetireConffile
<1>6. CASE RetireConffileFails
  BY <1>6 DEF RetireConffileFails
<1>7. CASE ReplaceConffile
  BY <1>7 DEF ReplaceConffile
<1>8. CASE ConffileFails
  BY <1>8 DEF ConffileFails
<1>9. CASE PostinstScripts
  BY <1>9 DEF PostinstScripts
<1> QED
  BY <1>1, <1>2, <1>3, <1>4, <1>5, <1>6, <1>7, <1>8, <1>9 DEF Configure

LEMMA ConfRemove ==
    ASSUME "rename" \notin Faults, TypeInv', StatusAt, ConfInv, Remove
    PROVE  ConfInv'
<1> USE SlotAssumption, VersionAssumption, ContentAssumption DEF ConfInv,
        StatusAt, StatusHonest, BackupPc, UpgradePc, OneCopy, MainThere,
        FreshThere, ConffilePresent, Configurable, UnpackPc, Slot, Content,
        ConfContent, FilesOK, TypeInv, ControlOK, DatabaseOK, Upgrade,
        Reconfigure, Restored, NoBackup, Start, Goto, GotoLoop, Finish, Fault
<1>1. CASE RemoveStatus
  BY <1>1 DEF RemoveStatus, PrermStatus
<1>2. CASE RemoveScripts
  BY <1>2 DEF RemoveScripts, PrermScripts
<1>3. CASE BeginRemove
  BY <1>3 DEF BeginRemove
<1>4. ASSUME NEW p \in Path, RemoveFile(p) PROVE ConfInv'
  BY <1>4 DEF RemoveFile, Backup
<1>5. ASSUME NEW p \in Path, RemoveFileFails(p) PROVE ConfInv'
  BY <1>5 DEF RemoveFileFails, Backup
<1>6. CASE AbortRemove
  BY <1>6 DEF AbortRemove
<1>7. CASE EndRemove
  BY <1>7 DEF EndRemove
<1>8. CASE FinishRemove
  BY <1>8 DEF FinishRemove
<1> QED
  BY <1>1, <1>2, <1>3, <1>4, <1>5, <1>6, <1>7, <1>8 DEF Remove

LEMMA ConfDeconfigure ==
    ASSUME "rename" \notin Faults, TypeInv', StatusAt, ConfInv, Deconfigure
    PROVE  ConfInv'
<1> USE SlotAssumption, VersionAssumption, ContentAssumption DEF ConfInv,
        StatusAt, StatusHonest, BackupPc, UpgradePc, OneCopy, MainThere,
        FreshThere, ConffilePresent, Configurable, UnpackPc, Slot, Content,
        ConfContent, FilesOK, TypeInv, ControlOK, DatabaseOK, Upgrade,
        Reconfigure, Restored, NoBackup, Start, Goto, GotoLoop, Finish, Fault
<1>1. CASE DeconfigureStatus
  BY <1>1 DEF DeconfigureStatus, PrermStatus
<1>2. CASE DeconfigureScripts
  BY <1>2 DEF DeconfigureScripts, PrermScripts
<1>3. CASE BeginDeconfigure
  BY <1>3 DEF BeginDeconfigure
<1>4. CASE SaveConffile
  BY <1>4 DEF SaveConffile, Deconfiguring
<1>5. CASE SaveConffileFails
  BY <1>5 DEF SaveConffileFails, Deconfiguring
<1>6. CASE PurgeConffile
  BY <1>6 DEF PurgeConffile, Deconfiguring
<1>7. CASE DeconfigureFails
  BY <1>7 DEF DeconfigureFails, Deconfiguring
<1>8. CASE FinishDeconfigure
  BY <1>8 DEF FinishDeconfigure, Deconfiguring
<1> QED
  BY <1>1, <1>2, <1>3, <1>4, <1>5, <1>6, <1>7, <1>8 DEF Deconfigure

LEMMA ConfWorld ==
    ASSUME TypeInv', StatusAt, ConfInv, Crash \/ RemoveLock \/ EditConffile
    PROVE  ConfInv'
<1> USE SlotAssumption, VersionAssumption, ContentAssumption DEF ConfInv,
        StatusAt, StatusHonest, BackupPc, UpgradePc, OneCopy, MainThere,
        FreshThere, ConffilePresent, Configurable, UnpackPc, Slot, Content,
        ConfContent, FilesOK, TypeInv, ControlOK, DatabaseOK, Upgrade,
        Reconfigure, Restored, NoBackup, Start, Goto, GotoLoop, Finish, Fault
<1>1. CASE Crash
  BY <1>1 DEF Crash
<1>2. CASE RemoveLock
  BY <1>2 DEF RemoveLock
<1>3. CASE EditConffile
  BY <1>3 DEF EditConffile, control
<1> QED
  BY <1>1, <1>2, <1>3

LEMMA ConfAlways == ASSUME "rename" \notin Faults PROVE Spec => []ConfInv
<1>1. Init => ConfInv
  <2> SUFFICES ASSUME Init PROVE ConfInv
    OBVIOUS
  <2>1. TypeInv
    BY TypeInvInit
  <2>2. OneCopy /\ MainThere /\ FreshThere /\ ConffilePresent
    BY DEF Init, OneCopy, MainThere, FreshThere, ConffilePresent, UnpackPc
  <2> QED
    BY <2>1, <2>2 DEF ConfInv
<1>2. StatusAt /\ ConfInv /\ [Next]_vars => ConfInv'
  <2>1. ASSUME ConfInv, [Next]_vars PROVE TypeInv'
    BY <2>1, TypeInvNext DEF ConfInv
  <2>2. ASSUME ConfInv, UNCHANGED vars PROVE ConfInv'
    BY <2>1, <2>2 DEF ConfInv, OneCopy, MainThere, FreshThere, ConffilePresent,
       Configurable, vars, control
  <2> QED
    BY <2>1, <2>2, ConfValidate, ConfUnpack, ConfConfigure, ConfRemove, ConfDeconfigure,
       ConfWorld DEF Next, Step
<1> QED
  BY <1>1, <1>2, StatusAlwaysAt, PTL DEF Spec

(* As long as renames work, an Installed package has a configuration file, *)
(* at any step and after a crash anywhere, with --reconfigure and on a     *)
(* full disk too (configure_package, deconfigure_package).                 *)
THEOREM ConffileIsThere ==
    ASSUME "rename" \notin Faults PROVE Spec => []ConffilePresent
<1>1. ConfInv => ConffilePresent
  BY DEF ConfInv
<1> QED
  BY <1>1, ConfAlways, PTL

(* As long as renames work, no step but the deletions of a purge loses     *)
(* what the administrator wrote in the configuration file: a file is only  *)
(* replaced when it is the one the former version shipped.                 *)
THEOREM EditsSurvive ==
    ASSUME "rename" \notin Faults PROVE Spec => EditSurvives
<1>1. ConfInv /\ [Next]_vars =>
        [(Edited \in {conf.main, conf.user}) =>
           \/ Edited \in {conf'.main, conf'.user}
           \/ pc = "deconf_file" /\ ~Deconfiguring]_vars
  <2> SUFFICES ASSUME ConfInv, Next, Edited \in {conf.main, conf.user}, conf' # conf,
                      ~(pc = "deconf_file" /\ ~Deconfiguring)
               PROVE  Edited \in {conf'.main, conf'.user}
    OBVIOUS
  <2> USE VersionAssumption, ContentAssumption
      DEF ConfInv, OneCopy, MainThere, FreshThere, TypeInv, FilesOK, DatabaseOK
  <2>1. CASE Validate
    BY <2>1 DEF Validate, StartInstall, StartUnpack, StartConfigure, StartReconfigure,
       StartRemove, StartPurge, StartDeconfigure, Start
  <2>2. CASE Unpack
    BY <2>2 DEF Unpack, BeginUpgrade, BeginInstall, PreupgradeScripts, AbortPrerm,
       PreinstScripts, AbortPreinst, BeginExtract, UnpackFile, UnpackFileFails,
       UnpackFileShort, EndExtract, PostupgradeScripts, DropOldFile, DropOldFileIgnored,
       DropOldFileFails, EndDropOld, CancelStatus, CancelUpgradeScripts,
       CancelInstallScripts, CopyInDatabase, CopyInDatabaseFails, SetUnpacked
  <2>3. CASE Configure
    BY <2>3 DEF Configure, BeginConfigure, UseSavedConffile, UseNewConffile, KeepConffile,
       RetireConffile, RetireConffileFails, ReplaceConffile, ConffileFails,
       PostinstScripts, Unmodified, Fault
  <2>4. CASE Remove
    BY <2>4 DEF Remove, RemoveStatus, RemoveScripts, PrermStatus, PrermScripts, BeginRemove,
       RemoveFile, RemoveFileFails, AbortRemove, EndRemove, FinishRemove
  <2>5. CASE Deconfigure
    BY <2>5 DEF Deconfigure, DeconfigureStatus, DeconfigureScripts, PrermStatus,
       PrermScripts, BeginDeconfigure, SaveConffile, SaveConffileFails, PurgeConffile,
       DeconfigureFails, FinishDeconfigure, Deconfiguring, Fault
  <2>6. CASE Crash \/ RemoveLock \/ EditConffile
    BY <2>6 DEF Crash, RemoveLock, EditConffile
  <2> QED
    BY <2>1, <2>2, <2>3, <2>4, <2>5, <2>6 DEF Next, Step
<1> QED
  BY <1>1, ConfAlways, PTL DEF Spec, EditSurvives

-----------------------------------------------------------------------------
(* Files that belong to nobody.                                            *)

ConfigurePc == {"configure", "conffile", "swap_conf", "postinst"}
RemovePc    == {"prerm", "prerm_scripts", "removing", "remove_file", "postrm"}
DeconfPc    == {"deconfigure", "deconf_prerm", "deconf_scripts", "deconf_file",
                "deconf_done"}

Bare        == \A p \in Path : disk[p] = Absent
Only(files) == \A p \in Path : disk[p] # Absent => p \in files

(* The same of what the backup would bring back.                           *)
BareRestored        == \A p \in Path : Restored[p] = Absent
OnlyRestored(files) == \A p \in Path : Restored[p] # Absent => p \in files

(* Which command is at which place, over which version.                    *)
CommandAt ==
    /\ pc # "abort_remove"
    /\ pc = "idle" => cmd = "none"
    /\ pc \in UnpackPc \ {"begin"} /\ ~Upgrade => db = target
    /\ pc \in UnpackPc /\ Reconfigure => db = target
    /\ pc \in UpgradePc => Upgrade
    /\ pc \in UnpackPc \cup ConfigurePc =>
           cmd \in {"install", "unpack", "configure", "reconfigure"}
    /\ pc \in RemovePc => cmd \in {"remove", "purge"} /\ orig # "not_installed"
    /\ pc \in DeconfPc => /\ cmd \in {"purge", "deconfigure"}
                          /\ orig \in {"installed", "config_files", "not_installed"}
                          /\ cmd = "purge" => orig # "installed"
    /\ pc = "deconf_prerm" => orig # "not_installed"
    /\ pc \in {"drop_old", "copy"} => status = "upgrading"
    /\ pc = "unpack_file" => status \in {"installing", "upgrading"}

(* Before an unpack has extracted anything, and once its backup is back.   *)
Untouched ==
    pc \in {"begin", "preupgrade", "abort_prerm", "preinst", "abort_preinst", "extract",
            "cancel_scripts"} =>
        IF Upgrade THEN Only(Data[db]) ELSE Bare

(* While it extracts, nothing is there but the two versions; the deletion  *)
(* loop still has before it all that the new one does not have.            *)
Unpacking ==
    /\ pc \in {"unpack_file", "postupgrade", "drop_old", "cancel", "copy"} =>
           IF Upgrade THEN OnlyRestored(Data[db]) ELSE BareRestored
    /\ pc \in {"unpack_file", "postupgrade"} =>
           \A p \in Path : /\ saved[p] # NotSaved => p \in Data[target]
                           /\ disk[p] # Absent =>
                                  p \in Data[target] \/ (Upgrade /\ p \in Data[db])
    /\ pc = "unpack_file" => todo \subseteq Data[target] \cup {New}
    /\ pc = "drop_old" =>
           \A p \in Path \ Data[target] : /\ disk[p] # Absent => p \in todo
                                          /\ p \in todo => saved[p] = NotSaved
    /\ pc = "copy" => Only(Data[target])
    /\ pc = "set_unpacked" => Only(Data[db])

Taking ==
    /\ pc \in {"prerm", "prerm_scripts", "removing"} => Only(Data[db])
    /\ pc \in {"prerm", "prerm_scripts"} /\ orig = "config_files" => Bare
    /\ pc = "remove_file" => Only(todo)
    /\ pc = "postrm" => Bare
    /\ pc \in DeconfPc => Only(Data[db]) /\ (orig # "installed" => Bare)
    /\ pc = "deconf_done" /\ orig # "installed" =>
           conf.main = Absent /\ conf.old = Absent /\ disk[New] = Absent

(* A half-made package can be removed: its files are those of the version  *)
(* the database describes.                                                 *)
Resting ==
    pc \in ConfigurePc \/ (pc = "idle" /\ status \in {"half_installed", "half_configured"})
        => Only(Data[db])

StrayInv ==
    /\ TypeInv /\ BackupScope
    /\ CommandAt /\ Untouched /\ Unpacking /\ Taking /\ Resting /\ NoStrayFile

LEMMA StrayValidate ==
    ASSUME "crash" \notin Faults, "unlink" \notin Faults, TypeInv', StatusAt,
           StrayInv, Validate
    PROVE  StrayInv'
<1> USE SlotAssumption, VersionAssumption, DataAssumption, ContentAssumption
        DEF StrayInv, CommandAt, Untouched, Unpacking, Taking, Resting,
        NoStrayFile, BackupScope, Bare, Only, BareRestored, OnlyRestored,
        ConfigurePc, RemovePc, DeconfPc, StatusAt, StatusHonest, BackupPc,
        UpgradePc, UnpackPc, Slot, Content, FilesOK, TypeInv, ControlOK,
        DatabaseOK, Upgrade, Reconfigure, Restored, NoBackup, Start, Goto,
        GotoLoop, Finish, Fault
<1>1. ASSUME NEW v \in Version, StartInstall(v) PROVE StrayInv'
  BY <1>1 DEF StartInstall, Start
<1>2. ASSUME NEW v \in Version, StartUnpack(v) PROVE StrayInv'
  BY <1>2 DEF StartUnpack, Start, ValidUnpack, NoOverwrite
<1>3. CASE StartConfigure
  BY <1>3 DEF StartConfigure, Start
<1>4. CASE StartReconfigure
  BY <1>4 DEF StartReconfigure, Start
<1>5. CASE StartRemove
  BY <1>5 DEF StartRemove, Start
<1>6. CASE StartPurge
  BY <1>6 DEF StartPurge, Start
<1>7. CASE StartDeconfigure
  BY <1>7 DEF StartDeconfigure, Start
<1> QED
  BY <1>1, <1>2, <1>3, <1>4, <1>5, <1>6, <1>7 DEF Validate

LEMMA StrayUnpack ==
    ASSUME "crash" \notin Faults, "unlink" \notin Faults, TypeInv', StatusAt,
           StrayInv, Unpack
    PROVE  StrayInv'
<1> USE SlotAssumption, VersionAssumption, DataAssumption, ContentAssumption
        DEF StrayInv, CommandAt, Untouched, Unpacking, Taking, Resting,
        NoStrayFile, BackupScope, Bare, Only, BareRestored, OnlyRestored,
        ConfigurePc, RemovePc, DeconfPc, StatusAt, StatusHonest, BackupPc,
        UpgradePc, UnpackPc, Slot, Content, FilesOK, TypeInv, ControlOK,
        DatabaseOK, Upgrade, Reconfigure, Restored, NoBackup, Start, Goto,
        GotoLoop, Finish, Fault
<1>1. CASE BeginUpgrade
  BY <1>1 DEF BeginUpgrade
<1>2. CASE BeginInstall
  BY <1>2 DEF BeginInstall, CopyPackage
<1>3. CASE PreupgradeScripts
  BY <1>3 DEF PreupgradeScripts
<1>4. CASE AbortPrerm
  BY <1>4 DEF AbortPrerm
<1>5. CASE PreinstScripts
  BY <1>5 DEF PreinstScripts
<1>6. CASE AbortPreinst
  BY <1>6 DEF AbortPreinst
<1>7. CASE BeginExtract
  BY <1>7 DEF BeginExtract, Transaction
<1>8. ASSUME NEW s \in Slot, UnpackFile(s) PROVE StrayInv'
  <2>1. status' \in {"installing", "upgrading"} /\ pc' \in {"unpack_file", "cancel"}
    BY <1>8 DEF UnpackFile, Backup
  <2>7. CommandAt' /\ Untouched' /\ Taking' /\ Resting'
    BY <1>8, <2>1 DEF UnpackFile, Backup
  <2>8. NoStrayFile' /\ BackupScope'
    BY <1>8, <2>1 DEF UnpackFile, Backup
  <2>2. ASSUME NEW p \in Path, Restored'[p] # Absent PROVE Restored[p] # Absent
    BY <1>8, <2>2 DEF UnpackFile, Backup
  <2>3. s \in Data[target] \cup {New}
    BY <1>8 DEF UnpackFile, Backup
  <2>4. ASSUME NEW p \in Path
        PROVE  /\ saved'[p] # NotSaved => p \in Data[target]
               /\ disk'[p] # Absent => p \in Data[target] \/ (Upgrade /\ p \in Data[db])
    BY <1>8, <2>3 DEF UnpackFile, Backup
  <2>5. Unpacking'
    BY <1>8, <2>2, <2>4 DEF UnpackFile, Backup
  <2> QED
    BY <2>5, <2>7, <2>8
<1>9. ASSUME NEW s \in Slot, UnpackFileFails(s) PROVE StrayInv'
  <2>1. status' \in {"installing", "upgrading"} /\ pc' \in {"unpack_file", "cancel"}
    BY <1>9 DEF UnpackFileFails, Backup
  <2>7. CommandAt' /\ Untouched' /\ Taking' /\ Resting'
    BY <1>9, <2>1 DEF UnpackFileFails, Backup
  <2>8. NoStrayFile' /\ BackupScope'
    BY <1>9, <2>1 DEF UnpackFileFails, Backup
  <2>2. ASSUME NEW p \in Path, Restored'[p] # Absent PROVE Restored[p] # Absent
    BY <1>9, <2>2 DEF UnpackFileFails, Backup
  <2>3. s \in Data[target] \cup {New}
    BY <1>9 DEF UnpackFileFails, Backup
  <2>4. ASSUME NEW p \in Path
        PROVE  /\ saved'[p] # NotSaved => p \in Data[target]
               /\ disk'[p] # Absent => p \in Data[target] \/ (Upgrade /\ p \in Data[db])
    BY <1>9, <2>3 DEF UnpackFileFails, Backup
  <2>5. Unpacking'
    BY <1>9, <2>2, <2>4 DEF UnpackFileFails, Backup
  <2> QED
    BY <2>5, <2>7, <2>8
<1>10. ASSUME NEW s \in Slot, UnpackFileShort(s) PROVE StrayInv'
  <2>1. status' \in {"installing", "upgrading"} /\ pc' \in {"unpack_file", "cancel"}
    BY <1>10 DEF UnpackFileShort, Backup, BackupDone
  <2>7. CommandAt' /\ Untouched' /\ Taking' /\ Resting'
    BY <1>10, <2>1 DEF UnpackFileShort, Backup, BackupDone
  <2>8. NoStrayFile' /\ BackupScope'
    BY <1>10, <2>1 DEF UnpackFileShort, Backup, BackupDone
  <2>2. ASSUME NEW p \in Path, Restored'[p] # Absent PROVE Restored[p] # Absent
    BY <1>10, <2>2 DEF UnpackFileShort, Backup, BackupDone
  <2>3. s \in Data[target] \cup {New}
    BY <1>10 DEF UnpackFileShort, Backup, BackupDone
  <2>4. ASSUME NEW p \in Path
        PROVE  /\ saved'[p] # NotSaved => p \in Data[target]
               /\ disk'[p] # Absent => p \in Data[target] \/ (Upgrade /\ p \in Data[db])
    BY <1>10, <2>3 DEF UnpackFileShort, Backup, BackupDone
  <2>5. Unpacking'
    BY <1>10, <2>2, <2>4 DEF UnpackFileShort, Backup, BackupDone
  <2> QED
    BY <2>5, <2>7, <2>8
<1>11. CASE EndExtract
  BY <1>11 DEF EndExtract
<1>12. CASE PostupgradeScripts
  BY <1>12 DEF PostupgradeScripts
<1>13. ASSUME NEW p \in Path, DropOldFile(p) PROVE StrayInv'
  BY <1>13 DEF DropOldFile, Backup, BackupDone
<1>14. ASSUME NEW p \in Path, DropOldFileIgnored(p) PROVE StrayInv'
  BY <1>14 DEF DropOldFileIgnored, Backup, BackupDone
<1>15. ASSUME NEW p \in Path, DropOldFileFails(p) PROVE StrayInv'
  BY <1>15 DEF DropOldFileFails, BackupDone
<1>16. CASE EndDropOld
  BY <1>16 DEF EndDropOld
<1>17. CASE CancelStatus
  BY <1>17 DEF CancelStatus
<1>18. CASE CancelUpgradeScripts
  BY <1>18 DEF CancelUpgradeScripts
<1>19. CASE CancelInstallScripts
  BY <1>19 DEF CancelInstallScripts
<1>20. CASE CopyInDatabase
  BY <1>20 DEF CopyInDatabase, CopyPackage
<1>21. CASE CopyInDatabaseFails
  BY <1>21 DEF CopyInDatabaseFails
<1>22. CASE SetUnpacked
  BY <1>22 DEF SetUnpacked
<1> QED
  BY <1>1, <1>2, <1>3, <1>4, <1>5, <1>6, <1>7, <1>8, <1>9, <1>10, <1>11, <1>12,
     <1>13, <1>14, <1>15, <1>16, <1>17, <1>18, <1>19, <1>20, <1>21, <1>22 DEF
     Unpack

LEMMA StrayConfigure ==
    ASSUME "crash" \notin Faults, "unlink" \notin Faults, TypeInv', StatusAt,
           StrayInv, Configure
    PROVE  StrayInv'
<1> USE SlotAssumption, VersionAssumption, DataAssumption, ContentAssumption
        DEF StrayInv, CommandAt, Untouched, Unpacking, Taking, Resting,
        NoStrayFile, BackupScope, Bare, Only, BareRestored, OnlyRestored,
        ConfigurePc, RemovePc, DeconfPc, StatusAt, StatusHonest, BackupPc,
        UpgradePc, UnpackPc, Slot, Content, FilesOK, TypeInv, ControlOK,
        DatabaseOK, Upgrade, Reconfigure, Restored, NoBackup, Start, Goto,
        GotoLoop, Finish, Fault
<1>1. CASE BeginConfigure
  BY <1>1 DEF BeginConfigure
<1>2. CASE UseSavedConffile
  BY <1>2 DEF UseSavedConffile
<1>3. CASE UseNewConffile
  BY <1>3 DEF UseNewConffile
<1>4. CASE KeepConffile
  BY <1>4 DEF KeepConffile
<1>5. CASE RetireConffile
  BY <1>5 DEF RetireConffile
<1>6. CASE RetireConffileFails
  BY <1>6 DEF RetireConffileFails
<1>7. CASE ReplaceConffile
  BY <1>7 DEF ReplaceConffile
<1>8. CASE ConffileFails
  BY <1>8 DEF ConffileFails
<1>9. CASE PostinstScripts
  BY <1>9 DEF PostinstScripts
<1> QED
  BY <1>1, <1>2, <1>3, <1>4, <1>5, <1>6, <1>7, <1>8, <1>9 DEF Configure

LEMMA StrayRemove ==
    ASSUME "crash" \notin Faults, "unlink" \notin Faults, TypeInv', StatusAt,
           StrayInv, Remove
    PROVE  StrayInv'
<1> USE SlotAssumption, VersionAssumption, DataAssumption, ContentAssumption
        DEF StrayInv, CommandAt, Untouched, Unpacking, Taking, Resting,
        NoStrayFile, BackupScope, Bare, Only, BareRestored, OnlyRestored,
        ConfigurePc, RemovePc, DeconfPc, StatusAt, StatusHonest, BackupPc,
        UpgradePc, UnpackPc, Slot, Content, FilesOK, TypeInv, ControlOK,
        DatabaseOK, Upgrade, Reconfigure, Restored, NoBackup, Start, Goto,
        GotoLoop, Finish, Fault
<1>1. CASE RemoveStatus
  BY <1>1 DEF RemoveStatus, PrermStatus
<1>2. CASE RemoveScripts
  BY <1>2 DEF RemoveScripts, PrermScripts
<1>3. CASE BeginRemove
  BY <1>3 DEF BeginRemove
<1>4. ASSUME NEW p \in Path, RemoveFile(p) PROVE StrayInv'
  BY <1>4 DEF RemoveFile, Backup
<1>5. ASSUME NEW p \in Path, RemoveFileFails(p) PROVE StrayInv'
  BY <1>5 DEF RemoveFileFails, Backup
<1>6. CASE AbortRemove
  BY <1>6 DEF AbortRemove
<1>7. CASE EndRemove
  BY <1>7 DEF EndRemove
<1>8. CASE FinishRemove
  BY <1>8 DEF FinishRemove
<1> QED
  BY <1>1, <1>2, <1>3, <1>4, <1>5, <1>6, <1>7, <1>8 DEF Remove

LEMMA StrayDeconfigure ==
    ASSUME "crash" \notin Faults, "unlink" \notin Faults, TypeInv', StatusAt,
           StrayInv, Deconfigure
    PROVE  StrayInv'
<1> USE SlotAssumption, VersionAssumption, DataAssumption, ContentAssumption
        DEF StrayInv, CommandAt, Untouched, Unpacking, Taking, Resting,
        NoStrayFile, BackupScope, Bare, Only, BareRestored, OnlyRestored,
        ConfigurePc, RemovePc, DeconfPc, StatusAt, StatusHonest, BackupPc,
        UpgradePc, UnpackPc, Slot, Content, FilesOK, TypeInv, ControlOK,
        DatabaseOK, Upgrade, Reconfigure, Restored, NoBackup, Start, Goto,
        GotoLoop, Finish, Fault
<1>1. CASE DeconfigureStatus
  BY <1>1 DEF DeconfigureStatus, PrermStatus
<1>2. CASE DeconfigureScripts
  BY <1>2 DEF DeconfigureScripts, PrermScripts
<1>3. CASE BeginDeconfigure
  BY <1>3 DEF BeginDeconfigure
<1>4. CASE SaveConffile
  BY <1>4 DEF SaveConffile, Deconfiguring
<1>5. CASE SaveConffileFails
  BY <1>5 DEF SaveConffileFails, Deconfiguring
<1>6. CASE PurgeConffile
  BY <1>6 DEF PurgeConffile, Deconfiguring
<1>7. CASE DeconfigureFails
  BY <1>7 DEF DeconfigureFails, Deconfiguring
<1>8. CASE FinishDeconfigure
  BY <1>8 DEF FinishDeconfigure, Deconfiguring
<1> QED
  BY <1>1, <1>2, <1>3, <1>4, <1>5, <1>6, <1>7, <1>8 DEF Deconfigure

LEMMA StrayWorld ==
    ASSUME "crash" \notin Faults, "unlink" \notin Faults, TypeInv', StatusAt,
           StrayInv, Crash \/ RemoveLock \/ EditConffile
    PROVE  StrayInv'
<1> USE SlotAssumption, VersionAssumption, DataAssumption, ContentAssumption
        DEF StrayInv, CommandAt, Untouched, Unpacking, Taking, Resting,
        NoStrayFile, BackupScope, Bare, Only, BareRestored, OnlyRestored,
        ConfigurePc, RemovePc, DeconfPc, StatusAt, StatusHonest, BackupPc,
        UpgradePc, UnpackPc, Slot, Content, FilesOK, TypeInv, ControlOK,
        DatabaseOK, Upgrade, Reconfigure, Restored, NoBackup, Start, Goto,
        GotoLoop, Finish, Fault
<1>1. CASE Crash
  BY <1>1 DEF Crash
<1>2. CASE RemoveLock
  BY <1>2 DEF RemoveLock
<1>3. CASE EditConffile
  BY <1>3 DEF EditConffile, control
<1> QED
  BY <1>1, <1>2, <1>3

LEMMA StrayAlways ==
    ASSUME "crash" \notin Faults, "unlink" \notin Faults
    PROVE  Spec => []StrayInv
<1>1. Init => StrayInv
  <2> SUFFICES ASSUME Init PROVE StrayInv
    OBVIOUS
  <2>1. TypeInv
    BY TypeInvInit
  <2>2. BackupScope /\ CommandAt /\ Untouched /\ Unpacking /\ Taking /\ Resting
    BY DEF Init, BackupScope, CommandAt, Untouched, Unpacking, Taking, Resting, BackupPc,
       UnpackPc, UpgradePc, ConfigurePc, RemovePc, DeconfPc, NoBackup, Slot
  <2>3. NoStrayFile
    BY DEF Init, NoStrayFile, Slot
  <2> QED
    BY <2>1, <2>2, <2>3 DEF StrayInv
<1>2. StatusAt /\ StrayInv /\ [Next]_vars => StrayInv'
  <2>1. ASSUME StrayInv, [Next]_vars PROVE TypeInv'
    BY <2>1, TypeInvNext DEF StrayInv
  <2>2. ASSUME StrayInv, UNCHANGED vars PROVE StrayInv'
    BY <2>1, <2>2 DEF StrayInv, BackupScope, CommandAt, Untouched, Unpacking, Taking, Resting,
       NoStrayFile, Upgrade, Reconfigure, Bare, Only, BareRestored, OnlyRestored, Restored,
       vars, control
  <2> QED
    BY <2>1, <2>2, StrayValidate, StrayUnpack, StrayConfigure, StrayRemove,
       StrayDeconfigure, StrayWorld DEF Next, Step
<1> QED
  BY <1>1, <1>2, StatusAlwaysAt, PTL DEF Spec

(* Whatever the scripts, the hooks and a full disk do, no data file is     *)
(* left that the package's version does not own, and none at all once the  *)
(* package is not installed: what an upgrade does not bring along it       *)
(* deletes, and what fails is put back (do_unpack, do_remove).  A killed   *)
(* process and an unlink that fails leave such files, see the README.      *)
THEOREM NoFileIsStray ==
    ASSUME "crash" \notin Faults, "unlink" \notin Faults
    PROVE  Spec => []NoStrayFile
<1>1. StrayInv => NoStrayFile
  BY DEF StrayInv
<1> QED
  BY <1>1, StrayAlways, PTL

(* Under the same conditions a purge that reports Not-Installed has        *)
(* deleted every data file, the configuration file, its ".wpkg-old" and    *)
(* its ".wpkg-new" (do_remove, deconfigure_package).                       *)
THEOREM PurgesErase ==
    ASSUME "crash" \notin Faults, "unlink" \notin Faults
    PROVE  Spec => PurgeErases
<1>1. StatusAt /\ StrayInv /\ [Next]_vars =>
        [cmd = "purge" /\ pc' = "idle" /\ ~locked' /\ status' = "not_installed" =>
           /\ conf'.main = Absent /\ conf'.old = Absent
           /\ \A s \in Slot : disk'[s] = Absent]_vars
  <2> SUFFICES ASSUME StatusAt, StrayInv, Next, vars' # vars, cmd = "purge", pc' = "idle",
                      ~locked', status' = "not_installed"
               PROVE  /\ conf'.main = Absent /\ conf'.old = Absent
                      /\ \A s \in Slot : disk'[s] = Absent
    OBVIOUS
  <2> USE DEF StatusAt, StrayInv, CommandAt, UnpackPc, UpgradePc, ConfigurePc, RemovePc,
          DeconfPc, Goto, GotoLoop, Finish, Fault
  <2>1. CASE FinishDeconfigure
    BY <2>1 DEF FinishDeconfigure, Deconfiguring, Taking, Bare, Slot
  <2>2. CASE Validate
    BY <2>2 DEF Validate, StartInstall, Start, StartUnpack, StartConfigure,
       StartReconfigure, StartRemove, StartPurge, StartDeconfigure
  <2>3. CASE Unpack
    BY <2>3 DEF Unpack, BeginUpgrade, BeginInstall, PreupgradeScripts, AbortPrerm,
       PreinstScripts, AbortPreinst, BeginExtract, UnpackFile, UnpackFileFails,
       UnpackFileShort, EndExtract, PostupgradeScripts, DropOldFile, DropOldFileIgnored,
       DropOldFileFails, EndDropOld, CancelStatus, CancelUpgradeScripts,
       CancelInstallScripts, CopyInDatabase, CopyInDatabaseFails, SetUnpacked
  <2>4. CASE Configure
    BY <2>4 DEF Configure, BeginConfigure, UseSavedConffile, UseNewConffile, KeepConffile,
       RetireConffile, RetireConffileFails, ReplaceConffile, ConffileFails,
       PostinstScripts
  <2>5. CASE Remove
    BY <2>5 DEF Remove, RemoveStatus, PrermStatus, RemoveScripts, PrermScripts,
       BeginRemove, RemoveFile, RemoveFileFails, AbortRemove, EndRemove, FinishRemove
  <2>6. CASE Deconfigure
    BY <2>1, <2>6 DEF Deconfigure, DeconfigureStatus, PrermStatus, DeconfigureScripts,
       PrermScripts, BeginDeconfigure, SaveConffile, SaveConffileFails, PurgeConffile,
       DeconfigureFails, Deconfiguring
  <2>7. CASE Crash \/ RemoveLock \/ EditConffile
    BY <2>7 DEF Crash, RemoveLock, EditConffile, control, vars
  <2> QED
    BY <2>2, <2>3, <2>4, <2>5, <2>6, <2>7 DEF Next, Step
<1> QED
  BY <1>1, StrayAlways, StatusAlwaysAt, PTL DEF Spec, PurgeErases
=============================================================================

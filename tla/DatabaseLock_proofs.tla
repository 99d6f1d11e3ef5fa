------------------------- MODULE DatabaseLock_proofs -------------------------
(***************************************************************************)
(* However many processes run, and whatever fails or dies, two commands    *)
(* never work on the database at once, as long as stale locks are removed  *)
(* by one administrator at a time.                                         *)
(***************************************************************************)
EXTENDS DatabaseLock, TLAPS

(* The file of a process that is past lock() is its own: nobody unlinks it *)
(* because the only process that may do so without having the lock asked   *)
(* for it when the file was stale, and a stale lock stays stale.           *)
OwnLock == \A p \in Holders : lck = p

StaleForRemover ==
    \A p \in Process : pc[p] = "rm_unlink" => Stale

OneRemover == \A p, q \in Removers : p = q

RemoverPc ==
    \A p \in Process : pc[p] = "rm_unlink" => cmd[p] = "unlock"

(* The part of TypeOK the argument needs.                                  *)
TypeInv ==
    /\ lck \in Process \cup {None}
    /\ pc \in [Process -> Pc]
    /\ cmd \in [Process -> CommandNames \cup {"none"}]

LockInv == TypeInv /\ OwnLock /\ StaleForRemover /\ OneRemover /\ RemoverPc

LEMMA LockInvInit == ASSUME Init PROVE LockInv
BY ProcessAssumption DEF Init, LockInv, TypeInv, OwnLock, StaleForRemover,
   OneRemover, RemoverPc, Holders, Removers, Pc, CommandNames

(* What a process that has the lock does with it.                          *)
LEMMA LockInvHolder ==
    ASSUME LockInv, NEW p \in Process,
           \/ LoadStatus(p) \/ LockFails(p) \/ TakeLock(p) \/ LeaveLock(p) \/ NotReady(p)
           \/ ReadRecord(p) \/ WriteRecord(p)
           \/ Unlock(p) \/ UnlockReady(p) \/ UnlockFails(p) \/ UnlockFile(p)
    PROVE  LockInv'
<1> USE ProcessAssumption DEF LockInv, TypeInv, OwnLock, StaleForRemover,
        OneRemover, RemoverPc, Holders, Removers, Stale, Pc, CommandNames, Goto,
        Exit
<1>1. CASE LoadStatus(p)
  BY <1>1 DEF LoadStatus
<1>2. CASE LockFails(p)
  BY <1>2 DEF LockFails
<1>3. CASE TakeLock(p)
  BY <1>3 DEF TakeLock
<1>4. CASE NotReady(p)
  BY <1>4 DEF NotReady
<1>5. CASE ReadRecord(p)
  BY <1>5 DEF ReadRecord
<1>6. CASE WriteRecord(p)
  BY <1>6 DEF WriteRecord
<1>7. CASE Unlock(p)
  BY <1>7 DEF Unlock
<1>8. CASE UnlockReady(p)
  BY <1>8 DEF UnlockReady
<1>9. CASE UnlockFails(p)
  BY <1>9 DEF UnlockFails
<1>10. CASE UnlockFile(p)
  BY <1>10 DEF UnlockFile
<1>11. CASE LeaveLock(p)
  BY <1>11 DEF LeaveLock
<1> QED
  BY <1>1, <1>2, <1>3, <1>4, <1>5, <1>6, <1>7, <1>8, <1>9, <1>10, <1>11

(* What the others do: start, wait for the lock, take it, die.             *)
LEMMA LockInvWaiting ==
    ASSUME LockInv, NEW p \in Process,
           \/ StartFile(p) \/ StartName(p) \/ StartCreate(p) \/ StartSelect(p)
           \/ UpgradeList(p) \/ LoadSelected(p) \/ SaveSelection(p)
           \/ OpenLock(p) \/ Locked(p) \/ Crash(p)
    PROVE  LockInv'
<1> USE ProcessAssumption DEF LockInv, TypeInv, OwnLock, StaleForRemover,
        OneRemover, RemoverPc, Holders, Removers, Stale, Pc, CommandNames, Goto,
        Exit
<1>1. CASE StartFile(p)
  BY <1>1 DEF StartFile, Start
<1>2. CASE StartName(p)
  BY <1>2 DEF StartName, Start
<1>3. CASE UpgradeList(p)
  BY <1>3 DEF UpgradeList
<1>4. CASE OpenLock(p)
  BY <1>4 DEF OpenLock
<1>5. CASE Locked(p)
  BY <1>5 DEF Locked
<1>6. CASE Crash(p)
  BY <1>6 DEF Crash
<1>7. CASE StartCreate(p) \/ StartSelect(p)
  BY <1>7 DEF StartCreate, StartSelect, Start
<1>8. CASE LoadSelected(p) \/ SaveSelection(p)
  BY <1>8 DEF LoadSelected, SaveSelection
<1> QED
  BY <1>1, <1>2, <1>3, <1>4, <1>5, <1>6, <1>7, <1>8

(* remove_lock(), by one process at a time.                                *)
LEMMA LockInvRemover ==
    ASSUME ~ManyRemovers, LockInv, NEW p \in Process,
           StartRemover(p) \/ RemoveLock(p) \/ RemoveLoad(p) \/ RemoveReady(p)
    PROVE  LockInv'
<1> USE ProcessAssumption DEF LockInv, TypeInv, OwnLock, StaleForRemover,
        OneRemover, RemoverPc, Holders, Removers, Stale, Pc, CommandNames, Goto,
        Exit
<1>1. CASE StartRemover(p)
  BY <1>1 DEF StartRemover, Start
<1>2. CASE RemoveLock(p)
  BY <1>2 DEF RemoveLock
<1>3. CASE RemoveLoad(p)
  BY <1>3 DEF RemoveLoad
<1>4. CASE RemoveReady(p)
  BY <1>4 DEF RemoveReady
<1> QED
  BY <1>1, <1>2, <1>3, <1>4

LEMMA LockInvNext == ASSUME ~ManyRemovers, LockInv, [Next]_vars PROVE LockInv'
<1>1. CASE Next
  BY <1>1, LockInvHolder, LockInvWaiting, LockInvRemover DEF Next, Step
<1>2. CASE UNCHANGED vars
  BY <1>2 DEF vars, LockInv, TypeInv, OwnLock, StaleForRemover, OneRemover,
     RemoverPc, Holders, Removers, Stale
<1> QED
  BY <1>1, <1>2

(* As long as stale locks are removed by one administrator at a time, two  *)
(* commands never work on the database at the same time (lock, unlock,     *)
(* remove_lock), however many processes run and die.                       *)
THEOREM OneWorkerAtATime ==
    ASSUME ~ManyRemovers PROVE Spec => []OneWorker
<1>1. LockInv => OneWorker
  BY DEF LockInv, OwnLock, Holders, OneWorker
<1> QED
  BY <1>1, LockInvInit, LockInvNext, PTL DEF Spec

-----------------------------------------------------------------------------
(* The lock is released.                                                   *)

LEMMA LockReleasedNext ==
    ASSUME LockInv, ~Fault("core"), LockReleased, [Next]_vars
    PROVE  LockReleased'
<1> USE ProcessAssumption DEF LockInv, TypeInv, LockReleased, Holders, Goto, Exit, history
<1>1. ASSUME NEW p \in Process,
             \/ StartFile(p) \/ StartName(p) \/ StartCreate(p) \/ StartSelect(p)
             \/ StartRemover(p)
      PROVE  LockReleased'
  BY <1>1 DEF StartFile, StartName, StartCreate, StartSelect, StartRemover, Start
<1>2. ASSUME NEW p \in Process, UpgradeList(p) \/ OpenLock(p) \/ Locked(p)
                                 \/ LoadSelected(p) \/ SaveSelection(p)
      PROVE  LockReleased'
  BY <1>2 DEF UpgradeList, OpenLock, Locked, LoadSelected, SaveSelection
<1>3. ASSUME NEW p \in Process, LoadStatus(p) \/ TakeLock(p) \/ LeaveLock(p) \/ NotReady(p)
      PROVE  LockReleased'
  BY <1>3 DEF LoadStatus, TakeLock, LeaveLock, NotReady
<1>4. ASSUME NEW p \in Process, ReadRecord(p) \/ WriteRecord(p)
      PROVE  LockReleased'
  BY <1>4 DEF ReadRecord, WriteRecord
<1>5. ASSUME NEW p \in Process, Unlock(p) \/ UnlockReady(p) \/ UnlockFile(p)
      PROVE  LockReleased'
  BY <1>5 DEF Unlock, UnlockReady, UnlockFile
<1>6. ASSUME NEW p \in Process, RemoveLock(p) \/ RemoveLoad(p) \/ RemoveReady(p)
      PROVE  LockReleased'
  BY <1>6 DEF RemoveLock, RemoveLoad, RemoveReady
<1>7. ASSUME NEW p \in Process, Crash(p)
      PROVE  LockReleased'
  BY <1>7 DEF Crash
<1>8. CASE UNCHANGED vars
  BY <1>8 DEF vars
<1> QED
  BY <1>1, <1>2, <1>3, <1>4, <1>5, <1>6, <1>7, <1>8 DEF Next, Step, LockFails, UnlockFails

(* A process that ended, did not die and was not asked to has left no lock *)
(* as long as the core package can be read and written (wpkgar_lock).      *)
THEOREM LockIsReleased ==
    ASSUME ~ManyRemovers, ~Fault("core") PROVE Spec => []LockReleased
<1>1. Init => LockReleased
  BY DEF Init, LockReleased
<1>2. LockInv /\ LockReleased /\ [Next]_vars => LockReleased'
  BY LockReleasedNext
<1> QED
  BY <1>1, <1>2, LockInvInit, LockInvNext, PTL DEF Spec

-----------------------------------------------------------------------------
(* The core package is Ready whenever nobody is at work.                   *)

(* While it is not, somebody has the lock or removes it; the owner of the  *)
(* lock unlinks it only when it has made it Ready.                         *)
Removing == {p \in Process : pc[p] \in {"rm_load", "rm_ready"}}
CoreInv ==
    /\ core # "Ready" => lck # None \/ Removing # {}
    /\ \A p \in Process : pc[p] = "unlink" => core = "Ready"
    /\ \A p \in Removing : cmd[p] = "unlock"

LEMMA CoreInvNext ==
    ASSUME LockInv, LockInv', ~Fault("remover"), CoreInv, [Next]_vars
    PROVE  CoreInv'
<1> USE ProcessAssumption DEF LockInv, TypeInv, OwnLock, CoreInv, Holders, Removing,
        Goto, Exit, SetCore
<1>1. ASSUME NEW p \in Process,
             \/ StartFile(p) \/ StartName(p) \/ StartCreate(p) \/ StartSelect(p)
             \/ StartRemover(p)
      PROVE  CoreInv'
  BY <1>1 DEF StartFile, StartName, StartCreate, StartSelect, StartRemover, Start
<1>2. ASSUME NEW p \in Process, UpgradeList(p) \/ OpenLock(p) \/ Locked(p)
                                 \/ LoadSelected(p) \/ SaveSelection(p)
      PROVE  CoreInv'
  BY <1>2 DEF UpgradeList, OpenLock, Locked, LoadSelected, SaveSelection
<1>3. ASSUME NEW p \in Process, LoadStatus(p) \/ LockFails(p) \/ TakeLock(p)
                                 \/ LeaveLock(p) \/ NotReady(p)
      PROVE  CoreInv'
  BY <1>3 DEF LoadStatus, LockFails, TakeLock, LeaveLock, NotReady
<1>4. ASSUME NEW p \in Process, ReadRecord(p) \/ WriteRecord(p)
      PROVE  CoreInv'
  BY <1>4 DEF ReadRecord, WriteRecord
<1>5. ASSUME NEW p \in Process,
             Unlock(p) \/ UnlockReady(p) \/ UnlockFails(p) \/ UnlockFile(p)
      PROVE  CoreInv'
  BY <1>5 DEF Unlock, UnlockReady, UnlockFails, UnlockFile
<1>6. ASSUME NEW p \in Process, RemoveLock(p) \/ RemoveLoad(p) \/ RemoveReady(p)
      PROVE  CoreInv'
  BY <1>6 DEF RemoveLock, RemoveLoad, RemoveReady, RemoverPc
<1>7. ASSUME NEW p \in Process, Crash(p)
      PROVE  CoreInv'
  BY <1>7 DEF Crash
<1>8. CASE UNCHANGED vars
  BY <1>8 DEF vars
<1> QED
  BY <1>1, <1>2, <1>3, <1>4, <1>5, <1>6, <1>7, <1>8 DEF Next, Step

(* When nobody works and there is no lock the core package is Ready, as    *)
(* long as nobody dies while it removes a lock (unlock, remove_lock).      *)
THEOREM CoreRestsReady ==
    ASSUME ~ManyRemovers, ~Fault("remover") PROVE Spec => []RestsReady
<1>1. Init => CoreInv
  BY DEF Init, CoreInv, Removing
<1>2. LockInv /\ LockInv' /\ CoreInv /\ [Next]_vars => CoreInv'
  BY CoreInvNext
<1>3. CoreInv => RestsReady
  BY DEF CoreInv, Removing, RestsReady
<1> QED
  BY <1>1, <1>2, <1>3, LockInvInit, LockInvNext, PTL DEF Spec

-----------------------------------------------------------------------------
(* No update is lost.                                                      *)

(* What a manager holds of the database is what the database holds: it was *)
(* read under the lock and only the owner of the lock writes.              *)
Current ==
    /\ f_record \in [Process -> SUBSET (1..MaxUpdates)] /\ loaded \subseteq Process
    /\ \A p \in Process : pc[p] \notin {"list", "select", "save"}
    /\ \A p \in loaded : p \in Holders /\ f_record[p] = record
    /\ record \subseteq 1..MaxUpdates /\ made \in Nat

LEMMA CurrentNext ==
    ASSUME LockInv, Commands \cap {"name", "select"} = {}, Current, [Next]_vars
    PROVE  Current' /\ record \subseteq record'
<1> USE ProcessAssumption, BoundAssumption
        DEF LockInv, TypeInv, OwnLock, Current, Holders, Goto, Exit, memory, history
<1>1. ASSUME NEW p \in Process,
             \/ StartFile(p) \/ StartName(p) \/ StartCreate(p) \/ StartSelect(p)
             \/ StartRemover(p)
      PROVE  Current' /\ record \subseteq record'
  BY <1>1 DEF StartFile, StartName, StartCreate, StartSelect, StartRemover, Start
<1>2. ASSUME NEW p \in Process, UpgradeList(p) \/ OpenLock(p) \/ Locked(p)
                                 \/ LoadSelected(p) \/ SaveSelection(p)
      PROVE  Current' /\ record \subseteq record'
  BY <1>2 DEF UpgradeList, OpenLock, Locked, LoadSelected, SaveSelection
<1>3. ASSUME NEW p \in Process, LoadStatus(p) \/ LockFails(p) \/ TakeLock(p)
                                 \/ LeaveLock(p) \/ NotReady(p)
      PROVE  Current' /\ record \subseteq record'
  BY <1>3 DEF LoadStatus, LockFails, TakeLock, LeaveLock, NotReady
<1>4. ASSUME NEW p \in Process, ReadRecord(p)
      PROVE  Current' /\ record \subseteq record'
  BY <1>4 DEF ReadRecord
<1>5. ASSUME NEW p \in Process, WriteRecord(p)
      PROVE  Current' /\ record \subseteq record'
  BY <1>5 DEF WriteRecord
<1>6. ASSUME NEW p \in Process,
             Unlock(p) \/ UnlockReady(p) \/ UnlockFails(p) \/ UnlockFile(p)
      PROVE  Current' /\ record \subseteq record'
  BY <1>6 DEF Unlock, UnlockReady, UnlockFails, UnlockFile
<1>7. ASSUME NEW p \in Process, RemoveLock(p) \/ RemoveLoad(p) \/ RemoveReady(p)
      PROVE  Current' /\ record \subseteq record'
  BY <1>7 DEF RemoveLock, RemoveLoad, RemoveReady
<1>8. ASSUME NEW p \in Process, Crash(p)
      PROVE  Current' /\ record \subseteq record'
  BY <1>8 DEF Crash
<1>9. CASE UNCHANGED vars
  BY <1>9 DEF vars
<1> QED
  BY <1>1, <1>2, <1>3, <1>4, <1>5, <1>6, <1>7, <1>8, <1>9 DEF Next, Step

(* Commands that read the database under the lock never undo what another  *)
(* one has written (load_package, set_field).                              *)
THEOREM UpdatesAreKept ==
    ASSUME ~ManyRemovers, Commands \cap {"name", "select"} = {} PROVE Spec => NoLostUpdate
<1>1. Init => Current
  BY BoundAssumption DEF Init, Current
<1>2. LockInv /\ Current /\ [Next]_vars => Current' /\ [record \subseteq record']_record
  BY CurrentNext
<1> QED
  BY <1>1, <1>2, LockInvInit, LockInvNext, PTL DEF Spec, NoLostUpdate
===============================================================================

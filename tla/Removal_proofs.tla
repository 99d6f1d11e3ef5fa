---------------------------- MODULE Removal_proofs ----------------------------
(***************************************************************************)
(* For any number of packages, any dependencies between them and any       *)
(* faults: the types of Removal.tla are right, a protected package is      *)
(* never touched, removals that are not forced keep the tree whole, what   *)
(* is removed is what depends on the command line, and --autoremove takes  *)
(* what nobody needs.                                                      *)
(***************************************************************************)
EXTENDS Removal, TLAPS

Taking  == {"prerm", "files", "postrm", "deconfigure", "conffiles"}
Working == Taking \cup {"apply"}

LEMMA HalfStatusType ==
    ASSUME TypeOK, NEW p \in Package
    PROVE  HalfStatus(p) \in Status \ Present
BY SMT DEF TypeOK, HalfStatus, Status, Rest, Present, Half

LEMMA InitType == Init => TypeOK
<1> SUFFICES ASSUME Init PROVE TypeOK
  OBVIOUS
<1>1. db \in Database
  BY WorldAssumption DEF Init
<1>2. db.status \in [Package -> Rest]
  BY <1>1, SMT DEF Database
<1>3. db.status \in [Package -> Status]
  BY <1>2, SMT DEF Status
<1>4. files \subseteq Package /\ [p \in Package |-> "none"] \in [Package -> Type]
  BY SMT DEF Init, Type
<1>5. /\ pc \in Pc /\ pc = "idle" /\ cmd \in Command \cup {None}
      /\ targets \subseteq Package /\ work \subseteq Package /\ left \subseteq Package
      /\ cur \in Package \cup {None}
      /\ status = db.status /\ original = db.status /\ known = db.status
      /\ type = [p \in Package |-> "none"]
  BY SMT DEF Init, Pc
<1>6. errors \in BOOLEAN /\ excused \in BOOLEAN
  BY Zenon DEF Init
<1> QED BY <1>1, <1>3, <1>4, <1>5, <1>6, SMT DEF TypeOK

LEMMA FinishType ==
    ASSUME TypeOK, Finish, status' \in [Package -> Status], errors' \in BOOLEAN,
           excused' \in BOOLEAN, files' \subseteq Package, db' = db
    PROVE  TypeOK'
BY SMT DEF TypeOK, Finish, Pc, Type

LEMMA EndListType ==
    ASSUME TypeOK, EndList, pc # "idle", status' \in [Package -> Status],
           errors' \in BOOLEAN, excused' \in BOOLEAN, files' \subseteq Package, db' = db
    PROVE  TypeOK'
<1>1. CASE Autoremoving
  <2>1. EndCandidate
    BY <1>1 DEF EndList
  <2>2. known' \in [Package -> Status] /\ type' \in [Package -> Type]
    BY <2>1, SMT DEF TypeOK, EndCandidate, Status, Rest, Type
  <2> QED BY <2>1, <2>2, SMT DEF TypeOK, EndCandidate, Pc
<1>2. CASE ~Autoremoving
  BY <1>2, FinishType, SMT DEF EndList
<1> QED BY <1>1, <1>2

LEMMA CheckedTypes ==
    ASSUME TypeOK, NEW p \in Package
    PROVE  ExplicitType(p) \in Type /\ OtherType(p) \in Type
<1>1. ExplicitType(p) \in {"removing", "same", "explicit"}
  BY Zenon DEF ExplicitType
<1>2. OtherType(p) \in Present \cup {"configured", "none"}
  <2>1. CASE status[p] \in Present
    BY <2>1, SMT DEF OtherType, Present
  <2>2. CASE status[p] = "config_files"
    BY <2>2, SMT DEF OtherType, Present
  <2>3. CASE status[p] \notin Present \cup {"config_files"}
    BY <2>3, SMT DEF OtherType, Present
  <2> QED BY <2>1, <2>2, <2>3
<1> QED BY <1>1, <1>2, SMT DEF Type, Present

LEMMA ValidateType == ASSUME TypeOK, Validate PROVE TypeOK'
<1>1. CASE Load
  <2>1. /\ type' = [p \in Package |-> IF p \in targets THEN ExplicitType(p)
                                      ELSE OtherType(p)]
        /\ original' = status /\ work' \subseteq Package /\ pc' = "depends"
        /\ cmd \in Command
        /\ UNCHANGED <<db, status, files, cmd, targets, left, cur, known, excused>>
    BY <1>1, SMT DEF TypeOK, Load
  <2>2. type' \in [Package -> Type]
    BY <2>1, CheckedTypes, Zenon
  <2>3. errors' \in BOOLEAN
    BY <1>1, Zenon DEF TypeOK, Load
  <2> QED BY <2>1, <2>2, <2>3, SMT DEF TypeOK, Pc
<1>2. CASE BadFlags
  BY <1>2, FinishType, SMT DEF TypeOK, BadFlags, Throw
<1>3. ASSUME NEW p \in work, CheckDependents(p) PROVE TypeOK'
  <2> DEFINE found == IF Flag("depends") THEN {} ELSE Dependents(p)
             stays == {q \in found : ~Flag("recursive") \/ Protected(q, TRUE)}
             goes  == found \ stays
  <2>0. /\ type' = [q \in Package |-> IF q \in goes THEN "implicit" ELSE type[q]]
        /\ work' = (work \ {p}) \cup goes
        /\ UNCHANGED <<db, status, files, pc, cmd, targets, original, left, cur, known,
                       excused>>
    BY <1>3, Zenon DEF CheckDependents
  <2>3. goes \subseteq Package
    BY Zenon DEF Dependents
  <2> HIDE DEF goes
  <2>1. type' \in [Package -> Type] /\ work' \subseteq Package
    BY <2>0, <2>3, SMT DEF TypeOK, Type
  <2>2. errors' \in BOOLEAN
    BY <1>3, Zenon DEF TypeOK, CheckDependents
  <2> QED BY <2>0, <2>1, <2>2, SMT DEF TypeOK
<1>4. CASE DependenciesChecked
  BY <1>4, SMT DEF TypeOK, DependenciesChecked, list, Pc
<1>5. CASE Validated
  BY <1>5, SMT DEF TypeOK, Validated, Marked, Pc
<1>6. CASE Invalid
  BY <1>6, EndListType, SMT DEF TypeOK, Invalid
<1> QED BY <1>1, <1>2, <1>3, <1>4, <1>5, <1>6 DEF Validate

LEMMA TakeType ==
    ASSUME TypeOK, NEW p \in left, NEW label \in Taking, Take(p, label)
    PROVE  TypeOK'
<1>1. p \in Package
  BY DEF TypeOK
<1>2. status' \in [Package -> Status]
  BY <1>1, HalfStatusType, Zenon DEF TypeOK, Take
<1> QED BY <1>1, <1>2, SMT DEF TypeOK, Take, Pc, Taking

LEMMA ApplyType == ASSUME TypeOK, Apply PROVE TypeOK'
<1> USE DEF TypeOK
<1>1. ASSUME NEW p \in left, StartRemove(p) \/ StartDeconfigure(p) PROVE TypeOK'
  BY <1>1, TakeType, Zenon DEF StartRemove, StartDeconfigure, Taking
<1>2. CASE PrermDone
  BY <1>2, SMT DEF PrermDone, list, Pc, Status, Rest
<1>3. CASE PrermFails
  <2>1. /\ pc # "idle" /\ cur \in Package
        /\ EndList /\ UNCHANGED <<db, files, errors>> /\ excused' = TRUE
    BY <1>3, SMT DEF PrermFails
  <2>2. status' \in [Package -> Status]
    BY <1>3, SMT DEF PrermFails
  <2> QED BY <2>1, <2>2, EndListType
<1>4. CASE HookFails
  BY <1>4, EndListType, SMT DEF HookFails
<1>5. CASE RemoveFiles
  BY <1>5, SMT DEF RemoveFiles, list, Pc, Status, Half
<1>6. CASE RemoveThrows
  BY <1>6, FinishType, SMT DEF RemoveThrows, Throw, Status, Half
<1>7. CASE FinishRemove
  BY <1>7, SMT DEF FinishRemove, Pc, Status, Rest
<1>8. CASE PurgeConffiles
  <2>1. cur \in Package
    BY <1>8, SMT DEF PurgeConffiles
  <2>2. status' \in [Package -> Status]
    BY <1>8, <2>1, HalfStatusType, Zenon DEF PurgeConffiles
  <2> QED BY <1>8, <2>1, <2>2, SMT DEF PurgeConffiles, list, Pc
<1>9. CASE FinishDeconfigure
  BY <1>9, SMT DEF FinishDeconfigure, list, Pc, Status, Rest, Present
<1>10. CASE DeconfigureThrows
  BY <1>10, FinishType, SMT DEF DeconfigureThrows, Throw, Status, Half
<1>11. CASE ApplyDone
  BY <1>11, EndListType, SMT DEF ApplyDone
<1> QED
  BY <1>1, <1>2, <1>3, <1>4, <1>5, <1>6, <1>7, <1>8, <1>9, <1>10, <1>11
     DEF Apply, TakeOne

LEMMA NextType == ASSUME TypeOK, [Next]_vars PROVE TypeOK'
<1>1. ASSUME NEW c \in Command, Start(c) PROVE TypeOK'
  <2>1. c.packages \subseteq Package
    BY CommandAssumption, SMT
  <2>2. excused' \in BOOLEAN
    BY <1>1, Zenon DEF Start, TypeOK
  <2> QED BY <1>1, <2>1, <2>2, Zenon DEF Start, TypeOK, Pc
<1>2. ASSUME NEW p \in Package, AutoPick(p) PROVE TypeOK'
  BY <1>2, SMT DEF AutoPick, TypeOK, Pc
<1>3. CASE AutoDone
  BY <1>3, FinishType, SMT DEF AutoDone, TypeOK
<1>4. CASE Crash
  BY <1>4, FinishType, SMT DEF Crash, Throw, TypeOK
<1>5. CASE UNCHANGED vars
  BY <1>5, SMT DEF vars, list, TypeOK
<1> QED
  BY <1>1, <1>2, <1>3, <1>4, <1>5, ValidateType, ApplyType DEF Next, Work, Autoremove

(* The variables of a target and of a removal keep their types.            *)
THEOREM TypeCorrect == Spec => []TypeOK
<1>1. Init => TypeOK
  BY InitType
<1>2. TypeOK /\ [Next]_vars => TypeOK'
  BY NextType
<1> QED BY <1>1, <1>2, PTL DEF Spec

-----------------------------------------------------------------------------
(* Who was marked, and why: the error that a package which may not go      *)
(* leaves behind keeps the command from taking anything.                   *)
RemovingVetted ==
    \A p \in Package : type[p] = "removing" =>
        p \in targets /\ (errors \/ ~Protected(p, FALSE))
ImplicitVetted ==
    \A p \in Package : type[p] = "implicit" => ~Protected(p, TRUE)
Stages ==
    /\ pc \in Working => left \subseteq Marked
    /\ pc \in Taking => cur \in Marked
    /\ pc \in {"idle", "load", "auto"} => type = [p \in Package |-> "none"]
NoError == pc \in Working => ~errors
Vetted == RemovingVetted /\ ImplicitVetted /\ Stages /\ NoError

LEMMA NoneVetted ==
    ASSUME type' = [p \in Package |-> "none"], pc' \notin Working
    PROVE  Vetted'
BY SMT DEF Vetted, RemovingVetted, ImplicitVetted, Stages, NoError, Working

LEMMA FinishVetted ==
    ASSUME Finish
    PROVE  Vetted'
BY NoneVetted, SMT DEF Finish, Working, Taking

LEMMA EndListVetted ==
    ASSUME EndList
    PROVE  Vetted'
<1>1. CASE Finish
  BY <1>1, FinishVetted
<1>2. CASE EndCandidate
  BY <1>2, NoneVetted, SMT DEF EndCandidate, Working, Taking
<1> QED BY <1>1, <1>2 DEF EndList

LEMMA SameProtected ==
    ASSUME UNCHANGED <<db, cmd>>, NEW p, NEW b
    PROVE  Protected(p, b)' <=> Protected(p, b)
BY DEF Protected, Flag, Autoremoving

(* While nothing is marked or unmarked, what was vetted stays so.          *)
LEMMA SameVetted ==
    ASSUME Vetted, UNCHANGED <<db, cmd, targets, type, errors>>,
           pc' \in Working => ~errors /\ left' \subseteq Marked,
           pc' \in Taking => cur' \in Marked,
           pc' \notin {"idle", "load", "auto"}
    PROVE  Vetted'
<1>1. Marked' = Marked
  BY DEF Marked
<1>2. RemovingVetted'
  BY SameProtected, Zenon DEF Vetted, RemovingVetted
<1>3. ImplicitVetted'
  BY SameProtected, Zenon DEF Vetted, ImplicitVetted
<1>4. NoError'
  BY Zenon DEF NoError
<1>5. Stages'
  BY <1>1, Zenon DEF Stages
<1> QED BY <1>2, <1>3, <1>4, <1>5 DEF Vetted

LEMMA ValidateVetted == ASSUME TypeOK, Vetted, Validate PROVE Vetted'
<1>1. CASE Load
  <2>1. /\ type' = [p \in Package |-> IF p \in targets THEN ExplicitType(p)
                                      ELSE OtherType(p)]
        /\ pc' = "depends" /\ UNCHANGED <<db, cmd, targets>>
    BY <1>1, SMT DEF Load
  <2>2. ASSUME NEW p \in Package PROVE OtherType(p) \notin {"removing", "implicit"}
    <3>1. OtherType(p) \in Present \cup {"configured", "none"}
      <4>1. CASE status[p] \in Present
        BY <4>1, SMT DEF OtherType, Present
      <4>2. CASE status[p] = "config_files"
        BY <4>2, SMT DEF OtherType, Present
      <4>3. CASE status[p] \notin Present \cup {"config_files"}
        BY <4>3, SMT DEF OtherType, Present
      <4> QED BY <4>1, <4>2, <4>3
    <3> QED BY <3>1, SMT DEF Present
  <2>3. ASSUME NEW p \in Package PROVE ExplicitType(p) # "implicit"
    BY SMT DEF ExplicitType
  <2>4. \A p \in Package : type'[p] # "implicit"
    BY <2>1, <2>2, <2>3, SMT
  <2>6. ASSUME NEW p \in Package, type'[p] = "removing"
        PROVE  p \in targets' /\ (errors' \/ ~Protected(p, FALSE)')
    <3>1. p \in targets /\ ExplicitType(p) = "removing"
      BY <2>1, <2>2, <2>6, SMT
    <3>2. Protected(p, FALSE) => errors'
      BY <1>1, <3>1, Zenon DEF Load, Refused
    <3> QED BY <2>1, <3>1, <3>2, SameProtected, Zenon
  <2>7. RemovingVetted' /\ ImplicitVetted'
    BY <2>4, <2>6, Zenon DEF RemovingVetted, ImplicitVetted
  <2>8. Stages' /\ NoError'
    BY <2>1, SMT DEF Stages, NoError, Working, Taking
  <2> QED BY <2>7, <2>8 DEF Vetted
<1>2. CASE BadFlags
  BY <1>2, FinishVetted DEF BadFlags, Throw
<1>3. ASSUME NEW p \in work, CheckDependents(p) PROVE Vetted'
  <2> DEFINE found == IF Flag("depends") THEN {} ELSE Dependents(p)
             stays == {q \in found : ~Flag("recursive") \/ Protected(q, TRUE)}
             goes  == found \ stays
  <2>1. /\ type' = [q \in Package |-> IF q \in goes THEN "implicit" ELSE type[q]]
        /\ errors' = (errors \/ stays # {})
        /\ UNCHANGED <<db, pc, cmd, targets>> /\ pc = "depends"
    BY <1>3, Zenon DEF CheckDependents
  <2>3. \A q \in goes : ~Protected(q, TRUE)
    BY Zenon
  <2>4. errors => errors'
    BY <2>1, Zenon
  <2> HIDE DEF goes, stays
  <2>5. ASSUME NEW q \in Package
        PROVE  IF q \in goes THEN type'[q] = "implicit" ELSE type'[q] = type[q]
    BY <2>1, SMT
  <2>6. RemovingVetted'
    <3> SUFFICES ASSUME NEW q \in Package, type'[q] = "removing"
                 PROVE  q \in targets' /\ (errors' \/ ~Protected(q, FALSE)')
      BY Zenon DEF RemovingVetted
    <3>1. type[q] = "removing"
      BY <2>5, SMT
    <3> QED BY <2>1, <2>4, <3>1, SameProtected, Zenon DEF Vetted, RemovingVetted
  <2>7. ImplicitVetted'
    <3> SUFFICES ASSUME NEW q \in Package, type'[q] = "implicit"
                 PROVE  ~Protected(q, TRUE)'
      BY Zenon DEF ImplicitVetted
    <3>1. type[q] = "implicit" \/ q \in goes
      BY <2>5, SMT
    <3> QED BY <2>1, <2>3, <3>1, SameProtected, Zenon DEF Vetted, ImplicitVetted
  <2>8. Stages' /\ NoError'
    BY <2>1, SMT DEF Stages, NoError, Working, Taking
  <2> QED BY <2>6, <2>7, <2>8 DEF Vetted
<1>4. CASE DependenciesChecked
  BY <1>4, SameVetted, SMT DEF DependenciesChecked, list, Working, Taking
<1>5. CASE Validated
  BY <1>5, SameVetted, SMT DEF Validated, Working, Taking
<1>6. CASE Invalid
  BY <1>6, EndListVetted DEF Invalid
<1> QED BY <1>1, <1>2, <1>3, <1>4, <1>5, <1>6 DEF Validate

LEMMA ApplyVetted == ASSUME TypeOK, Vetted, Apply PROVE Vetted'
<1>1. ASSUME NEW p \in left, StartRemove(p) \/ StartDeconfigure(p) PROVE Vetted'
  <2>1. PICK label \in Taking : Take(p, label)
    BY <1>1, SMT DEF StartRemove, StartDeconfigure, Taking
  <2>2. pc \in Working /\ p \in Marked
    BY <2>1, SMT DEF Take, Vetted, Stages, Working
  <2> QED
    BY <2>1, <2>2, SameVetted, SMT DEF Take, Vetted, Stages, NoError, Working, Taking
<1>2. CASE PrermDone
  BY <1>2, SameVetted, SMT DEF PrermDone, list, Vetted, Stages, NoError, Working, Taking
<1>3. CASE PrermFails
  BY <1>3, EndListVetted DEF PrermFails
<1>4. CASE HookFails
  BY <1>4, EndListVetted DEF HookFails
<1>5. CASE RemoveFiles
  BY <1>5, SameVetted, SMT DEF RemoveFiles, list, Vetted, Stages, NoError, Working, Taking
<1>6. CASE RemoveThrows
  BY <1>6, FinishVetted DEF RemoveThrows, Throw
<1>7. CASE FinishRemove
  BY <1>7, SameVetted, SMT DEF FinishRemove, Vetted, Stages, NoError, Working, Taking
<1>8. CASE PurgeConffiles
  BY <1>8, SameVetted, SMT DEF PurgeConffiles, list, Vetted, Stages, NoError, Working, Taking
<1>9. CASE FinishDeconfigure
  BY <1>9, SameVetted, SMT DEF FinishDeconfigure, list, Vetted, Stages, NoError, Working, Taking
<1>10. CASE DeconfigureThrows
  BY <1>10, FinishVetted DEF DeconfigureThrows, Throw
<1>11. CASE ApplyDone
  BY <1>11, EndListVetted DEF ApplyDone
<1> QED
  BY <1>1, <1>2, <1>3, <1>4, <1>5, <1>6, <1>7, <1>8, <1>9, <1>10, <1>11
     DEF Apply, TakeOne

LEMMA NextVetted == ASSUME TypeOK, Vetted, [Next]_vars PROVE Vetted'
<1>1. ASSUME NEW c \in Command, Start(c) PROVE Vetted'
  <2>1. /\ type = [p \in Package |-> "none"] /\ type' = type
        /\ pc' \in {"auto", "load"}
    BY <1>1, SMT DEF Start, Vetted, Stages
  <2> QED BY <2>1, NoneVetted, SMT DEF Working, Taking
<1>2. ASSUME NEW p \in Package, AutoPick(p) PROVE Vetted'
  <2>1. /\ type = [q \in Package |-> "none"] /\ type' = type
        /\ pc' = "load"
    BY <1>2, SMT DEF AutoPick, Vetted, Stages
  <2> QED BY <2>1, NoneVetted, SMT DEF Working, Taking
<1>3. CASE AutoDone
  BY <1>3, FinishVetted DEF AutoDone
<1>4. CASE Crash
  BY <1>4, FinishVetted DEF Crash, Throw
<1>5. CASE UNCHANGED vars
  <2>1. UNCHANGED <<db, cmd, targets, type, errors, pc, left, cur>>
    BY <1>5 DEF vars, list
  <2>2. CASE pc \in {"idle", "load", "auto"}
    BY <2>1, <2>2, NoneVetted, SMT DEF Vetted, Stages, Working, Taking
  <2>3. CASE pc \notin {"idle", "load", "auto"}
    BY <2>1, <2>3, SameVetted, Zenon DEF Vetted, Stages, NoError
  <2> QED BY <2>2, <2>3
<1> QED
  BY <1>1, <1>2, <1>3, <1>4, <1>5, ValidateVetted, ApplyVetted DEF Next, Work, Autoremove

LEMMA StatusTouched ==
    ASSUME TypeOK, [Next]_vars
    PROVE  \/ status' = status
           \/ pc = "apply" /\ \E p \in left, label \in Taking : Take(p, label)
           \/ pc \in Taking /\ \E s : status' = [status EXCEPT ![cur] = s]
<1>1. ASSUME NEW c \in Command, Start(c) PROVE status' = status
  BY <1>1 DEF Start
<1>2. ASSUME Validate PROVE status' = status
  BY <1>2 DEF Validate, Load, BadFlags, CheckDependents, DependenciesChecked, Validated,
              Invalid
<1>3. ASSUME Autoremove PROVE status' = status
  BY <1>3 DEF Autoremove, AutoPick, AutoDone
<1>4. ASSUME Crash PROVE status' = status
  BY <1>4 DEF Crash
<1>5. ASSUME TakeOne PROVE pc = "apply" /\ \E p \in left, label \in Taking : Take(p, label)
  BY <1>5, SMT DEF TakeOne, StartRemove, StartDeconfigure, Take, Taking
<1>6. ASSUME ApplyDone PROVE status' = status
  BY <1>6 DEF ApplyDone
<1>7. ASSUME Apply, ~TakeOne, ~ApplyDone, ~HookFails
      PROVE  pc \in Taking /\ \E s : status' = [status EXCEPT ![cur] = s]
  BY <1>7, SMT DEF Apply, PrermDone, PrermFails, RemoveFiles, RemoveThrows, FinishRemove,
     PurgeConffiles, FinishDeconfigure, DeconfigureThrows, Taking
<1>8. ASSUME HookFails PROVE status' = status
  BY <1>8 DEF HookFails
<1>9. ASSUME UNCHANGED vars PROVE status' = status
  BY <1>9 DEF vars
<1> QED
  BY <1>1, <1>2, <1>3, <1>4, <1>5, <1>6, <1>7, <1>8, <1>9, Zenon DEF Next, Work

LEMMA VettedTouched ==
    ASSUME TypeOK, Vetted, [Next]_vars, NEW p \in Package, status'[p] # status[p]
    PROVE  pc \in Working /\ p \in Marked
<1>1. ASSUME NEW q \in left, NEW label \in Taking, Take(q, label), pc = "apply"
      PROVE  pc \in Working /\ p \in Marked
  BY <1>1, SMT DEF Take, Vetted, Stages, TypeOK, Working
<1>2. ASSUME pc \in Taking, NEW s, status' = [status EXCEPT ![cur] = s]
      PROVE  pc \in Working /\ p \in Marked
  BY <1>2, SMT DEF Vetted, Stages, TypeOK, Working
<1> QED BY <1>1, <1>2, StatusTouched, Zenon

(* A required package, and an essential or held one the command line does  *)
(* not name and force, keeps its status whatever is asked for and fails.   *)
THEOREM ProtectedNeverTouched == Spec => ProtectedStays
<1>1. Init => TypeOK /\ Vetted
  <2>1. Init => Vetted
    BY NoneVetted, SMT DEF Init, Vetted, RemovingVetted, ImplicitVetted, Stages, NoError,
       Working, Taking
  <2> QED BY <2>1, InitType
<1>2. TypeOK /\ Vetted /\ [Next]_vars => (TypeOK /\ Vetted)'
  BY NextType, NextVetted
<1>3. TypeOK /\ Vetted /\ [Next]_vars =>
        [pc \notin {"idle", "load"} => \A p \in Spared : status'[p] = status[p]]_vars
  <2> SUFFICES ASSUME TypeOK, Vetted, [Next]_vars, NEW p \in Spared,
                      status'[p] # status[p]
               PROVE  FALSE
    OBVIOUS
  <2>1. p \in Package
    BY SMT DEF Spared, TypeOK, Database
  <2>2. pc \in Working /\ p \in Marked
    BY <2>1, VettedTouched
  <2>3. CASE type[p] = "removing"
    BY <2>1, <2>2, <2>3, Zenon DEF Vetted, RemovingVetted, ImplicitVetted, NoError, Protected, Spared
  <2>4. CASE type[p] = "implicit"
    BY <2>1, <2>2, <2>4, Zenon DEF Vetted, RemovingVetted, ImplicitVetted, NoError, Protected, Spared
  <2> QED BY <2>2, <2>3, <2>4 DEF Marked
<1> QED BY <1>1, <1>2, <1>3, PTL DEF Spec, ProtectedStays

-----------------------------------------------------------------------------
(* Removals that are not forced keep the tree.  Once validate_dependencies *)
(* has looked at every mark without an error, nobody outside of the marked *)
(* packages names one of them.                                             *)
Planned == {"depends", "scripts"} \cup Working
Listed ==
    pc \in Planned =>
        \A p \in Package \ Marked : status[p] \in Present => type[p] = status[p]
Followed ==
    pc \in Planned /\ ~excused /\ ~errors =>
        \A q \in Marked \ work : Dependents(q) = {}
WorkDone == pc \in Planned \ {"depends"} => work = {}
Forced == pc # "idle" /\ Flag("depends") => excused
WholeBefore == pc \notin Working /\ ~excused => Whole(status)
WholeAfter ==
    pc \in Working /\ ~excused =>
        \A p \in Package \ Marked : status[p] \in Present =>
            \A q \in db.depends[p] : q \notin Marked /\ status[q] \in Present
Taken ==
    /\ pc \in Working => \A p \in Marked \ left : status[p] \notin Present
    /\ pc \in Taking => cur \notin left
    /\ pc \in {"deconfigure", "conffiles"} => original[cur] \notin Present
Plan == Listed /\ Followed /\ WorkDone /\ Forced
Tree == Plan /\ WholeBefore /\ WholeAfter /\ Taken
Inv  == TypeOK /\ Vetted /\ Tree

LEMMA DependsType == ASSUME TypeOK, NEW p \in Package PROVE db.depends[p] \subseteq Package
BY SMT DEF TypeOK, Database

(* Outside of a plan only the statuses matter.                             *)
LEMMA UnplannedTree ==
    ASSUME pc' \notin Planned, Forced', WholeBefore'
    PROVE  Tree'
BY SMT DEF Tree, Plan, Listed, Followed, WorkDone, WholeAfter, Taken, Planned, Working, Taking

LEMMA FinishTree ==
    ASSUME Finish, db' = db, ~excused' => Whole(status')
    PROVE  Tree'
<1>1. pc' = "idle" /\ pc' \notin Planned
  BY SMT DEF Finish, Planned, Working, Taking
<1>2. Forced'
  BY <1>1, Zenon DEF Forced
<1>3. WholeBefore'
  BY Zenon DEF WholeBefore, Whole
<1> QED BY <1>1, <1>2, <1>3, UnplannedTree

LEMMA EndListTree ==
    ASSUME EndList, Forced, pc # "idle", db' = db, excused => excused',
           ~excused' => Whole(status')
    PROVE  Tree'
<1>1. CASE Finish
  BY <1>1, FinishTree
<1>2. CASE EndCandidate
  <2>1. pc' = "auto" /\ pc' \notin Planned /\ cmd' = cmd
    BY <1>2, SMT DEF EndCandidate, Planned, Working, Taking
  <2>2. Forced'
    BY <2>1, Zenon DEF Forced, Flag, Autoremoving
  <2>3. WholeBefore'
    BY Zenon DEF WholeBefore, Whole
  <2> QED BY <2>1, <2>2, <2>3, UnplannedTree
<1> QED BY <1>1, <1>2 DEF EndList

LEMMA BeforeKept ==
    ASSUME WholeBefore, pc \notin Working, UNCHANGED <<db, status, excused>>
    PROVE  WholeBefore'
BY Zenon DEF WholeBefore, Whole

LEMMA ValidateTree ==
    ASSUME Inv, Validate, \A c \in Command : c.name # "deconfigure"
    PROVE  Tree'
<1> USE DEF Inv, Tree, Plan
<1>0. status' = status /\ db' = db /\ excused' = excused
  BY DEF Validate, Load, BadFlags, CheckDependents, DependenciesChecked, Validated, Invalid
<1>00. pc \notin Working => (~excused' => Whole(status'))
  BY <1>0, Zenon DEF WholeBefore, Whole
<1>1. CASE Load
  <2>1. /\ type' = [p \in Package |-> IF p \in targets THEN ExplicitType(p)
                                      ELSE OtherType(p)]
        /\ work' = {p \in targets : ExplicitType(p) = "removing"}
        /\ pc' = "depends" /\ pc = "load" /\ cmd' = cmd /\ targets \subseteq Package
    BY <1>1, SMT DEF Load, TypeOK
  <2>2. cmd.name # "deconfigure"
    BY <2>1, SMT DEF TypeOK
  <2>3. ASSUME NEW p \in Package, status[p] \in Present
        PROVE  type'[p] \in {"removing", status[p]}
    <3>1. ExplicitType(p) = "removing"
      BY <2>2, <2>3, SMT DEF ExplicitType, Deconfiguring, Present
    <3>2. OtherType(p) = status[p]
      BY <2>3, SMT DEF OtherType, Present
    <3> QED BY <2>1, <3>1, <3>2, SMT
  <2>4. ASSUME NEW p \in Package \ targets
        PROVE  type'[p] \notin {"removing", "implicit"}
    <3>1. CASE status[p] \in Present
      BY <2>1, <3>1, SMT DEF OtherType, Present
    <3>2. CASE status[p] = "config_files"
      BY <2>1, <3>2, SMT DEF OtherType, Present
    <3>3. CASE status[p] \notin Present \cup {"config_files"}
      BY <2>1, <3>3, SMT DEF OtherType, Present
    <3> QED BY <3>1, <3>2, <3>3
  <2>5. ASSUME NEW p \in targets PROVE ExplicitType(p) # "implicit"
    BY SMT DEF ExplicitType
  <2>6. Marked' \subseteq work'
    BY <2>1, <2>4, <2>5, SMT DEF Marked
  <2>7. Listed'
    BY <1>0, <2>3, SMT DEF Listed, Marked
  <2>8. Followed'
    BY <2>6, Zenon DEF Followed
  <2>9. WorkDone' /\ WholeAfter' /\ Taken'
    BY <2>1, SMT DEF WorkDone, WholeAfter, Taken, Planned, Working, Taking
  <2>9b. WholeBefore'
    BY <1>0, <2>1, BeforeKept, SMT DEF Working, Taking
  <2>10. Forced'
    BY <1>0, <2>1, Zenon DEF Forced, Flag, Autoremoving
  <2> QED BY <2>7, <2>8, <2>9, <2>9b, <2>10
<1>2. CASE BadFlags
  <2>1. pc = "load" /\ Finish
    BY <1>2 DEF BadFlags, Throw
  <2> QED BY <1>0, <1>00, <2>1, FinishTree, SMT DEF Working, Taking
<1>3. ASSUME NEW p \in work, CheckDependents(p) PROVE Tree'
  <2> DEFINE found == IF Flag("depends") THEN {} ELSE Dependents(p)
             stays == {q \in found : ~Flag("recursive") \/ Protected(q, TRUE)}
             goes  == found \ stays
  <2>1. /\ type' = [q \in Package |-> IF q \in goes THEN "implicit" ELSE type[q]]
        /\ work' = (work \ {p}) \cup goes
        /\ errors' = (errors \/ stays # {})
        /\ cmd' = cmd /\ pc = "depends" /\ pc' = "depends"
    BY <1>3, Zenon DEF CheckDependents
  <2>2. goes \subseteq Package /\ Dependents(p) \subseteq Package
    BY Zenon DEF Dependents
  <2>3. ~excused => ~Flag("depends")
    BY <2>1, SMT DEF Forced
  <2>4. ~excused /\ ~errors' => goes = Dependents(p) /\ ~errors
    BY <2>1, <2>3, Zenon
  <2> HIDE DEF goes, stays
  <2>5. \A q \in Package : type'[q] = IF q \in goes THEN "implicit" ELSE type[q]
    BY <2>1, <2>2, SMT
  <2>6. Marked' \subseteq Marked \cup goes /\ Marked \subseteq Marked' /\ goes \subseteq Marked'
    BY <2>2, <2>5, SMT DEF Marked
  <2>7. \A q : Dependents(q)' \subseteq Dependents(q) \ goes
    BY <1>0, <2>2, <2>5, SMT DEF Dependents, Present
  <2>8. Listed'
    BY <1>0, <2>1, <2>5, <2>6, SMT DEF Listed, Planned
  <2>9. Followed'
    <3> SUFFICES ASSUME ~excused, ~errors', NEW q \in Marked', q \notin work'
                 PROVE  Dependents(q)' = {}
      BY <1>0, Zenon DEF Followed
    <3>1. q \in Marked /\ q \notin goes
      BY <2>1, <2>6, Zenon
    <3>2. CASE q = p
      BY <2>4, <2>7, <3>2, SMT
    <3>3. CASE q # p
      <4>1. q \notin work
        BY <2>1, <3>3, Zenon
      <4>2. Dependents(q) = {}
        BY <2>1, <2>4, <3>1, <4>1, SMT DEF Followed, Planned
      <4> QED BY <2>7, <4>2, SMT
    <3> QED BY <3>2, <3>3
  <2>10. WorkDone' /\ WholeAfter' /\ Taken'
    BY <2>1, SMT DEF WorkDone, WholeAfter, Taken, Planned, Working, Taking
  <2>10b. WholeBefore'
    BY <1>0, <2>1, BeforeKept, SMT DEF Working, Taking
  <2>11. Forced'
    BY <1>0, <2>1, Zenon DEF Forced, Flag, Autoremoving
  <2> QED BY <2>8, <2>9, <2>10, <2>10b, <2>11
<1>4. CASE DependenciesChecked
  <2>1. /\ UNCHANGED <<type, work, cmd, errors, left, cur, original>> /\ work = {}
        /\ pc = "depends" /\ pc' = "scripts"
    BY <1>4 DEF DependenciesChecked, list
  <2>2. Marked' = Marked /\ \A q : Dependents(q)' = Dependents(q)
    BY <1>0, <2>1 DEF Marked, Dependents
  <2>3. Listed'
    BY <1>0, <2>1, <2>2, SMT DEF Listed, Planned
  <2>4. Followed'
    BY <1>0, <2>1, <2>2, SMT DEF Followed, Planned
  <2>5. WorkDone' /\ WholeAfter' /\ Taken'
    BY <2>1, SMT DEF WorkDone, WholeAfter, Taken, Planned, Working, Taking
  <2>5b. WholeBefore'
    BY <1>0, <2>1, BeforeKept, SMT DEF Working, Taking
  <2>6. Forced'
    BY <1>0, <2>1, Zenon DEF Forced, Flag, Autoremoving
  <2> QED BY <2>3, <2>4, <2>5, <2>5b, <2>6
<1>5. CASE Validated
  <2>1. /\ UNCHANGED <<type, work, cmd, errors, cur, original>> /\ left' = Marked
        /\ pc = "scripts" /\ pc' = "apply"
    BY <1>5 DEF Validated
  <2>1a. ~errors
    BY <1>5 DEF Validated
  <2>2. Marked' = Marked /\ \A q : Dependents(q)' = Dependents(q)
    BY <1>0, <2>1 DEF Marked, Dependents
  <2>3. Listed'
    BY <1>0, <2>1, <2>2, SMT DEF Listed, Planned, Working
  <2>4. Followed'
    BY <1>0, <2>1, <2>2, SMT DEF Followed, Planned, Working
  <2>5. WorkDone' /\ Taken' /\ WholeBefore'
    BY <2>1, <2>2, SMT DEF WorkDone, Taken, WholeBefore, Planned, Working, Taking
  <2>6. Forced'
    BY <1>0, <2>1, Zenon DEF Forced, Flag, Autoremoving
  <2>7. WholeAfter'
    <3> SUFFICES ASSUME ~excused, NEW p \in Package \ Marked, status[p] \in Present,
                        NEW q \in db.depends[p]
                 PROVE  q \notin Marked /\ status[q] \in Present
      BY <1>0, <2>2, Zenon DEF WholeAfter
    <3>1. status[q] \in Present
      BY <2>1, SMT DEF WholeBefore, Whole, Working, Taking
    <3>2. type[p] \in Present
      BY <2>1, SMT DEF Listed, Planned
    <3>3. ASSUME q \in Marked PROVE FALSE
      <4>1. Dependents(q) = {}
        BY <2>1, <2>1a, <3>3, SMT DEF Followed, WorkDone, Planned
      <4>2. p \in Dependents(q)
        BY <3>2, <3>3, SMT DEF Dependents
      <4> QED BY <4>1, <4>2
    <3> QED BY <3>1, <3>3
  <2> QED BY <2>3, <2>4, <2>5, <2>6, <2>7
<1>6. CASE Invalid
  <2>1. pc = "scripts" /\ EndList
    BY <1>6 DEF Invalid
  <2> QED BY <1>0, <1>00, <2>1, EndListTree, SMT DEF Working, Taking
<1> QED BY <1>1, <1>2, <1>3, <1>4, <1>5, <1>6 DEF Validate

(* A step of a package that is being taken.                                *)
LEMMA StepTree ==
    ASSUME Inv, UNCHANGED <<db, cmd, type, errors, excused, work>>, pc \in Working,
           pc' \in Working, left' \subseteq left,
           NEW p \in Marked, left \ left' \subseteq {p}, p \notin left',
           NEW s \in Status \ Present, status' = [status EXCEPT ![p] = s],
           pc' \in Taking => cur' = p,
           pc' \in {"deconfigure", "conffiles"} => original'[cur'] \notin Present
    PROVE  Tree'
<1>1. Marked' = Marked /\ \A q : Dependents(q)' = Dependents(q)
  BY DEF Marked, Dependents
<1>2. Marked \subseteq Package
  BY DEF Marked
<1>3. \A q \in Package : status'[q] = IF q = p THEN s ELSE status[q]
  BY <1>2, SMT DEF Inv, TypeOK
<1>4. Listed'
  BY <1>1, <1>2, <1>3, SMT DEF Listed, Inv, Tree, Plan, Planned
<1>5. Followed'
  BY <1>1, SMT DEF Followed, Inv, Tree, Plan, Planned
<1>6. WorkDone' /\ WholeBefore'
  BY SMT DEF WorkDone, WholeBefore, Inv, Tree, Plan, Planned, Working, Taking
<1>7. Forced'
  BY SMT DEF Forced, Flag, Autoremoving, Inv, Tree, Plan, Working, Taking
<1>8. WholeAfter'
  <2> SUFFICES ASSUME ~excused, NEW r \in Package \ Marked, status'[r] \in Present,
                      NEW q \in db.depends[r]
               PROVE  q \notin Marked /\ status'[q] \in Present
    BY <1>1, Zenon DEF WholeAfter
  <2>1. status[r] \in Present /\ q \in Package
    BY <1>3, DependsType, SMT DEF Inv
  <2>2. q \notin Marked /\ status[q] \in Present
    BY <2>1, SMT DEF WholeAfter, Inv, Tree
  <2> QED BY <1>3, <2>1, <2>2, SMT
<1>9. Taken'
  BY <1>1, <1>2, <1>3, SMT DEF Taken, Inv, Tree
<1> QED BY <1>4, <1>5, <1>6, <1>7, <1>8, <1>9 DEF Tree, Plan

LEMMA Labels ==
    /\ \A l \in {"prerm", "files", "postrm", "deconfigure", "conffiles"} : l \in Taking
    /\ \A l \in {"apply", "prerm", "files", "postrm", "deconfigure", "conffiles"} :
          l \in Working
    /\ {"files", "postrm", "apply"} \cap {"deconfigure", "conffiles"} = {}
    /\ \A s \in {"not_installed", "config_files", "removing", "half_installed"} :
          s \in Status \ Present
BY SMT DEF Working, Taking, Status, Present, Rest, Half

LEMMA ApplyTree ==
    ASSUME Inv, Apply, \A c \in Command : c.name # "deconfigure"
    PROVE  Tree'
<1>0. /\ pc \in Working /\ pc # "idle"
      /\ ~Deconfiguring
      /\ pc \in Taking => cur \in Marked /\ cur \notin left /\ cur \in Package
      /\ left \subseteq Marked /\ Marked \subseteq Package
  <2>1. pc \in Working
    BY SMT DEF Apply, TakeOne, StartRemove, StartDeconfigure, Take, PrermDone, PrermFails,
       HookFails, RemoveFiles, RemoveThrows, FinishRemove, PurgeConffiles,
       FinishDeconfigure, DeconfigureThrows, ApplyDone, Working, Taking
  <2>2. pc # "idle" /\ ~Deconfiguring
    BY <2>1, SMT DEF Inv, TypeOK, Deconfiguring, Working, Taking
  <2>3. Marked \subseteq Package
    BY DEF Marked
  <2> QED BY <2>1, <2>2, <2>3, SMT DEF Inv, Vetted, Stages, Tree, Taken
<1>1. ASSUME NEW p \in left, StartRemove(p) PROVE Tree'
  <2>1. /\ Take(p, "prerm") /\ p \in Marked
    BY <1>0, <1>1 DEF StartRemove
  <2>2. HalfStatus(p) \in Status \ Present
    BY <1>0, <2>1, HalfStatusType DEF Inv
  <2>3. /\ UNCHANGED <<db, cmd, type, errors, excused, work>>
        /\ left' = left \ {p} /\ pc' = "prerm" /\ cur' = p
        /\ status' = [status EXCEPT ![p] = HalfStatus(p)]
    BY <2>1 DEF Take
  <2>4. /\ left' \subseteq left /\ left \ left' \subseteq {p} /\ p \notin left'
        /\ pc' \in Working /\ pc' \notin {"deconfigure", "conffiles"}
    BY <2>3, SMT DEF Working, Taking
  <2> QED BY <1>0, <2>1, <2>2, <2>3, <2>4, StepTree, Zenon
<1>2. ASSUME NEW p \in left, StartDeconfigure(p) PROVE Tree'
  BY <1>0, <1>2 DEF StartDeconfigure
<1>3. ASSUME cur \in Marked, UNCHANGED <<db, cmd, type, errors, excused, work, left, cur>>,
             pc \in Taking, pc' \in Working, NEW s \in Status \ Present,
             status' = [status EXCEPT ![cur] = s],
             pc' \in {"deconfigure", "conffiles"} => original'[cur] \notin Present
      PROVE  Tree'
  <2>1. left' \subseteq left /\ left \ left' \subseteq {cur} /\ cur \notin left'
    BY <1>0, <1>3, SMT
  <2>2. cur' = cur
    BY <1>3
  <2> QED BY <1>0, <1>3, <2>1, <2>2, StepTree, Zenon
<1>4. CASE PrermDone
  <2>1. /\ pc = "prerm" /\ pc' = "files"
        /\ UNCHANGED <<db, cmd, type, errors, excused, work, left, cur>>
        /\ status' = [status EXCEPT ![cur] = "removing"]
    BY <1>4 DEF PrermDone, list
  <2> QED BY <1>0, <1>3, <2>1, Labels, Zenon
<1>5. CASE PrermFails
  <2>1. EndList /\ excused' /\ db' = db
    BY <1>5 DEF PrermFails
  <2> QED BY <1>0, <2>1, EndListTree, Zenon DEF Inv, Tree, Plan
<1>6. CASE HookFails
  <2>1. EndList /\ excused' /\ db' = db
    BY <1>6 DEF HookFails
  <2> QED BY <1>0, <2>1, EndListTree, Zenon DEF Inv, Tree, Plan
<1>7. CASE RemoveFiles
  <2>1. /\ pc = "files" /\ pc' = "postrm"
        /\ UNCHANGED <<db, cmd, type, errors, excused, work, left, cur>>
        /\ status' = [status EXCEPT ![cur] = "half_installed"]
    BY <1>7 DEF RemoveFiles, list
  <2> QED BY <1>0, <1>3, <2>1, Labels, Zenon
<1>8. CASE RemoveThrows
  <2>1. Finish /\ excused' /\ db' = db
    BY <1>8 DEF RemoveThrows, Throw
  <2> QED BY <2>1, FinishTree, Zenon
<1>9. CASE FinishRemove
  <2>1. /\ pc = "postrm" /\ pc' \in {"deconfigure", "apply"}
        /\ UNCHANGED <<db, cmd, type, errors, excused, work, left, cur>>
    BY <1>9 DEF FinishRemove
  <2>2. PICK s \in {"not_installed", "config_files"} :
           /\ status' = [status EXCEPT ![cur] = s]
           /\ original' = [original EXCEPT ![cur] = s]
    BY <1>9, Zenon DEF FinishRemove
  <2>3. original'[cur] = s
    <3>1. cur \in Package /\ original \in [Package -> Status]
      BY <1>0, <2>1, Labels DEF Inv, TypeOK
    <3> QED BY <2>2, <3>1, SMT
  <2>4. s \in Status \ Present
    BY <2>2, Labels
  <2> QED BY <1>0, <1>3, <2>1, <2>2, <2>3, <2>4, Labels, Zenon
<1>10. CASE PurgeConffiles
  <2>1. /\ pc = "deconfigure" /\ pc' = "conffiles"
        /\ UNCHANGED <<db, cmd, type, errors, excused, work, left, cur, original>>
        /\ status' = [status EXCEPT ![cur] = HalfStatus(cur)]
    BY <1>10 DEF PurgeConffiles, list
  <2>2. HalfStatus(cur) \in Status \ Present
    BY <1>0, <2>1, HalfStatusType, SMT DEF Inv, Taking
  <2>3. original[cur] \notin Present
    BY <2>1, Zenon DEF Inv, Tree, Taken
  <2>4. original'[cur] \notin Present
    BY <2>1, <2>3, Zenon
  <2> QED BY <1>0, <1>3, <2>1, <2>2, <2>4, Labels, Zenon
<1>11. CASE FinishDeconfigure
  <2>1. /\ pc = "conffiles" /\ pc' = "apply"
        /\ UNCHANGED <<db, cmd, type, errors, excused, work, left, cur, original>>
    BY <1>11 DEF FinishDeconfigure, list
  <2>2. original[cur] # "installed"
    BY <2>1, SMT DEF Inv, Tree, Taken, Present
  <2>3. status' = [status EXCEPT ![cur] = "not_installed"]
    <3>1. status' = [status EXCEPT ![cur] =
                        IF original[cur] = "installed" THEN "unpacked"
                        ELSE "not_installed"]
      BY <1>11 DEF FinishDeconfigure
    <3> QED BY <2>2, <3>1, SMT
  <2> QED BY <1>0, <1>3, <2>1, <2>3, Labels, Zenon
<1>12. CASE DeconfigureThrows
  <2>1. Finish /\ excused' /\ db' = db
    BY <1>12 DEF DeconfigureThrows, Throw
  <2> QED BY <2>1, FinishTree, Zenon
<1>13. CASE ApplyDone
  <2>1. /\ EndList /\ UNCHANGED <<db, status, excused>>
        /\ pc = "apply" /\ left = {}
    BY <1>13 DEF ApplyDone
  <2>2. ~excused => Whole(status)
    <3> SUFFICES ASSUME ~excused, NEW p \in Package, status[p] \in Present,
                        NEW q \in db.depends[p]
                 PROVE  status[q] \in Present
      BY Zenon DEF Whole
    <3>1. p \notin Marked
      BY <1>0, <2>1, SMT DEF Inv, Tree, Taken
    <3> QED BY <1>0, <3>1, SMT DEF Inv, Tree, WholeAfter
  <2>3. ~excused' => Whole(status')
    BY <2>1, <2>2, Zenon DEF Whole
  <2> QED BY <1>0, <2>1, <2>3, EndListTree, Zenon DEF Inv, Tree, Plan
<1> QED
  BY <1>1, <1>2, <1>4, <1>5, <1>6, <1>7, <1>8, <1>9, <1>10, <1>11, <1>12, <1>13
     DEF Apply, TakeOne

LEMMA NextTree ==
    ASSUME Inv, [Next]_vars, \A c \in Command : c.name # "deconfigure"
    PROVE  Tree'
<1> USE DEF Inv, Tree, Plan
<1>1. ASSUME NEW c \in Command, Start(c) PROVE Tree'
  <2>1. /\ pc = "idle" /\ pc' \in {"auto", "load"} /\ cmd' = c
        /\ UNCHANGED <<db, status>>
    BY <1>1, SMT DEF Start
  <2>2. excused' = (excused \/ (c.name # "autoremove" /\ "depends" \in c.flags))
    BY <1>1 DEF Start
  <2>3. Forced'
    BY <2>1, <2>2, Zenon DEF Forced, Flag, Autoremoving
  <2>4. WholeBefore'
    <3>1. pc \notin Working
      BY <2>1, SMT DEF Working, Taking
    <3> QED BY <2>1, <2>2, <3>1, Zenon DEF WholeBefore, Whole
  <2>5. pc' \notin Planned
    BY <2>1, SMT DEF Planned, Working, Taking
  <2> QED BY <2>3, <2>4, <2>5, UnplannedTree, Zenon
<1>2. ASSUME NEW p \in Package, AutoPick(p) PROVE Tree'
  <2>1. /\ pc = "auto" /\ pc' = "load" /\ UNCHANGED <<db, status, cmd, excused>>
    BY <1>2 DEF AutoPick
  <2>2. Forced'
    BY <2>1, SMT DEF Forced, Flag, Autoremoving
  <2>3. WholeBefore'
    BY <2>1, SMT DEF WholeBefore, Whole, Working, Taking
  <2>4. pc' \notin Planned
    BY <2>1, SMT DEF Planned, Working, Taking
  <2> QED BY <2>2, <2>3, <2>4, UnplannedTree, Zenon
<1>3. CASE AutoDone
  <2>1. Finish /\ pc = "auto" /\ UNCHANGED <<db, status, excused>>
    BY <1>3 DEF AutoDone
  <2>2. pc \notin Working
    BY <2>1, SMT DEF Working, Taking
  <2>3. ~excused' => Whole(status')
    BY <2>1, <2>2, Zenon DEF WholeBefore, Whole
  <2> QED BY <2>1, <2>3, FinishTree, Zenon
<1>4. CASE Crash
  <2>1. Finish /\ excused' /\ db' = db
    BY <1>4 DEF Crash, Throw
  <2> QED BY <2>1, FinishTree, Zenon
<1>5. CASE UNCHANGED vars
  <2>1. UNCHANGED <<db, status, cmd, type, original, work, left, cur, errors, excused, pc>>
    BY <1>5 DEF vars, list
  <2>2. Marked' = Marked /\ \A q : Dependents(q)' = Dependents(q)
    BY <2>1 DEF Marked, Dependents
  <2>3. Plan'
    BY <2>1, <2>2, Zenon DEF Listed, Followed, WorkDone, Forced, Flag, Autoremoving
  <2> QED BY <2>1, <2>2, <2>3, Zenon DEF WholeBefore, WholeAfter, Taken, Whole
<1> QED
  BY <1>1, <1>2, <1>3, <1>4, <1>5, ValidateTree, ApplyTree DEF Next, Work, Autoremove

(* Unless --force-depends was used or a package failed, whatever was still *)
(* there when a command ended has its dependencies, for commands that take *)
(* packages away (--deconfigure only changes what "there" means).          *)
THEOREM TreeIsKept ==
    ASSUME \A c \in Command : c.name # "deconfigure",
           \A d \in World : \A p \in Package : d.status[p] \in Present =>
               \A q \in d.depends[p] : d.status[q] \in Present
    PROVE  Spec => []TreeKept
<1>1. Init => Inv
  <2> SUFFICES ASSUME Init PROVE Inv
    OBVIOUS
  <2>1. TypeOK /\ pc \notin Planned /\ pc = "idle"
    BY InitType, SMT DEF Init, Planned, Working, Taking
  <2>2. Vetted
    BY <2>1, SMT DEF Init, Vetted, RemovingVetted, ImplicitVetted, Stages, NoError,
       Planned, Working, Taking
  <2>3. Whole(status)
    BY Zenon DEF Init, Whole
  <2> QED
    BY <2>1, <2>2, <2>3, SMT DEF Inv, Tree, Plan, Listed, Followed, WorkDone, Forced,
       WholeBefore, WholeAfter, Taken, Planned, Working, Taking
<1>2. Inv /\ [Next]_vars => Inv'
  BY NextType, NextVetted, NextTree DEF Inv
<1>3. Inv => TreeKept
  BY SMT DEF Inv, Tree, WholeBefore, TreeKept, Working, Taking
<1> QED BY <1>1, <1>2, <1>3, PTL DEF Spec

-----------------------------------------------------------------------------
(* What a plan is: everything marked was asked for or follows from what    *)
(* was, and nothing that follows is left unmarked once the work is done.   *)
Outlining == {"depends", "scripts"}
Asked == {p \in targets : type[p] = "removing"}
Loaded ==
    /\ pc \in Outlining => original = status
    /\ pc \in Outlining => \A q \in Package : type[q] \in Present => type[q] = status[q]
    /\ pc \in Planned => \A q \in Package \ Marked : status[q] \in Present =>
           type[q] = status[q] \/ (Deconfiguring /\ type[q] = "same")
    /\ pc \in Planned => \A q \in targets : type[q] \notin Present
Sound ==
    pc \in Outlining => \A S \in SUBSET Package : Asked \subseteq S /\ Closed(S) =>
        Marked \subseteq S
Complete ==
    /\ pc \in Planned => work \subseteq Marked
    /\ pc \in Planned \ {"depends"} => work = {}
    /\ pc \in Planned /\ ~errors /\ ~Flag("depends") =>
           \A q \in Marked \ work : Dependents(q) = {}
Outline == Loaded /\ Sound /\ Complete

(* A list of autoremove() has one package and takes nobody else.           *)
Alone ==
    /\ pc = "auto" => Autoremoving
    /\ pc \in Planned \cup {"load"} /\ Autoremoving => \E p \in Package : targets = {p}
    /\ pc \in Planned /\ Autoremoving => \A p \in Package : type[p] # "implicit"

(* What was taken is not there any more; nothing is half taken but the     *)
(* package at hand, as long as nothing failed.                             *)
Gone ==
    /\ pc \in Working /\ ~Deconfiguring => \A p \in Marked \ left : status[p] \notin Present
    /\ pc \in Taking => cur \notin left
    /\ pc \in {"deconfigure", "conffiles"} /\ ~Deconfiguring => original[cur] \notin Present
AtRest ==
    ~excused => \A p \in Package : p # cur \/ pc \notin Taking => status[p] \in Rest

(* As long as nothing failed, what autoremove() believes is true of all    *)
(* but the package at hand.                                                *)
Believed ==
    pc # "idle" /\ Autoremoving /\ ~errors /\ ~excused =>
        \A p \in Package :
            /\ known[p] \in Rest
            /\ p \notin targets \/ pc \notin Working =>
                   (known[p] \in Present <=> status[p] \in Present)
AutoTrue == Alone /\ Gone /\ AtRest /\ Believed

LEMMA UnplannedOutline ==
    ASSUME pc' \notin Planned
    PROVE  Outline'
<1>1. pc' \notin Outlining
  BY SMT DEF Planned, Outlining
<1> QED BY <1>1, SMT DEF Outline, Loaded, Sound, Complete

LEMMA EndListUnplanned ==
    ASSUME EndList
    PROVE  pc' \notin Planned
BY SMT DEF EndList, EndCandidate, Finish, Planned, Working, Taking

LEMMA SameOutline ==
    ASSUME Outline, UNCHANGED <<db, cmd, targets, type, errors, work>>, pc \in Planned,
           pc' # "depends" => work = {},
           pc' \in Outlining => pc \in Outlining /\ UNCHANGED <<status, original>>,
           \A q \in Package \ Marked : status'[q] = status[q]
    PROVE  Outline'
<1> USE DEF Outline
<1>1. Marked' = Marked /\ Asked' = Asked /\ \A q : Dependents(q)' = Dependents(q)
  BY DEF Marked, Asked, Dependents
<1>2. Flag("depends")' <=> Flag("depends")
  BY Zenon DEF Flag, Autoremoving
<1>3. Loaded'
  BY <1>1, Zenon DEF Loaded, Deconfiguring
<1>4. Sound'
  <2> SUFFICES ASSUME pc' \in Outlining, NEW S \in SUBSET Package,
                      Asked \subseteq S, Closed(S)'
               PROVE  Marked \subseteq S
    BY <1>1, Zenon DEF Sound
  <2>1. Closed(S)
    BY Zenon DEF Closed
  <2> QED BY <2>1, Zenon DEF Sound
<1>5. Complete'
  BY <1>1, <1>2, SMT DEF Complete
<1> QED BY <1>3, <1>4, <1>5

LEMMA LoadOutline == ASSUME TypeOK, Load PROVE Outline'
<1>1. /\ type' = [p \in Package |-> IF p \in targets THEN ExplicitType(p)
                                    ELSE OtherType(p)]
      /\ work' = {p \in targets : ExplicitType(p) = "removing"}
      /\ pc' = "depends" /\ cmd' = cmd /\ targets \subseteq Package
      /\ UNCHANGED <<db, status, targets>> /\ original' = status
  BY SMT DEF Load, TypeOK
<1>2. ASSUME NEW p \in Package
      PROVE  /\ OtherType(p) \in Present => OtherType(p) = status[p]
             /\ OtherType(p) \notin {"removing", "implicit"}
             /\ status[p] \in Present => OtherType(p) = status[p]
  <2>1. CASE status[p] \in Present
    BY <2>1, SMT DEF OtherType, Present
  <2>2. CASE status[p] = "config_files"
    BY <2>2, SMT DEF OtherType, Present
  <2>3. CASE status[p] \notin Present \cup {"config_files"}
    BY <2>3, SMT DEF OtherType, Present
  <2> QED BY <2>1, <2>2, <2>3
<1>3. ASSUME NEW p \in Package
      PROVE  /\ ExplicitType(p) \in {"removing", "same", "explicit"}
             /\ status[p] \in Present =>
                   ExplicitType(p) = "removing" \/ (Deconfiguring /\ ExplicitType(p) = "same")
  BY SMT DEF ExplicitType, Present
<1>4. \A p \in Package :
         type'[p] = IF p \in targets THEN ExplicitType(p) ELSE OtherType(p)
  BY <1>1, SMT
<1>5. Marked' = work' /\ Asked' = work'
  BY <1>1, <1>2, <1>3, <1>4, SMT DEF Marked, Asked
<1>6. Loaded'
  <2>1. \A q \in Package : type'[q] \in Present => type'[q] = status[q]
    BY <1>2, <1>3, <1>4, SMT DEF Present
  <2>2. ASSUME NEW q \in Package \ Marked', status[q] \in Present
        PROVE  type'[q] = status[q] \/ (Deconfiguring /\ type'[q] = "same")
    BY <1>2, <1>3, <1>4, <2>2, SMT DEF Marked
  <2>3. Deconfiguring' <=> Deconfiguring
    BY <1>1, Zenon DEF Deconfiguring
  <2>4. \A q \in targets : type'[q] \notin Present
    BY <1>1, <1>3, <1>4, SMT DEF Present
  <2> QED BY <1>1, <2>1, <2>2, <2>3, <2>4, Zenon DEF Loaded
<1>7. Sound' /\ Complete'
  BY <1>1, <1>5, SMT DEF Sound, Complete
<1> QED BY <1>6, <1>7 DEF Outline

LEMMA CheckOutline ==
    ASSUME TypeOK, Outline, NEW p \in work, CheckDependents(p)
    PROVE  Outline'
<1> DEFINE found == IF Flag("depends") THEN {} ELSE Dependents(p)
           stays == {q \in found : ~Flag("recursive") \/ Protected(q, TRUE)}
           goes  == found \ stays
<1> USE DEF Outline
<1>1. /\ type' = [q \in Package |-> IF q \in goes THEN "implicit" ELSE type[q]]
      /\ work' = (work \ {p}) \cup goes
      /\ errors' = (errors \/ stays # {})
      /\ cmd' = cmd /\ pc = "depends" /\ pc' = "depends"
      /\ UNCHANGED <<db, status, original, targets>>
  BY Zenon DEF CheckDependents
<1>2. /\ goes \subseteq Dependents(p) /\ Dependents(p) \subseteq Package
      /\ ~errors' /\ ~Flag("depends") => goes = Dependents(p) /\ ~errors
  BY <1>1, Zenon DEF Dependents
<1> HIDE DEF goes, stays
<1>3. \A q \in Package : type'[q] = IF q \in goes THEN "implicit" ELSE type[q]
  BY <1>1, SMT
<1>4. \A q \in goes : q \in Package /\ type[q] \in Present /\ q # p /\ p \in db.depends[q]
  BY <1>2, Zenon DEF Dependents
<1>5. /\ Marked' = Marked \cup goes
      /\ \A q \in Package : type'[q] = "same" <=> type[q] = "same"
  BY <1>3, <1>4, SMT DEF Marked, Present
<1>6. Asked' = Asked
  BY <1>1, <1>3, <1>4, SMT DEF Asked, Present, TypeOK
<1>7. \A q : Dependents(q)' \subseteq Dependents(q) \ goes
  BY <1>1, <1>2, <1>3, SMT DEF Dependents, Present
<1>8. Deconfiguring' <=> Deconfiguring
  BY <1>1, Zenon DEF Deconfiguring
<1>9. Loaded'
  <2>1. original = status /\ \A q \in Package : type[q] \in Present => type[q] = status[q]
    BY <1>1, SMT DEF Loaded, Outlining
  <2>2. \A q \in Package \ Marked : status[q] \in Present =>
           type[q] = status[q] \/ (Deconfiguring /\ type[q] = "same")
    BY <1>1, SMT DEF Loaded, Planned
  <2>3. \A q \in Package : type'[q] \in Present => type'[q] = status[q]
    BY <1>3, <2>1, SMT DEF Present
  <2>4. \A q \in Package \ Marked' : status[q] \in Present =>
           type'[q] = status[q] \/ (Deconfiguring /\ type'[q] = "same")
    BY <1>3, <1>5, <2>2, SMT
  <2>5. \A q \in targets : type'[q] \notin Present
    BY <1>1, <1>3, SMT DEF Loaded, Planned, Present, TypeOK
  <2> QED BY <1>1, <1>8, <2>1, <2>3, <2>4, <2>5, Zenon DEF Loaded
<1>10. Sound'
  <2> SUFFICES ASSUME NEW S \in SUBSET Package, Asked \subseteq S, Closed(S)'
               PROVE  Marked \cup goes \subseteq S
    BY <1>5, <1>6, Zenon DEF Sound
  <2>1. Closed(S)
    BY <1>1, <1>5, Zenon DEF Closed
  <2>2. Marked \subseteq S
    BY <1>1, <2>1, SMT DEF Sound, Outlining
  <2>3. p \in S
    BY <1>1, <2>2, SMT DEF Complete, Planned
  <2>4. ASSUME NEW q \in goes PROVE q \in S
    <3>1. original[q] \in Present /\ type[q] # "same"
      BY <1>1, <1>4, SMT DEF Loaded, Outlining, Present
    <3> QED BY <1>4, <2>1, <2>3, <3>1, Zenon DEF Closed
  <2> QED BY <2>2, <2>4
<1>11. Complete'
  <2>1. work \subseteq Marked
    BY <1>1, SMT DEF Complete, Planned
  <2>2. Flag("depends")' <=> Flag("depends")
    BY <1>1, Zenon DEF Flag, Autoremoving
  <2>3. ASSUME ~errors', ~Flag("depends"), NEW q \in Marked' \ work'
        PROVE  Dependents(q)' = {}
    <3>1. q \in Marked /\ q \notin goes
      BY <1>1, <1>5, Zenon
    <3>2. CASE q = p
      BY <1>2, <1>7, <2>3, <3>2, SMT
    <3>3. CASE q # p
      <4>1. Dependents(q) = {}
        BY <1>1, <1>2, <2>3, <3>1, <3>3, SMT DEF Complete, Planned
      <4> QED BY <1>7, <4>1, SMT
    <3> QED BY <3>2, <3>3
  <2>4. work' \subseteq Marked'
    BY <1>1, <1>5, <2>1, Zenon
  <2> QED BY <1>1, <2>2, <2>3, <2>4, Zenon DEF Complete
<1> QED BY <1>9, <1>10, <1>11

LEMMA NextOutline == ASSUME TypeOK, Vetted, Outline, [Next]_vars PROVE Outline'
<1>1. ASSUME NEW p \in work, CheckDependents(p) PROVE Outline'
  BY <1>1, CheckOutline
<1>2. CASE DependenciesChecked
  BY <1>2, SameOutline, SMT DEF DependenciesChecked, list, Planned, Outlining, Working, Taking
<1>3. CASE Validated
  <2>1. work = {}
    BY <1>3, SMT DEF Validated, Outline, Complete, Planned
  <2> QED
    BY <1>3, <2>1, SameOutline, SMT DEF Validated, Planned, Outlining, Working, Taking
<1>4. ASSUME \/ PrermFails \/ HookFails \/ ApplyDone \/ Invalid
             \/ BadFlags \/ RemoveThrows \/ DeconfigureThrows \/ Crash \/ AutoDone
      PROVE  Outline'
  <2>1. pc' \notin Planned
    BY <1>4, EndListUnplanned, SMT DEF PrermFails, HookFails, ApplyDone, Invalid, BadFlags,
       RemoveThrows, DeconfigureThrows, Crash, AutoDone, Throw, Finish, Planned, Working,
       Taking
  <2> QED BY <2>1, UnplannedOutline
<1>5. ASSUME TakeOne \/ PrermDone \/ RemoveFiles \/ FinishRemove \/ PurgeConffiles
               \/ FinishDeconfigure
      PROVE  Outline'
  <2>1. /\ UNCHANGED <<db, cmd, targets, type, errors, work>>
        /\ pc \in Working /\ pc' \in Working
    BY <1>5, SMT DEF TakeOne, StartRemove, StartDeconfigure, Take, PrermDone, RemoveFiles,
       FinishRemove, PurgeConffiles, FinishDeconfigure, Working, Taking, list
  <2>2. pc \in Planned /\ pc' \in Planned /\ pc' # "depends" /\ pc' \notin Outlining
    BY <2>1, SMT DEF Planned, Outlining, Working, Taking
  <2>3. work = {}
    BY <2>1, SMT DEF Outline, Complete, Planned, Working, Taking
  <2>4. ASSUME NEW q \in Package \ Marked, status'[q] # status[q] PROVE FALSE
    BY <2>4, <1>5, VettedTouched
  <2> QED BY <2>1, <2>2, <2>3, <2>4, SameOutline, Zenon
<1>6. ASSUME NEW c \in Command, Start(c) PROVE Outline'
  BY <1>6, UnplannedOutline, SMT DEF Start, Planned, Working, Taking
<1>7. ASSUME NEW p \in Package, AutoPick(p) PROVE Outline'
  BY <1>7, UnplannedOutline, SMT DEF AutoPick, Planned, Working, Taking
<1>8. CASE UNCHANGED vars
  <2>1. UNCHANGED <<db, status, cmd, targets, type, original, work, errors, pc>>
    BY <1>8 DEF vars, list
  <2>2. CASE pc \in Planned
    BY <2>1, <2>2, SameOutline, SMT DEF Outline, Complete, Planned
  <2>3. CASE pc \notin Planned
    BY <2>1, <2>3, UnplannedOutline
  <2> QED BY <2>2, <2>3
<1> QED
  BY <1>1, <1>2, <1>3, <1>4, <1>5, <1>6, <1>7, <1>8, LoadOutline
     DEF Next, Work, Validate, Apply, Autoremove

LEMMA OutlineAlways == Spec => [](TypeOK /\ Vetted /\ Outline)
<1>1. Init => TypeOK /\ Vetted /\ Outline
  <2> SUFFICES ASSUME Init PROVE TypeOK /\ Vetted /\ Outline
    OBVIOUS
  <2>1. TypeOK /\ Vetted
    BY InitType, NoneVetted, SMT DEF Init, Vetted, RemovingVetted, ImplicitVetted, Stages,
       NoError, Working, Taking
  <2>2. Outline
    BY SMT DEF Init, Outline, Loaded, Sound, Complete, Planned, Outlining, Working, Taking
  <2> QED BY <2>1, <2>2
<1>2. TypeOK /\ Vetted /\ Outline /\ [Next]_vars => (TypeOK /\ Vetted /\ Outline)'
  BY NextType, NextVetted, NextOutline
<1> QED BY <1>1, <1>2, PTL DEF Spec

(* Whatever the dependencies between the packages are, the packages that   *)
(* --recursive takes are exactly those that were asked for, those that     *)
(* depend on them, those that depend on these...: cycles included, and in  *)
(* whichever order validate_dependencies() looks at them.                  *)
THEOREM PlanIsTheClosure == Spec => []PlanIsClosure
<1>1. TypeOK /\ Vetted /\ Outline => PlanIsClosure
  <2> SUFFICES ASSUME TypeOK, Vetted, Outline, pc = "scripts", ~errors, ~Flag("depends")
               PROVE  /\ Asked \subseteq Marked /\ Closed(Marked)
                      /\ \A S \in SUBSET Package :
                            Asked \subseteq S /\ Closed(S) => Marked \subseteq S
    BY SMT DEF PlanIsClosure, Asked, Marked
  <2>1. Asked \subseteq Marked
    BY SMT DEF Asked, Marked, TypeOK
  <2>2. \A S \in SUBSET Package : Asked \subseteq S /\ Closed(S) => Marked \subseteq S
    BY SMT DEF Outline, Sound, Outlining
  <2>3. ASSUME NEW p \in Marked, NEW q \in Package, q # p, original[q] \in Present,
               p \in db.depends[q]
        PROVE  q \in Marked \/ type[q] = "same"
    <3>1. Dependents(p) = {}
      BY SMT DEF Outline, Complete, Planned
    <3>2. type[q] \notin Present
      BY <2>3, <3>1, Zenon DEF Dependents
    <3>3. status[q] = original[q]
      BY SMT DEF Outline, Loaded, Outlining
    <3> QED BY <2>3, <3>2, <3>3, SMT DEF Outline, Loaded, Planned
  <2> QED BY <2>1, <2>2, <2>3, Zenon DEF Closed
<1> QED BY <1>1, OutlineAlways, PTL

-----------------------------------------------------------------------------
(* --autoremove.                                                           *)

LEMMA AlonePlan ==
    ASSUME TypeOK, Vetted, AutoTrue, pc \in Planned, Autoremoving
    PROVE  Marked \subseteq targets /\ \A p, q \in targets : p = q
<1>1. \A p \in Package : type[p] # "implicit"
  BY Zenon DEF AutoTrue, Alone
<1>2. PICK p \in Package : targets = {p}
  BY Zenon DEF AutoTrue, Alone
<1>3. \A q \in Package : type[q] = "removing" => q \in targets
  BY Zenon DEF Vetted, RemovingVetted
<1> QED BY <1>1, <1>2, <1>3, SMT DEF Marked

(* A list ends.                                                            *)
LEMMA FinishAuto ==
    ASSUME Finish, ~excused' => \A p \in Package : status'[p] \in Rest
    PROVE  AutoTrue'
BY SMT DEF Finish, AutoTrue, Alone, Gone, AtRest, Believed, Planned, Working, Taking

LEMMA EndListAuto ==
    ASSUME TypeOK, EndList, UNCHANGED db,
           ~excused' => \A p \in Package : status'[p] \in Rest,
           ~excused' /\ ~errors' /\ Autoremoving =>
               \A p \in Package :
                   /\ known[p] \in Rest
                   /\ p \in targets => status'[p] \notin Present
                   /\ p \notin targets => (known[p] \in Present <=> status'[p] \in Present)
    PROVE  AutoTrue'
<1>1. CASE Finish
  BY <1>1, FinishAuto
<1>2. CASE Autoremoving /\ EndCandidate
  <2>1. /\ pc' = "auto" /\ cmd' = cmd
        /\ \A p \in Package : known'[p] = IF p \in targets /\ ~errors' THEN "not_installed"
                                          ELSE known[p]
    BY <1>2, SMT DEF EndCandidate
  <2>2. Alone' /\ Gone' /\ AtRest'
    BY <1>2, <2>1, SMT DEF Alone, Gone, AtRest, Autoremoving, Planned, Working, Taking
  <2>3. ASSUME ~excused', ~errors', NEW p \in Package
        PROVE  known'[p] \in Rest /\ (known'[p] \in Present <=> status'[p] \in Present)
    BY <1>2, <2>1, <2>3, SMT DEF Rest, Present
  <2> QED BY <2>2, <2>3, Zenon DEF AutoTrue, Believed
<1> QED BY <1>1, <1>2 DEF EndList

(* Before a list is applied, the statuses are what they were.              *)
LEMMA BeforeAuto ==
    ASSUME AutoTrue, UNCHANGED <<db, status, cmd, known, excused>>, pc # "idle",
           errors => errors', pc \notin Working, pc' \notin Working, Alone'
    PROVE  AutoTrue'
<1>1. Gone' /\ AtRest'
  BY SMT DEF AutoTrue, Gone, AtRest, Working, Taking
<1>2. Autoremoving' <=> Autoremoving
  BY DEF Autoremoving
<1>3. Believed'
  BY <1>2, Zenon DEF AutoTrue, Believed
<1> QED BY <1>1, <1>3 DEF AutoTrue

(* A step of a package that is being taken.                                *)
LEMMA StepAuto ==
    ASSUME TypeOK, Vetted, AutoTrue,
           UNCHANGED <<db, cmd, targets, type, errors, excused, known>>,
           pc \in Working, pc' \in Working, left' \subseteq left,
           NEW p \in Marked, left \ left' \subseteq {p}, p \notin left',
           pc \in Taking => cur = p,
           NEW s \in Status, status' = [status EXCEPT ![p] = s],
           ~Deconfiguring => s \notin Present,
           pc' \in Taking => cur' = p,
           pc' \notin Taking => s \in Rest,
           pc' \in {"deconfigure", "conffiles"} /\ ~Deconfiguring
               => original'[cur'] \notin Present
    PROVE  AutoTrue'
<1>1. Marked' = Marked /\ Marked \subseteq Package
  BY DEF Marked
<1>2. \A q \in Package : status'[q] = IF q = p THEN s ELSE status[q]
  BY <1>1, SMT DEF TypeOK
<1>3. (Autoremoving' <=> Autoremoving) /\ (Deconfiguring' <=> Deconfiguring)
  BY DEF Autoremoving, Deconfiguring
<1>4. Alone'
  <2>1. pc \in Planned /\ pc' \notin {"auto", "load"}
    BY SMT DEF Planned, Working, Taking
  <2> QED BY <1>3, <2>1, Zenon DEF AutoTrue, Alone
<1>5. Gone'
  BY <1>1, <1>2, <1>3, SMT DEF AutoTrue, Gone
<1>6. AtRest'
  BY <1>2, SMT DEF AutoTrue, AtRest
<1>7. Believed'
  <2> SUFFICES ASSUME Autoremoving, ~errors, ~excused, NEW q \in Package
               PROVE  /\ known[q] \in Rest
                      /\ q \notin targets => (known[q] \in Present <=> status'[q] \in Present)
    BY <1>3, Zenon DEF Believed
  <2>1. p \in targets
    BY AlonePlan, SMT DEF Planned
  <2>2. pc # "idle"
    BY SMT DEF Working, Taking
  <2> QED BY <1>2, <2>1, <2>2, SMT DEF AutoTrue, Believed
<1> QED BY <1>4, <1>5, <1>6, <1>7 DEF AutoTrue

LEMMA ValidateAuto == ASSUME TypeOK, Vetted, Outline, AutoTrue, Validate PROVE AutoTrue'
<1>1. CASE Load
  <2>1. /\ pc = "load" /\ pc' = "depends" /\ cmd' = cmd /\ targets' = targets
        /\ UNCHANGED <<db, status, known, excused>>
        /\ type' = [p \in Package |-> IF p \in targets THEN ExplicitType(p)
                                      ELSE OtherType(p)]
    BY <1>1, Zenon DEF Load
  <2>1e. errors => errors'
    BY <1>1, Zenon DEF Load
  <2>2. ASSUME NEW p \in Package PROVE ExplicitType(p) # "implicit" /\ OtherType(p) # "implicit"
    <3>1. CASE status[p] \in Present
      BY <3>1, SMT DEF OtherType, ExplicitType, Present
    <3>2. CASE status[p] = "config_files"
      BY <3>2, SMT DEF OtherType, ExplicitType, Present
    <3>3. CASE status[p] \notin Present \cup {"config_files"}
      BY <3>3, SMT DEF OtherType, ExplicitType, Present
    <3> QED BY <3>1, <3>2, <3>3
  <2>3. Alone'
    BY <2>1, <2>2, SMT DEF AutoTrue, Alone, Autoremoving, Planned
  <2>4. pc \notin Working /\ pc' \notin Working /\ pc # "idle"
    BY <2>1, SMT DEF Working, Taking
  <2> QED BY <2>1, <2>1e, <2>3, <2>4, BeforeAuto, Zenon
<1>2. ASSUME NEW p \in work, CheckDependents(p) PROVE AutoTrue'
  <2> DEFINE found == IF Flag("depends") THEN {} ELSE Dependents(p)
             stays == {q \in found : ~Flag("recursive") \/ Protected(q, TRUE)}
             goes  == found \ stays
  <2>1. /\ type' = [q \in Package |-> IF q \in goes THEN "implicit" ELSE type[q]]
        /\ pc = "depends" /\ pc' = "depends"
        /\ UNCHANGED <<db, status, known, excused, cmd, targets>>
    BY <1>2, Zenon DEF CheckDependents
  <2>1e. errors => errors'
    BY <1>2, Zenon DEF CheckDependents
  <2>2. Autoremoving => goes = {}
    BY Zenon DEF Flag
  <2> HIDE DEF goes
  <2>3. Autoremoving => \A q \in Package : type'[q] = type[q]
    BY <2>1, <2>2, SMT
  <2>4. (Autoremoving' <=> Autoremoving) /\ pc \in Planned /\ pc' \in Planned
    BY <2>1, SMT DEF Autoremoving, Planned
  <2>5. Alone'
    BY <2>1, <2>3, <2>4, Zenon DEF AutoTrue, Alone
  <2>6. pc \notin Working /\ pc' \notin Working /\ pc # "idle"
    BY <2>1, SMT DEF Working, Taking
  <2> QED BY <2>1, <2>1e, <2>5, <2>6, BeforeAuto, Zenon
<1>3. CASE DependenciesChecked
  <2>1. /\ pc = "depends" /\ pc' = "scripts" /\ UNCHANGED <<cmd, targets, type, errors>>
        /\ UNCHANGED <<db, status, known, excused>>
    BY <1>3 DEF DependenciesChecked, list
  <2>2. Alone'
    BY <2>1, SMT DEF AutoTrue, Alone, Autoremoving, Planned
  <2> QED BY <2>1, <2>2, BeforeAuto, SMT DEF Working, Taking
<1>4. CASE Validated
  <2>1. /\ pc = "scripts" /\ pc' = "apply" /\ left' = Marked
        /\ UNCHANGED <<db, status, cmd, targets, type, errors, known, excused>>
    BY <1>4 DEF Validated
  <2>2. (Autoremoving' <=> Autoremoving) /\ Marked' = Marked
    BY <2>1 DEF Autoremoving, Marked
  <2>3. Alone'
    BY <2>1, <2>2, SMT DEF AutoTrue, Alone, Planned, Working
  <2>4. Gone' /\ AtRest'
    BY <2>1, <2>2, SMT DEF AutoTrue, Gone, AtRest, Working, Taking
  <2>5. Believed'
    BY <2>1, <2>2, SMT DEF AutoTrue, Believed, Working, Taking
  <2> QED BY <2>3, <2>4, <2>5 DEF AutoTrue
<1>5. ASSUME BadFlags \/ Invalid PROVE AutoTrue'
  <2>1. /\ EndList \/ Finish
        /\ pc \notin Taking /\ errors'
        /\ UNCHANGED <<db, status, excused>>
    BY <1>5, SMT DEF BadFlags, Invalid, Throw, Taking
  <2>2. ~excused => \A p \in Package : status[p] \in Rest
    BY <1>5, SMT DEF AutoTrue, AtRest, BadFlags, Invalid, Taking
  <2> QED BY <2>1, <2>2, EndListAuto, FinishAuto, Zenon
<1> QED BY <1>1, <1>2, <1>3, <1>4, <1>5 DEF Validate

LEMMA ApplyAuto == ASSUME TypeOK, Vetted, Outline, AutoTrue, Apply PROVE AutoTrue'
<1>0. /\ pc \in Taking => cur \in Marked /\ cur \notin left /\ cur \in Package
      /\ left \subseteq Marked \/ pc \notin Working
      /\ Marked \subseteq Package
  <2>1. Marked \subseteq Package
    BY DEF Marked
  <2> QED BY <2>1, SMT DEF Vetted, Stages, AutoTrue, Gone, Working
<1>1. ASSUME NEW p \in left, NEW label \in Taking, Take(p, label),
             label \in {"deconfigure", "conffiles"} => Deconfiguring
      PROVE  AutoTrue'
  <2>1. /\ pc = "apply" /\ pc' = label /\ cur' = p /\ left' = left \ {p}
        /\ UNCHANGED <<db, cmd, targets, type, errors, excused, known>>
        /\ status' = [status EXCEPT ![p] = HalfStatus(p)]
    BY <1>1 DEF Take
  <2>2. pc \in Working /\ pc \notin Taking /\ pc' \in Working
    BY <2>1, SMT DEF Working, Taking
  <2>3. p \in Marked /\ HalfStatus(p) \in Status /\ HalfStatus(p) \notin Present
    BY <1>0, <2>2, HalfStatusType
  <2>4. left' \subseteq left /\ left \ left' \subseteq {p} /\ p \notin left'
    BY <2>1, SMT
  <2> QED BY <1>1, <2>1, <2>2, <2>3, <2>4, StepAuto, Zenon
<1>2. ASSUME NEW s \in Status, pc \in Taking, pc' \in Working,
             UNCHANGED <<db, cmd, targets, type, errors, excused, known, left, cur>>,
             status' = [status EXCEPT ![cur] = s], ~Deconfiguring => s \notin Present,
             pc' \notin Taking => s \in Rest,
             pc' \in {"deconfigure", "conffiles"} /\ ~Deconfiguring
                 => original'[cur] \notin Present
      PROVE  AutoTrue'
  <2>1. left' \subseteq left /\ left \ left' \subseteq {cur} /\ cur \notin left'
    BY <1>0, <1>2, SMT
  <2>2. cur' = cur /\ pc \in Working
    BY <1>2, SMT DEF Working
  <2> QED BY <1>0, <1>2, <2>1, <2>2, StepAuto, Zenon
<1>3. ASSUME TakeOne PROVE AutoTrue'
  <2>1. PICK p \in left : StartRemove(p) \/ StartDeconfigure(p)
    BY <1>3 DEF TakeOne
  <2> QED BY <1>1, <2>1, Labels, SMT DEF StartRemove, StartDeconfigure
<1>4. CASE PrermDone
  <2>1. /\ pc = "prerm" /\ pc' = "files"
        /\ UNCHANGED <<db, cmd, targets, type, errors, excused, known, left, cur>>
        /\ status' = [status EXCEPT ![cur] = "removing"]
    BY <1>4 DEF PrermDone, list
  <2>2. /\ pc \in Taking /\ pc' \in Taking /\ pc' \in Working
        /\ pc' \notin {"deconfigure", "conffiles"}
    BY <2>1, SMT DEF Working, Taking
  <2> QED BY <1>2, <2>1, <2>2, Labels, Zenon
<1>5. CASE RemoveFiles
  <2>1. /\ pc = "files" /\ pc' = "postrm"
        /\ UNCHANGED <<db, cmd, targets, type, errors, excused, known, left, cur>>
        /\ status' = [status EXCEPT ![cur] = "half_installed"]
    BY <1>5 DEF RemoveFiles, list
  <2>2. /\ pc \in Taking /\ pc' \in Taking /\ pc' \in Working
        /\ pc' \notin {"deconfigure", "conffiles"}
    BY <2>1, SMT DEF Working, Taking
  <2> QED BY <1>2, <2>1, <2>2, Labels, Zenon
<1>6. CASE FinishRemove
  <2>1. /\ pc = "postrm" /\ pc' \in {"deconfigure", "apply"}
        /\ UNCHANGED <<db, cmd, targets, type, errors, excused, known, left, cur>>
    BY <1>6 DEF FinishRemove
  <2>2. PICK s \in {"not_installed", "config_files"} :
           /\ status' = [status EXCEPT ![cur] = s]
           /\ original' = [original EXCEPT ![cur] = s]
    BY <1>6, Zenon DEF FinishRemove
  <2>3. original'[cur] = s
    BY <1>0, <2>1, <2>2, Labels, SMT DEF TypeOK
  <2>4. s \in Status \ Present /\ s \in Rest
    BY <2>2, Labels, SMT DEF Rest
  <2> QED BY <1>2, <2>1, <2>2, <2>3, <2>4, Labels, Zenon
<1>7. CASE PurgeConffiles
  <2>1. /\ pc = "deconfigure" /\ pc' = "conffiles"
        /\ UNCHANGED <<db, cmd, targets, type, errors, excused, known, left, cur, original>>
        /\ status' = [status EXCEPT ![cur] = HalfStatus(cur)]
    BY <1>7 DEF PurgeConffiles, list
  <2>2. HalfStatus(cur) \in Status \ Present
    BY <1>0, <2>1, HalfStatusType, Labels
  <2>3. ~Deconfiguring => original'[cur] \notin Present
    BY <2>1, Zenon DEF AutoTrue, Gone
  <2> QED BY <1>2, <2>1, <2>2, <2>3, Labels, Zenon
<1>8. CASE FinishDeconfigure
  <2>1. /\ pc = "conffiles" /\ pc' = "apply"
        /\ UNCHANGED <<db, cmd, targets, type, errors, excused, known, left, cur>>
    BY <1>8 DEF FinishDeconfigure, list
  <2>2. PICK s \in {"unpacked", "not_installed"} :
           /\ status' = [status EXCEPT ![cur] = s]
           /\ s = "unpacked" => original[cur] = "installed"
    BY <1>8, Zenon DEF FinishDeconfigure
  <2>3. ~Deconfiguring => original[cur] \notin Present
    BY <2>1, Zenon DEF AutoTrue, Gone
  <2>4. /\ s \in Status /\ s \in Rest /\ "installed" \in Present
        /\ "not_installed" \notin Present
    BY <2>2, SMT DEF Status, Rest, Present
  <2>5. ~Deconfiguring => s \notin Present
    BY <2>2, <2>3, <2>4, Zenon
  <2>6. /\ pc \in Taking /\ pc' \in Working
        /\ pc' \notin {"deconfigure", "conffiles"}
    BY <2>1, SMT DEF Working, Taking
  <2> QED BY <1>2, <2>1, <2>2, <2>4, <2>5, <2>6, Zenon
<1>9. ASSUME PrermFails \/ HookFails PROVE AutoTrue'
  <2>1. EndList /\ excused' /\ db' = db
    BY <1>9 DEF PrermFails, HookFails
  <2> QED BY <2>1, EndListAuto, Zenon
<1>10. ASSUME RemoveThrows \/ DeconfigureThrows PROVE AutoTrue'
  BY <1>10, FinishAuto, Zenon DEF RemoveThrows, DeconfigureThrows, Throw
<1>11. CASE ApplyDone
  <2>1. /\ EndList /\ UNCHANGED <<db, status, excused, errors>>
        /\ pc = "apply" /\ left = {}
    BY <1>11 DEF ApplyDone
  <2>2. pc \in Working /\ pc \notin Taking /\ pc \in Planned /\ pc # "idle"
    BY <2>1, SMT DEF Working, Taking, Planned
  <2>3. ~excused => \A p \in Package : status[p] \in Rest
    BY <2>2, Zenon DEF AutoTrue, AtRest
  <2>4. ASSUME Autoremoving, NEW p \in Package, p \in targets, status[p] \in Present
        PROVE  FALSE
    <3>1. ~Deconfiguring
      BY <2>4, SMT DEF Autoremoving, Deconfiguring
    <3>2. CASE p \in Marked
      BY <2>1, <2>2, <2>4, <3>1, <3>2, Zenon DEF AutoTrue, Gone
    <3>3. CASE p \notin Marked
      BY <2>2, <2>4, <3>1, <3>3, Zenon DEF Outline, Loaded
    <3> QED BY <3>2, <3>3
  <2> QED BY <2>1, <2>2, <2>3, <2>4, EndListAuto, Zenon DEF AutoTrue, Believed
<1> QED
  BY <1>3, <1>4, <1>5, <1>6, <1>7, <1>8, <1>9, <1>10, <1>11 DEF Apply

LEMMA NextAuto == ASSUME TypeOK, Vetted, Outline, AutoTrue, [Next]_vars PROVE AutoTrue'
<1>1. ASSUME NEW c \in Command, Start(c) PROVE AutoTrue'
  <2>1. /\ pc = "idle" /\ pc' \in {"auto", "load"} /\ cmd' = c /\ known' = status
        /\ pc' = "load" <=> c.name # "autoremove"
        /\ UNCHANGED <<db, status>> /\ (excused => excused')
    BY <1>1, Zenon DEF Start
  <2>2. pc \notin Taking /\ pc' \notin Working /\ pc' \notin Planned
    BY <2>1, SMT DEF Planned, Working, Taking
  <2>3. Alone' /\ Gone'
    BY <2>1, <2>2, SMT DEF Alone, Gone, Autoremoving, Working, Taking
  <2>4. AtRest' /\ Believed'
    BY <2>1, <2>2, Zenon DEF AutoTrue, AtRest, Believed
  <2> QED BY <2>3, <2>4 DEF AutoTrue
<1>2. ASSUME NEW p \in Package, AutoPick(p) PROVE AutoTrue'
  <2>1. /\ pc = "auto" /\ pc' = "load" /\ targets' = {p}
        /\ UNCHANGED <<db, status, cmd, known, excused, errors>>
    BY <1>2 DEF AutoPick
  <2>2. Alone'
    BY <2>1, SMT DEF AutoTrue, Alone, Planned, Working, Taking
  <2>3. pc \notin Working /\ pc' \notin Working /\ pc # "idle"
    BY <2>1, SMT DEF Working, Taking
  <2> QED BY <2>1, <2>2, <2>3, BeforeAuto, Zenon
<1>3. CASE AutoDone
  <2>1. Finish /\ pc \notin Taking /\ UNCHANGED <<status, excused>>
    BY <1>3, SMT DEF AutoDone, Taking
  <2> QED BY <2>1, FinishAuto, Zenon DEF AutoTrue, AtRest
<1>4. CASE Crash
  BY <1>4, FinishAuto, Zenon DEF Crash, Throw
<1>5. CASE UNCHANGED vars
  <2>1. UNCHANGED <<db, status, cmd, targets, type, original, left, cur, errors, excused,
                    known, pc>>
    BY <1>5 DEF vars, list
  <2>2. Alone' /\ Gone'
    BY <2>1, Zenon DEF AutoTrue, Alone, Gone, Autoremoving, Deconfiguring, Marked
  <2>3. AtRest' /\ Believed'
    BY <2>1, Zenon DEF AutoTrue, AtRest, Believed, Autoremoving
  <2> QED BY <2>2, <2>3 DEF AutoTrue
<1> QED
  BY <1>1, <1>2, <1>3, <1>4, <1>5, ValidateAuto, ApplyAuto DEF Next, Work, Autoremove

LEMMA AutoAlways == Spec => [](TypeOK /\ Vetted /\ Outline /\ AutoTrue)
<1>1. Init => AutoTrue
  <2> SUFFICES ASSUME Init PROVE AutoTrue
    OBVIOUS
  <2>1. \A p \in Package : status[p] \in Rest
    <3>1. db \in Database /\ status = db.status
      BY WorldAssumption DEF Init
    <3> QED BY <3>1, SMT DEF Database
  <2> QED
    BY <2>1, SMT DEF Init, AutoTrue, Alone, Gone, AtRest, Believed, Planned, Working, Taking
<1>2. TypeOK /\ Vetted /\ Outline /\ AutoTrue /\ [Next]_vars => AutoTrue'
  BY NextAuto
<1> QED BY <1>1, <1>2, OutlineAlways, PTL DEF Spec

(* --autoremove only takes the files of packages that no package on the    *)
(* target needs at that moment, and unless something failed it goes on     *)
(* until none is left that was installed for others only, whatever the     *)
(* dependencies are (wpkgar_remove::autoremove).                           *)
THEOREM AutoremoveIsExact == Spec => AutoremoveExact
<1>1. TypeOK /\ Vetted /\ Outline /\ AutoTrue /\ [Next]_vars =>
        [pc = "files" /\ Autoremoving =>
           \A q \in Package \ {cur} : status[q] \in Present => cur \notin db.depends[q]]_vars
  <2> SUFFICES ASSUME TypeOK, Vetted, Outline, AutoTrue, pc = "files", Autoremoving,
                      NEW q \in Package \ {cur}, status[q] \in Present
               PROVE  cur \notin db.depends[q]
    OBVIOUS
  <2>1. pc \in Planned /\ pc \in Taking /\ pc \in Working /\ pc \in Planned \ {"depends"}
    BY SMT DEF Planned, Working, Taking
  <2>2. cur \in Marked /\ ~errors /\ ~Flag("depends") /\ ~Deconfiguring
    BY <2>1, SMT DEF Vetted, Stages, NoError, Flag, Deconfiguring, Autoremoving
  <2>3. Dependents(cur) = {}
    BY <2>1, <2>2, SMT DEF Outline, Complete
  <2>4. q \notin Marked
    BY <2>1, <2>2, AlonePlan, SMT
  <2>5. type[q] \in Present
    BY <2>1, <2>2, <2>4, Zenon DEF Outline, Loaded
  <2> QED BY <2>3, <2>5, Zenon DEF Dependents
<1>2. TypeOK /\ Vetted /\ Outline /\ AutoTrue /\ [Next]_vars =>
        [pc = "auto" /\ pc' = "idle" /\ ~errors' /\ ~excused' =>
           \A p \in db.auto : status[p] \in Present =>
             \/ p \in db.self \cup db.essential \cup db.required
             \/ \E q \in Package : status[q] \in Present /\ p \in db.depends[q]]_vars
  <2> SUFFICES ASSUME TypeOK, Vetted, Outline, AutoTrue, Next, pc = "auto", pc' = "idle",
                      ~errors', ~excused', NEW p \in db.auto, status[p] \in Present,
                      p \notin db.self \cup db.essential \cup db.required
               PROVE  \E q \in Package : status[q] \in Present /\ p \in db.depends[q]
    BY Zenon
  <2>1. AutoDone
    BY SMT DEF Next, Start, Work, Validate, Load, BadFlags, CheckDependents,
       DependenciesChecked, Validated, Invalid, Apply, TakeOne, StartRemove,
       StartDeconfigure, Take, PrermDone, PrermFails, HookFails, RemoveFiles, RemoveThrows,
       FinishRemove, PurgeConffiles, FinishDeconfigure, DeconfigureThrows, ApplyDone,
       Autoremove, AutoPick, Crash, Throw
  <2>2. ~errors /\ ~excused /\ p \in Package /\ ~AutoCandidate(p, known)
    BY <2>1, Zenon DEF AutoDone, TypeOK, Database
  <2>3. /\ known[p] \in Present
        /\ \A q \in Package : known[q] \in Present \cup Half <=> status[q] \in Present
    <3>1. \A q \in Package : /\ known[q] \in Rest
                             /\ known[q] \in Present <=> status[q] \in Present
      <4>1. pc \notin Working /\ pc # "idle"
        BY SMT DEF Working, Taking
      <4> QED BY <2>2, <4>1, Zenon DEF AutoTrue, Alone, Believed
    <3> QED BY <2>2, <3>1, SMT DEF Rest, Present, Half
  <2>4. ~Unneeded(p, known)
    BY <2>2, <2>3, Zenon DEF AutoCandidate
  <2> QED BY <2>3, <2>4, Zenon DEF Unneeded
<1> QED
  BY <1>1, <1>2, AutoAlways, PTL DEF Spec, AutoremoveExact, AutoremoveSafe, AutoremoveComplete
==============================================================================

---------------------------- MODULE Backup_proofs ----------------------------
(***************************************************************************)
(* For any packages whose links lead to files of other packages and never  *)
(* change, any number of paths and any faults: no content is lost, no      *)
(* other file is touched, and the code implements Transaction.             *)
(***************************************************************************)
EXTENDS Backup, FiniteSetTheorems, WellFoundedInduction, TLAPS

(* The links an archive has all lead to files of other packages, and a     *)
(* path is the same link in every version that has it.                     *)
SoundLinks ==
    \A package \in Package : \A ar, other \in package : \A p \in DOMAIN ar :
        ar[p].kind = "link" =>
            ar[p].to \in Foreign /\ (p \in DOMAIN other => other[p] = ar[p])

Own == DOMAIN new \cup DOMAIN old

Loop == {"extract", "write", "drop", "remove", "finish"}

(* What a target may look like: at the path of a link there may be a copy  *)
(* of what it leads to, which restore() made.                              *)
Plausible(state) ==
    /\ \A p \in Directory : state[p] = Folder
    /\ \A p \in Foreign : state[p].kind = "file"
    /\ \A p \in Path \ Directory : state[p].kind \in {"nothing", "file", "link"}
    /\ \A p \in Path : state[p].kind = "link" =>
            \E ar \in archives : p \in DOMAIN ar /\ ar[p] = state[p]
    /\ \A ar \in archives : \A p \in DOMAIN ar :
            ar[p].kind = "link" /\ state[p].kind = "file" => state[p] = state[ar[p].to]

ForeignKept == \A p \in Foreign : node[p] = before[p]

TargetInv == Plausible(node) /\ Plausible(before) /\ ForeignKept

(* What each loop still has to visit, and of what.                         *)
Scope ==
    /\ entries \subseteq Own
    /\ pc = "idle" => entries = {}
    /\ pc \in {"extract", "write"} => todo \subseteq DOMAIN new
    /\ pc \in {"drop", "remove"} => todo \subseteq DOMAIN old
    /\ pc = "restore" => todo \subseteq entries
    /\ pc = "write" => at \in todo /\ at \in entries
    /\ pc \in Loop \cup {"restore"} => ~f_success /\ installed = old
    /\ pc \in {"extract", "write", "drop"} => op = "unpack"
    /\ pc = "remove" => op = "remove"
    /\ op = "remove" => new = Empty

(* A copy is of what was read at its path before, and no two paths share   *)
(* one.                                                                    *)
CopiesTrue ==
    \A p \in entries :
        /\ f_files[p] <= f_count
        /\ IF f_files[p] = 0 THEN Seen(before)[p] = Nothing
           ELSE Seen(before)[p] = File(bak[f_files[p]])
        /\ \A q \in entries : f_files[p] = f_files[q] /\ f_files[p] # 0 => p = q

(* What no loop has saved it has not changed either.                       *)
Unsaved == pc \in Loop \cup {"restore"} => \A p \in Path \ entries : node[p] = before[p]

BackupInv == TypeOK /\ TargetInv /\ Scope /\ CopiesTrue /\ Unsaved /\ OnlyOwnFiles

(* What has come back, as long as restores work.                           *)
Back ==
    /\ pc = "restore" => \A p \in entries \ todo : Seen(node)[p] = Seen(before)[p]
    /\ pc = "discard" /\ ~f_success => Seen(node) = Seen(before)

(* How far the new state has been reached.                                 *)
Extracted(paths) == \A p \in paths : node[p] = new[p] /\ p \in entries
Obsolete == DOMAIN old \ DOMAIN new
Progress ==
    /\ pc \in {"extract", "write"} => Extracted(DOMAIN new \ todo)
    /\ pc = "drop" => Extracted(DOMAIN new)
    /\ pc = "remove" => \A p \in DOMAIN old \ todo : node[p] = Nothing
    /\ pc = "finish" \/ (pc = "discard" /\ f_success) =>
        /\ \A p \in DOMAIN new : node[p] = new[p]
        /\ op = "remove" => \A p \in DOMAIN old : node[p] = Nothing
    /\ pc \in {"drop", "finish"} \/ (pc = "discard" /\ f_success) =>
        (op = "unpack" => \A p \in Obsolete : node[p] \in {Nothing, before[p]})
    /\ pc \in {"extract", "write"} => \A p \in Obsolete : node[p] = before[p]

-----------------------------------------------------------------------------
(* Entries of a directory, and what is read through them.                  *)

LEMMA Kinds ==
    /\ Nothing.kind = "nothing" /\ Folder.kind = "directory"
    /\ \A c : File(c).kind = "file" /\ File(c).content = c
    /\ \A q : Link(q).kind = "link" /\ Link(q).to = q
BY SMT DEF Nothing, Folder, File, Link

LEMMA Shape ==
    ASSUME NEW e \in Node
    PROVE  /\ e.kind \in {"nothing", "directory", "file", "link"}
           /\ e.kind = "nothing" => e = Nothing
           /\ e.kind = "directory" => e = Folder
           /\ e.kind = "file" => e.content \in Content /\ e = File(e.content)
           /\ e.kind = "link" => e.to \in Path /\ e = Link(e.to)
<1>1. CASE e \in {File(c) : c \in Content}
  <2>1. PICK c \in Content : e = File(c)
    BY <1>1
  <2> QED BY <2>1, Kinds
<1>2. CASE e \in {Link(q) : q \in Path}
  <2>1. PICK q \in Path : e = Link(q)
    BY <1>2
  <2> QED BY <2>1, Kinds
<1>3. CASE e \in {Nothing, Folder}
  BY <1>3, Kinds
<1> QED BY <1>1, <1>2, <1>3 DEF Node, Entry

LEMMA NodeHas ==
    /\ Nothing \in Node
    /\ \A c \in Content : File(c) \in Node
    /\ \A q \in Path : Link(q) \in Node
BY Zenon DEF Node, Entry

(* A path of the package is neither a directory nor a file of another.     *)
LEMMA OwnPaths ==
    ASSUME archives \in Package, NEW ar \in archives \cup {Empty}, NEW p \in DOMAIN ar
    PROVE  ar \in archives /\ p \in Path /\ p \notin Directory /\ p \notin Foreign
           /\ ar[p] \in Node /\ ar[p].kind \in {"file", "link"}
<1>1. DOMAIN Empty = {}
  BY DEF Empty
<1>2. ar \in archives
  BY <1>1
<1>3. DOMAIN ar \subseteq Path \ (Directory \cup Foreign) /\ ar[p] \in Entry
  BY <1>2, ArchiveAssumption
<1>4. ar[p].kind \in {"file", "link"}
  BY <1>3, Kinds DEF Entry
<1> QED BY <1>2, <1>3, <1>4 DEF Node

LEMMA SameLink ==
    ASSUME SoundLinks, archives \in Package, NEW ar \in archives, NEW other \in archives,
           NEW p \in DOMAIN ar, ar[p].kind = "link"
    PROVE  ar[p].to \in Foreign /\ (p \in DOMAIN other => other[p] = ar[p])
BY DEF SoundLinks

LEMMA Look ==
    ASSUME SoundLinks, archives \in Package, NEW state \in [Path -> Node],
           Plausible(state), NEW p \in Path
    PROVE  /\ state[p] \in Node
           /\ state[p].kind # "link" => Seen(state)[p] = state[p]
           /\ state[p].kind = "link" =>
                /\ state[p].to \in Foreign /\ state[p].to \in Path
                /\ Seen(state)[p] = state[state[p].to]
                /\ Seen(state)[p].kind = "file"
           /\ Seen(state)[p] \in Node
           /\ Seen(state)[p].kind \in {"nothing", "file", "directory"}
           /\ Seen(state)[p].kind = "directory" => p \in Directory
<1>1. /\ state[p].kind # "link" => Seen(state)[p] = state[p]
      /\ state[p].kind = "link" => Seen(state)[p] = state[state[p].to]
  BY DEF Seen
<1>2. ASSUME state[p].kind = "link"
      PROVE  state[p].to \in Foreign /\ state[p].to \in Path
             /\ state[state[p].to].kind = "file" /\ state[state[p].to] \in Node
  <2>1. PICK ar \in archives : p \in DOMAIN ar /\ ar[p] = state[p]
    BY <1>2 DEF Plausible
  <2>2. ar[p].to \in Foreign
    BY <1>2, <2>1, SameLink
  <2> QED BY <2>1, <2>2, PathAssumption DEF Plausible
<1>3. state[p] \in Node
  OBVIOUS
<1>4. p \notin Directory => state[p].kind \in {"nothing", "file", "link"}
  BY DEF Plausible
<1>5. p \in Directory => state[p].kind = "directory"
  BY Kinds DEF Plausible
<1> QED BY <1>1, <1>2, <1>3, <1>4, <1>5

LEMMA Found ==
    ASSUME NEW p \in Path
    PROVE  node[Follow(p)] = Seen(node)[p] /\ (node[p].kind # "link" => Follow(p) = p)
BY DEF Follow, Seen

-----------------------------------------------------------------------------
(* One path changes.                                                       *)

LEMMA QuietTarget ==
    ASSUME TargetInv, UNCHANGED <<archives, node, before>>
    PROVE  TargetInv' /\ Seen(node)' = Seen(node) /\ Seen(before)' = Seen(before)
BY DEF TargetInv, Plausible, ForeignKept, Seen

LEMMA OwnPath ==
    ASSUME TypeOK, NEW p \in Own
    PROVE  p \in Path /\ p \notin Directory /\ p \notin Foreign
BY OwnPaths DEF TypeOK, Own

LEMMA ChangeOne ==
    ASSUME SoundLinks, TypeOK, TargetInv, UNCHANGED <<archives, before>>,
           NEW p \in Own, NEW v \in Node, node' = [node EXCEPT ![p] = v],
           v.kind \in {"nothing", "file", "link"},
           v.kind = "link" => \E ar \in archives : p \in DOMAIN ar /\ ar[p] = v,
           v.kind = "file" => \A ar \in archives : p \in DOMAIN ar /\ ar[p].kind = "link"
                                => v = node[ar[p].to]
    PROVE  /\ TargetInv'
           /\ node' \in [Path -> Node] /\ node'[p] = v
           /\ \A r \in Path \ {p} : node'[r] = node[r] /\ Seen(node)'[r] = Seen(node)[r]
           /\ Seen(before)' = Seen(before)
<1>1. p \in Path /\ p \notin Directory /\ p \notin Foreign
  BY OwnPath
<1>2. node' \in [Path -> Node] /\ node'[p] = v /\ \A r \in Path \ {p} : node'[r] = node[r]
  BY <1>1 DEF TypeOK
<1>3. \A r \in Foreign : r \in Path /\ node'[r] = node[r]
  BY <1>1, <1>2, PathAssumption
<1>4. \A ar \in archives : \A r \in DOMAIN ar : r \in Path
        /\ (ar[r].kind = "link" => ar[r].to \in Foreign)
  BY OwnPaths, SameLink DEF TypeOK
<1>5. Plausible(node)'
  <2>1. /\ \A r \in Directory : node'[r] = Folder
        /\ \A r \in Foreign : node'[r].kind = "file"
    BY <1>1, <1>2, <1>3, PathAssumption DEF TargetInv, Plausible
  <2>2. \A r \in Path \ Directory : node'[r].kind \in {"nothing", "file", "link"}
    BY <1>2 DEF TargetInv, Plausible
  <2>3. \A r \in Path : node'[r].kind = "link" =>
            \E ar \in archives' : r \in DOMAIN ar /\ ar[r] = node'[r]
    BY <1>2 DEF TargetInv, Plausible
  <2>4. ASSUME NEW ar \in archives', NEW r \in DOMAIN ar,
               ar[r].kind = "link", node'[r].kind = "file"
        PROVE  node'[r] = node'[ar[r].to]
    <3>1. ar \in archives /\ node'[ar[r].to] = node[ar[r].to]
      BY <1>3, <1>4, <2>4
    <3>2. CASE r = p
      BY <1>2, <2>4, <3>1, <3>2
    <3>3. CASE r # p
      <4>1. node'[r] = node[r]
        BY <1>2, <1>4, <3>1, <3>3
      <4> QED BY <2>4, <3>1, <4>1 DEF TargetInv, Plausible
    <3> QED BY <3>2, <3>3
  <2> QED BY <2>1, <2>2, <2>3, <2>4 DEF Plausible
<1>6. Plausible(before)' /\ ForeignKept' /\ Seen(before)' = Seen(before)
  BY <1>3 DEF TargetInv, Plausible, ForeignKept, Seen
<1>7. ASSUME NEW r \in Path \ {p} PROVE Seen(node)'[r] = Seen(node)[r]
  <2>1. node'[r] = node[r]
    BY <1>2
  <2>2. node[r].kind = "link" => node[r].to \in Foreign
    BY Look DEF TargetInv, TypeOK
  <2> QED BY <1>3, <2>1, <2>2 DEF Seen
<1> QED BY <1>2, <1>5, <1>6, <1>7 DEF TargetInv

(* Where nothing was changed yet, the same is read as before.              *)
LEMMA SeenBefore ==
    ASSUME SoundLinks, TypeOK, TargetInv, NEW p \in Path, node[p] = before[p]
    PROVE  Seen(node)[p] = Seen(before)[p]
<1>1. node[p].kind = "link" => node[p].to \in Foreign
  BY Look DEF TargetInv, TypeOK
<1> QED BY <1>1, Look DEF TargetInv, ForeignKept, TypeOK

(* backup() keeps the copies true.                                         *)
LEMMA SaveKeeps ==
    ASSUME SoundLinks, TypeOK, TargetInv, CopiesTrue, UNCHANGED before,
           NEW p \in Path, p \notin entries => node[p] = before[p], Save(p)
    PROVE  /\ CopiesTrue' /\ entries' = entries \cup {p} /\ f_success' = f_success
           /\ entries' \subseteq Path /\ f_files' \in [Path -> Copies \cup {0}]
           /\ f_count' \in Copies \cup {0} /\ bak' \in [Copies -> Content \cup {0}]
<1> USE DEF TypeOK
<1>0. Seen(before)' = Seen(before)
  BY DEF Seen
<1>1. CASE p \in entries
  <2>1. UNCHANGED backup
    BY <1>1 DEF Save
  <2> QED BY <1>0, <1>1, <2>1 DEF backup, CopiesTrue
<1>2. CASE p \notin entries
  <2>1. Seen(node)[p] = Seen(before)[p] /\ Seen(node)[p] = node[Follow(p)]
    BY <1>2, SeenBefore, Found
  <2>2. CASE SaveMissing(p)
    <3>1. Seen(before)[p] = Nothing
      BY <2>1, <2>2 DEF SaveMissing, Exists
    <3>2. /\ entries' = entries \cup {p} /\ f_files' = [f_files EXCEPT ![p] = 0]
          /\ UNCHANGED <<f_count, f_success, bak>>
      BY <2>2 DEF SaveMissing
    <3>3. f_files'[p] = 0 /\ \A q \in entries : f_files'[q] = f_files[q]
      BY <1>2, <3>2
    <3>4. f_count \in Nat
      BY SMT DEF Copies
    <3>5. CopiesTrue'
      BY <1>0, <3>1, <3>2, <3>3, <3>4, SMT DEF CopiesTrue
    <3> QED BY <3>2, <3>5
  <2>3. CASE CopyTo(p, f_count + 1)
    <3> DEFINE k == f_count + 1
    <3>1. /\ k \in Copies /\ entries' = entries \cup {p} /\ f_count' = k
          /\ f_files' = [f_files EXCEPT ![p] = k]
          /\ bak' = [bak EXCEPT ![k] = node[Follow(p)].content]
          /\ UNCHANGED f_success /\ node[Follow(p)] # Nothing /\ node[Follow(p)] # Folder
      BY <2>3 DEF CopyTo, Exists, IsDir
    <3>2. Seen(node)[p].kind = "file" /\ Seen(node)[p] \in Node
      BY <2>1, <3>1, Look, Shape DEF TargetInv
    <3>3. node[Follow(p)].content \in Content /\ Seen(before)[p] = File(node[Follow(p)].content)
      BY <2>1, <3>2, Shape
    <3>4. f_count \in Nat /\ k \in Nat /\ k # 0
      BY <3>1, SMT DEF Copies
    <3> HIDE DEF k
    <3>5. /\ f_files'[p] = k /\ bak'[k] = node[Follow(p)].content
          /\ \A q \in entries : f_files'[q] = f_files[q]
          /\ \A j \in Copies \ {k} : bak'[j] = bak[j]
      BY <1>2, <3>1
    <3>6. \A q \in entries : f_files[q] <= f_count /\ f_files[q] \in Copies \cup {0}
      BY DEF CopiesTrue
    <3>7. \A q \in entries : f_files[q] # k /\ f_files[q] <= k
      BY <3>4, <3>6, SMT DEF k, Copies
    <3>8. ASSUME NEW q \in entries', NEW r \in entries'
          PROVE  /\ f_files'[q] <= f_count'
                 /\ IF f_files'[q] = 0 THEN Seen(before)'[q] = Nothing
                    ELSE Seen(before)'[q] = File(bak'[f_files'[q]])
                 /\ f_files'[q] = f_files'[r] /\ f_files'[q] # 0 => q = r
      <4>1. CASE q = p
        <5>1. r # p => f_files'[r] # k
          BY <3>1, <3>5, <3>7, <3>8
        <5>2. k <= k
          BY <3>4, SMT
        <5> QED BY <1>0, <3>1, <3>3, <3>4, <3>5, <4>1, <5>1, <5>2
      <4>2. CASE q # p
        <5>1. q \in entries /\ f_files'[q] = f_files[q] /\ f_files[q] # k
          BY <3>1, <3>5, <3>7, <4>2
        <5>2. r = p => f_files'[r] # f_files'[q]
          BY <3>5, <5>1
        <5>3. r # p => r \in entries /\ f_files'[r] = f_files[r]
          BY <3>1, <3>5
        <5>4. f_files[q] # 0 => bak'[f_files[q]] = bak[f_files[q]]
          BY <3>5, <3>6, <5>1
        <5> QED BY <1>0, <3>1, <3>7, <5>1, <5>2, <5>3, <5>4 DEF CopiesTrue
      <4> QED BY <4>1, <4>2
    <3>9. CopiesTrue'
      BY <3>8 DEF CopiesTrue
    <3>10. f_files' \in [Path -> Copies \cup {0}] /\ bak' \in [Copies -> Content \cup {0}]
      BY <3>1, <3>3
    <3> QED BY <3>1, <3>9, <3>10
  <2> QED BY <1>2, <2>2, <2>3 DEF Save
<1> QED BY <1>1, <1>2

-----------------------------------------------------------------------------
(* Every step keeps BackupInv.                                             *)

LEMMA InvInit == ASSUME Init PROVE BackupInv
<1>1. archives \in Package /\ \E c \in Content :
        node = [p \in Path |-> IF p \in Directory THEN Folder
                               ELSE IF p \in Foreign THEN File(c) ELSE Nothing]
  BY DEF Init
<1>2. PICK c \in Content :
        node = [p \in Path |-> IF p \in Directory THEN Folder
                               ELSE IF p \in Foreign THEN File(c) ELSE Nothing]
  BY <1>1
<1>3. Folder \in Node /\ Nothing \in Node /\ File(c) \in Node
  BY NodeHas DEF Node
<1>4. node \in [Path -> Node] /\ before \in [Path -> Node]
  BY <1>2, <1>3 DEF Init
<1>5. Cardinality(Path) \in Nat /\ DOMAIN Empty = {}
  BY PathAssumption, FS_CardinalityType DEF Empty
<1>6. TypeOK
  <2>1. /\ installed = Empty /\ old = Empty /\ new = Empty
        /\ pc = "idle" /\ op = "unpack" /\ todo = {} /\ at = 0
        /\ entries = {} /\ f_count = 0 /\ f_success = FALSE
    BY DEF Init
  <2>2. f_files \in [Path -> Copies \cup {0}] /\ bak \in [Copies -> Content \cup {0}]
    BY Zenon DEF Init
  <2> QED BY <1>1, <1>4, <2>1, <2>2 DEF TypeOK
<1>7. \A p \in Path : node[p].kind # "link" /\ (node[p].kind = "file" => p \in Foreign)
  BY <1>2, Kinds
<1>8. \A p \in Foreign : p \in Path /\ p \notin Directory
  BY PathAssumption
<1>9. Plausible(node)
  <2>1. \A ar \in archives : \A p \in DOMAIN ar : p \in Path /\ p \notin Foreign
    BY <1>1, OwnPaths
  <2>2. \A p \in Directory : p \in Path
    BY PathAssumption
  <2> QED BY <1>2, <1>7, <1>8, <2>1, <2>2, Kinds DEF Plausible
<1>10. before = node
  BY DEF Init
<1>11. TargetInv
  BY <1>9, <1>10 DEF TargetInv, ForeignKept
<1>12. Scope /\ CopiesTrue /\ Unsaved
  BY SMT DEF Init, Scope, CopiesTrue, Unsaved, Loop, Own
<1> QED BY <1>6, <1>10, <1>11, <1>12 DEF BackupInv, OnlyOwnFiles

LEMMA BeginInv ==
    ASSUME BackupInv, UNCHANGED archives,
           (\E ar \in archives : BeginUnpack(ar)) \/ BeginRemove
    PROVE  BackupInv'
<1>1. PICK ar \in archives \cup {Empty} :
        \/ ar \in archives /\ Begin("unpack", ar, "extract", DOMAIN ar)
        \/ ar = Empty /\ Begin("remove", Empty, "remove", DOMAIN installed)
  BY Zenon DEF BeginUnpack, BeginRemove
<1>2. /\ pc = "idle" /\ new' = ar /\ at' = 0
      /\ before' = node /\ old' = installed /\ f_success' = FALSE
      /\ UNCHANGED <<node, installed, entries, f_files, f_count, bak>>
      /\ \/ pc' = "extract" /\ op' = "unpack" /\ todo' = DOMAIN ar
         \/ pc' = "remove" /\ op' = "remove" /\ todo' = DOMAIN installed /\ ar = Empty
  BY <1>1 DEF Begin
<1>3. todo' \subseteq Path /\ installed \in archives \cup {Empty}
  BY <1>2, OwnPaths DEF BackupInv, TypeOK
<1>4. TypeOK'
  <2>1. /\ before' \in [Path -> Node] /\ old' \in archives' \cup {Empty}
        /\ new' \in archives' \cup {Empty} /\ installed' \in archives' \cup {Empty}
    BY <1>2, <1>3 DEF BackupInv, TypeOK
  <2>2. pc' \in {"extract", "remove"} /\ op' \in {"unpack", "remove"} /\ f_success' \in BOOLEAN
    BY <1>2
  <2> QED BY <1>2, <1>3, <2>1, <2>2 DEF BackupInv, TypeOK
<1>5. TargetInv'
  BY <1>2 DEF BackupInv, TargetInv, Plausible, ForeignKept
<1>6. entries' = {} /\ Scope'
  BY <1>2, SMT DEF BackupInv, Scope, Loop
<1>7. CopiesTrue' /\ Unsaved' /\ OnlyOwnFiles'
  BY <1>2, <1>6 DEF CopiesTrue, Unsaved, OnlyOwnFiles
<1> QED BY <1>4, <1>5, <1>6, <1>7 DEF BackupInv

(* Steps that only move on, keeping files and copies.                      *)
LEMMA MoveInv ==
    ASSUME BackupInv, UNCHANGED <<archives, node, installed, op, new, before, old, entries,
                                  f_files, f_count, f_success, bak>>,
           NEW label \in {"extract", "drop", "finish", "restore", "discard", "dead"},
           pc' = label, at' \in {at, 0}, todo' \subseteq Path,
           pc \in Loop \cup {"restore", "discard"},
           label = "extract" => pc = "extract" /\ todo' \subseteq DOMAIN new,
           label = "drop" => pc = "extract" /\ todo' \subseteq DOMAIN old,
           label = "finish" => pc \in Loop,
           label = "restore" => pc \in Loop /\ todo' \subseteq entries
    PROVE  BackupInv'
<1>1. TypeOK'
  BY SMT DEF BackupInv, TypeOK
<1>2. TargetInv'
  BY QuietTarget DEF BackupInv
<1>3. Scope'
  BY SMT DEF BackupInv, Scope, Loop, Own
<1>4. CopiesTrue' /\ Unsaved' /\ OnlyOwnFiles'
  BY SMT DEF BackupInv, CopiesTrue, Seen, Unsaved, OnlyOwnFiles, Loop
<1> QED BY <1>1, <1>2, <1>3, <1>4 DEF BackupInv

(* A step of a loop that writes or deletes one path it has saved.          *)
LEMMA ChangeInv ==
    ASSUME SoundLinks, BackupInv,
           UNCHANGED <<archives, before, old, new, op, installed, f_success>>,
           pc \in Loop, pc' \in Loop \cup {"restore"}, todo' \subseteq Path,
           at' \in Path \cup {0}, entries \subseteq entries', entries' \subseteq Path,
           f_files' \in [Path -> Copies \cup {0}], f_count' \in Copies \cup {0},
           bak' \in [Copies -> Content \cup {0}], CopiesTrue', Scope',
           NEW p \in Own, p \in entries', NEW v \in Node, node' = [node EXCEPT ![p] = v],
           v.kind \in {"nothing", "file", "link"},
           v.kind = "link" => \E ar \in archives : p \in DOMAIN ar /\ ar[p] = v,
           v.kind = "file" => \A ar \in archives : p \in DOMAIN ar /\ ar[p].kind = "link"
                                => v = node[ar[p].to]
    PROVE  BackupInv'
<1>1. TypeOK /\ TargetInv
  BY DEF BackupInv
<1>2. /\ TargetInv' /\ node' \in [Path -> Node]
      /\ \A r \in Path \ {p} : node'[r] = node[r]
  BY <1>1, ChangeOne
<1>3. pc' \in {"extract", "write", "drop", "remove", "finish", "restore"}
  BY DEF Loop
<1>4. TypeOK'
  BY <1>1, <1>2, <1>3 DEF TypeOK
<1>5. Unsaved' /\ OnlyOwnFiles'
  BY <1>1, <1>2 DEF BackupInv, Unsaved, OnlyOwnFiles, Own
<1> QED BY <1>2, <1>4, <1>5 DEF BackupInv

(* A step that only saves.                                                 *)
LEMMA SaveInv ==
    ASSUME SoundLinks, BackupInv,
           UNCHANGED <<archives, node, before, old, new, op, installed>>,
           pc \in Loop, pc' \in Loop \cup {"restore"}, todo' \subseteq Path,
           at' \in Path \cup {0}, NEW p \in Own, Save(p), Scope'
    PROVE  BackupInv'
<1>1. TypeOK /\ TargetInv /\ CopiesTrue /\ p \in Path /\ (p \notin entries => node[p] = before[p])
  BY OwnPath DEF BackupInv, Unsaved
<1>2. /\ CopiesTrue' /\ entries' = entries \cup {p} /\ f_success' = f_success
      /\ entries' \subseteq Path /\ f_files' \in [Path -> Copies \cup {0}]
      /\ f_count' \in Copies \cup {0} /\ bak' \in [Copies -> Content \cup {0}]
  BY <1>1, SaveKeeps
<1>3. pc' \in {"extract", "write", "drop", "remove", "finish", "restore"}
  BY DEF Loop
<1>4. TypeOK'
  BY <1>1, <1>2, <1>3 DEF TypeOK
<1>5. TargetInv'
  BY <1>1, QuietTarget
<1>6. Unsaved' /\ OnlyOwnFiles'
  BY <1>1, <1>2 DEF BackupInv, Unsaved, OnlyOwnFiles
<1> QED BY <1>2, <1>4, <1>5, <1>6 DEF BackupInv

(* What write_file() and os_symlink() may put at a path.                   *)
LEMMA NewEntry ==
    ASSUME SoundLinks, BackupInv, NEW p \in DOMAIN new
    PROVE  /\ new \in archives /\ p \in Own /\ p \in Path
           /\ new[p] \in Node /\ new[p].kind \in {"file", "link"}
           /\ new[p].kind = "file" => Follow(p) = p
           /\ new[p].kind = "link" => \E ar \in archives : p \in DOMAIN ar /\ ar[p] = new[p]
           /\ new[p].kind = "file" => \A ar \in archives :
                p \in DOMAIN ar /\ ar[p].kind = "link" => new[p] = node[ar[p].to]
<1>1. new \in archives /\ p \in Path /\ new[p] \in Node /\ new[p].kind \in {"file", "link"}
  BY OwnPaths DEF BackupInv, TypeOK
<1>2. ASSUME new[p].kind = "file", NEW ar \in archives, p \in DOMAIN ar,
             ar[p].kind = "link"
      PROVE  FALSE
  BY <1>1, <1>2, SameLink DEF BackupInv, TypeOK
<1>3. new[p].kind = "file" => node[p].kind # "link"
  BY <1>1, <1>2 DEF BackupInv, TargetInv, Plausible
<1> QED BY <1>1, <1>2, <1>3, Found DEF Own

LEMMA WrittenIs ==
    ASSUME SoundLinks, BackupInv, pc = "write"
    PROVE  Written = [node EXCEPT ![at] = new[at]] /\ at \in DOMAIN new /\ at \in entries
<1>1. at \in DOMAIN new /\ at \in entries
  BY DEF BackupInv, Scope
<1> QED BY <1>1, NewEntry DEF Written

LEMMA ExtractInv ==
    ASSUME SoundLinks, BackupInv, UNCHANGED archives, NEW p \in Path,
           ExtractSave(p) \/ ExtractSaveThrows(p)
    PROVE  BackupInv'
<1>1. CASE ExtractSave(p)
  <2>1. /\ pc = "extract" /\ p \in todo /\ Save(p) /\ pc' = "write" /\ todo' = todo
        /\ at' = p /\ UNCHANGED <<installed, op, new, before, old, node>>
    BY <1>1 DEF ExtractSave, Goto
  <2>2. p \in DOMAIN new /\ p \in Own
    BY <2>1, SMT DEF BackupInv, Scope, Own
  <2>3. entries' = entries \cup {p} /\ f_success' = f_success
    BY <2>1, <2>2, SaveKeeps DEF BackupInv, Unsaved, Loop
  <2>4. Scope'
    BY <2>1, <2>2, <2>3, SMT DEF BackupInv, Scope, Loop, Own
  <2>5. pc \in Loop /\ pc' \in Loop /\ todo' \subseteq Path
    BY <2>1 DEF BackupInv, TypeOK, Loop
  <2> QED BY <2>1, <2>2, <2>4, <2>5, SaveInv
<1>2. CASE ExtractSaveThrows(p)
  <2>1. /\ pc = "extract" /\ pc' = "restore" /\ at' = 0 /\ todo' = entries'
        /\ UNCHANGED backup /\ UNCHANGED <<installed, op, new, before, old, node>>
    BY <1>2 DEF ExtractSaveThrows, SaveThrows, Abandon, Goto
  <2> QED BY <2>1, MoveInv DEF backup, Loop, BackupInv, TypeOK
<1> QED BY <1>1, <1>2

LEMMA WriteInv ==
    ASSUME SoundLinks, BackupInv, UNCHANGED archives, WriteFile \/ WriteFileFails
    PROVE  BackupInv'
<1>1. /\ pc = "write" /\ at' = 0 /\ UNCHANGED <<installed, op, new, before, old>>
      /\ UNCHANGED <<entries, f_files, f_count, f_success, bak>>
      /\ \/ pc' = "extract" /\ todo' = todo \ {at} /\ node' = Written
         \/ pc' = "restore" /\ todo' = entries
            /\ (node' \in {node, [node EXCEPT ![at] = Nothing]} \/ node' = Written)
  BY DEF WriteFile, WriteFileFails, Goto, Abandon, backup
<1>2. /\ Written = [node EXCEPT ![at] = new[at]] /\ at \in DOMAIN new /\ at \in entries
  BY <1>1, WrittenIs
<1>3. Scope'
  BY <1>1, SMT DEF BackupInv, Scope, Loop, Own
<1>4. CopiesTrue'
  BY <1>1 DEF BackupInv, CopiesTrue, Seen
<1>5. pc \in Loop /\ pc' \in Loop \cup {"restore"} /\ todo' \subseteq Path
  BY <1>1 DEF BackupInv, TypeOK, Loop
<1>6. CASE node' = Written
  BY <1>1, <1>2, <1>3, <1>4, <1>5, <1>6, NewEntry, ChangeInv DEF BackupInv, TypeOK
<1>7. CASE node' = [node EXCEPT ![at] = Nothing]
  <2>1. at \in Own /\ Nothing \in Node /\ Nothing.kind = "nothing"
    BY <1>2, NodeHas, Kinds DEF Own
  <2> QED BY <1>1, <1>2, <1>3, <1>4, <1>5, <1>7, <2>1, ChangeInv DEF BackupInv, TypeOK
<1>8. CASE pc' = "restore" /\ node' = node
  BY <1>1, <1>5, <1>8, MoveInv
<1> QED BY <1>1, <1>6, <1>7, <1>8

LEMMA LoopEndInv ==
    ASSUME BackupInv, UNCHANGED archives, EndExtract \/ EndLoop \/ ScriptFails
    PROVE  BackupInv'
<1> USE DEF backup
<1>1. CASE EndExtract
  <2>1. /\ pc = "extract" /\ at' = at /\ UNCHANGED <<installed, op, new, before, old, node>>
        /\ UNCHANGED backup
        /\ \/ pc' = "finish" /\ todo' = {}
           \/ pc' = "drop" /\ todo' \subseteq DOMAIN installed
    BY <1>1 DEF EndExtract, Goto
  <2>2. DOMAIN installed \subseteq Path
    BY OwnPaths DEF BackupInv, TypeOK
  <2>3. pc \in Loop
    BY <2>1 DEF Loop
  <2>4. installed = old
    BY <2>3 DEF BackupInv, Scope
  <2> QED BY <2>1, <2>2, <2>3, <2>4, MoveInv
<1>2. CASE EndLoop
  BY <1>2, MoveInv DEF EndLoop, Goto, Loop
<1>3. CASE ScriptFails
  BY <1>3, MoveInv DEF ScriptFails, Goto, Abandon, Loop, BackupInv, TypeOK
<1> QED BY <1>1, <1>2, <1>3

LEMMA DeleteInv ==
    ASSUME SoundLinks, BackupInv, UNCHANGED archives, NEW p \in Path,
           DropOldFile(p) \/ RemoveFile(p)
    PROVE  BackupInv'
<1>1. /\ pc \in {"drop", "remove"} /\ p \in todo /\ Save(p) /\ pc' = pc
      /\ todo' = todo \ {p} /\ at' = at /\ UNCHANGED <<installed, op, new, before, old>>
      /\ node' \in {node, [node EXCEPT ![p] = Nothing]}
  BY SMT DEF DropOldFile, RemoveFile, Goto
<1>2. p \in DOMAIN old /\ p \in Own
  BY <1>1, SMT DEF BackupInv, Scope, Own
<1>3. TypeOK /\ pc \in Loop /\ pc' \in Loop /\ todo' \subseteq Path /\ at' \in Path \cup {0}
  BY <1>1, SMT DEF BackupInv, TypeOK, Loop
<1>4. /\ CopiesTrue' /\ entries' = entries \cup {p} /\ f_success' = f_success
      /\ entries' \subseteq Path /\ f_files' \in [Path -> Copies \cup {0}]
      /\ f_count' \in Copies \cup {0} /\ bak' \in [Copies -> Content \cup {0}]
  BY <1>1, <1>3, SaveKeeps DEF BackupInv, Unsaved
<1>5. Scope'
  BY <1>1, <1>2, <1>4, SMT DEF BackupInv, Scope, Loop, Own
<1>6. CASE node' = node
  BY <1>1, <1>2, <1>3, <1>5, <1>6, SaveInv
<1>7. CASE node' = [node EXCEPT ![p] = Nothing]
  <2>1. Nothing \in Node /\ Nothing.kind = "nothing"
    BY NodeHas, Kinds
  <2> QED BY <1>1, <1>2, <1>3, <1>4, <1>5, <1>7, <2>1, ChangeInv
<1> QED BY <1>1, <1>6, <1>7

LEMMA DeleteThrowsInv ==
    ASSUME SoundLinks, BackupInv, UNCHANGED archives, NEW p \in Path,
           DropOldFileThrows(p) \/ RemoveFileThrows(p)
    PROVE  BackupInv'
<1>1. /\ pc \in {"drop", "remove"} /\ p \in todo /\ (SaveThrows(p) \/ Save(p))
      /\ pc' = "restore" /\ todo' = entries' /\ at' = 0
      /\ UNCHANGED <<installed, op, new, before, old, node>>
  BY SMT DEF DropOldFileThrows, RemoveFileThrows, Abandon, Goto
<1>2. TypeOK /\ pc \in Loop
  BY <1>1 DEF BackupInv, Loop
<1>3. CASE SaveThrows(p)
  <2>1. UNCHANGED <<entries, f_files, f_count, f_success, bak>>
    BY <1>3 DEF SaveThrows, backup
  <2> QED BY <1>1, <1>2, <2>1, MoveInv DEF TypeOK
<1>4. CASE Save(p)
  <2>1. p \in DOMAIN old /\ p \in Own
    BY <1>1, SMT DEF BackupInv, Scope, Own
  <2>2. entries' = entries \cup {p} /\ entries' \subseteq Path /\ f_success' = f_success
    BY <1>1, <1>2, <1>4, SaveKeeps DEF BackupInv, Unsaved
  <2>3. Scope'
    BY <1>1, <1>2, <2>1, <2>2, SMT DEF BackupInv, Scope, Loop, Own
  <2> QED BY <1>1, <1>2, <1>4, <2>1, <2>2, <2>3, SaveInv DEF TypeOK
<1> QED BY <1>1, <1>3, <1>4

(* Min() is an element: a set of naturals has a smallest one.              *)
LEMMA MinIsElement ==
    ASSUME NEW S \in SUBSET Nat, S # {}
    PROVE  Min(S) \in S
<1> DEFINE Below == {ss \in Nat \X Nat : ss[1] < ss[2]}
<1>1. IsWellFoundedOn(Below, Nat)
  BY NatLessThanWellFounded DEF OpToRel
<1>2. PICK m \in S : \A k \in S : <<k, m>> \notin Below
  <2> HIDE DEF Below
  <2> QED BY <1>1, WFMin
<1>3. ASSUME NEW k \in S PROVE m <= k
  <2>1. CASE k < m
    <3>1. <<k, m>> \in Nat \X Nat /\ <<k, m>>[1] < <<k, m>>[2]
      BY <2>1
    <3> QED BY <1>2, <3>1, Zenon
  <2> QED BY <2>1
<1> QED BY <1>2, <1>3 DEF Min

(* What restore() writes is what was there: where it goes through a link   *)
(* it writes what the other package's file holds already.                  *)
LEMMA RestoredIs ==
    ASSUME SoundLinks, BackupInv, pc = "restore", todo # {}
    PROVE  LET p == Min(todo)
               v == IF f_files[p] = 0 THEN Nothing ELSE File(bak[f_files[p]])
           IN  /\ p \in todo /\ p \in entries /\ p \in Own /\ p \in Path
               /\ v = Seen(before)[p] /\ v \in Node /\ v.kind \in {"nothing", "file"}
               /\ v.kind = "file" => \A ar \in archives :
                    p \in DOMAIN ar /\ ar[p].kind = "link" => v = node[ar[p].to]
               /\ Restored \in {[node EXCEPT ![p] = v], node}
               /\ Restored = node => Seen(node)[p] = v
               /\ ~IsDir(p)
<1> DEFINE p == Min(todo)
           v == IF f_files[p] = 0 THEN Nothing ELSE File(bak[f_files[p]])
<1>0. TypeOK /\ TargetInv
  BY DEF BackupInv
<1>1. p \in todo
  BY <1>0, PathAssumption, MinIsElement DEF TypeOK
<1> HIDE DEF p
<1>2. p \in entries /\ p \in Own /\ p \in Path /\ p \notin Directory /\ p \notin Foreign
  BY <1>1, OwnPath DEF BackupInv, Scope
<1>3. v = Seen(before)[p]
  BY <1>2 DEF BackupInv, CopiesTrue
<1>4. v \in Node /\ v.kind \in {"nothing", "file"}
  BY <1>0, <1>2, <1>3, Look, Kinds DEF TargetInv, TypeOK
<1>5. ASSUME v.kind = "file", NEW ar \in archives, p \in DOMAIN ar, ar[p].kind = "link"
      PROVE  v = node[ar[p].to]
  <2>1. ar[p].to \in Foreign
    BY <1>0, <1>5, SameLink DEF TypeOK
  <2>2. node[ar[p].to] = before[ar[p].to]
    BY <1>0, <2>1 DEF TargetInv, ForeignKept
  <2>3. CASE before[p].kind = "link"
    <3>1. PICK other \in archives : p \in DOMAIN other /\ other[p] = before[p]
      BY <1>0, <1>2, <2>3 DEF TargetInv, Plausible
    <3>2. before[p] = ar[p]
      BY <1>0, <1>5, <3>1, SameLink DEF TypeOK
    <3> QED BY <1>2, <1>3, <2>2, <2>3, <3>2 DEF Seen
  <2>4. CASE before[p].kind # "link"
    <3>1. Seen(before)[p] = before[p]
      BY <1>2, <2>4 DEF Seen
    <3> QED BY <1>0, <1>3, <1>5, <2>2, <3>1 DEF TargetInv, Plausible
  <2> QED BY <2>3, <2>4
<1>6. CASE node[p].kind # "link"
  <2>1. Follow(p) = p
    BY <1>2, <1>6, Found
  <2>2. Restored = [node EXCEPT ![p] = v]
    BY <2>1 DEF Restored, p
  <2>3. node[p] # Folder
    BY <1>0, <1>2, Kinds DEF TargetInv, Plausible
  <2>4. Restored = node => Seen(node)[p] = v
    BY <1>0, <1>2, <1>6, <2>2, Look DEF TargetInv, TypeOK
  <2> QED BY <1>1, <1>2, <1>3, <1>4, <1>5, <2>1, <2>2, <2>3, <2>4 DEF p, IsDir
<1>7. CASE node[p].kind = "link"
  <2>1. PICK ar \in archives : p \in DOMAIN ar /\ ar[p] = node[p]
    BY <1>0, <1>2, <1>7 DEF TargetInv, Plausible
  <2>2. Follow(p) = ar[p].to /\ Follow(p) \in Path
    BY <1>0, <1>2, <1>7, <2>1, Look DEF TargetInv, TypeOK, Follow
  <2>3. node[Follow(p)].kind = "file" /\ node[Follow(p)] = Seen(node)[p]
    BY <1>0, <1>2, <1>7, Look, Found DEF TargetInv, TypeOK
  <2>4. node[Follow(p)] # Folder
    BY <2>3, Kinds
  <2>5. CASE f_files[p] = 0
    <3>1. Restored = [node EXCEPT ![p] = v] /\ Restored[p] = Nothing
      BY <1>0, <1>2, <2>5 DEF Restored, p, TypeOK
    <3>2. Restored # node
      BY <1>7, <3>1, Kinds
    <3> QED BY <1>1, <1>2, <1>3, <1>4, <1>5, <2>4, <3>1, <3>2 DEF p, IsDir
  <2>6. CASE f_files[p] # 0
    <3>1. v.kind = "file" /\ v = node[Follow(p)]
      BY <1>5, <1>7, <2>1, <2>2, <2>6, Kinds
    <3>2. Restored = [node EXCEPT ![Follow(p)] = v]
      BY <2>6 DEF Restored, p
    <3>3. Restored = node
      BY <1>0, <2>2, <3>1, <3>2 DEF TypeOK
    <3> QED BY <1>1, <1>2, <1>3, <1>4, <1>5, <2>3, <2>4, <3>1, <3>3 DEF p, IsDir
  <2> QED BY <2>5, <2>6
<1> QED BY <1>6, <1>7

LEMMA RestoreInv ==
    ASSUME SoundLinks, BackupInv, UNCHANGED archives, RestoreFile
    PROVE  BackupInv'
<1> DEFINE p == Min(todo)
           v == IF f_files[p] = 0 THEN Nothing ELSE File(bak[f_files[p]])
<1>1. /\ pc = "restore" /\ todo # {} /\ pc' = "restore" /\ todo' = todo \ {p} /\ at' = at
      /\ UNCHANGED <<installed, op, new, before, old, entries, f_files, f_count,
                     f_success, bak>>
      /\ node' \in {node, Restored}
  BY DEF RestoreFile, Goto, backup
<1>2. TypeOK /\ TargetInv /\ CopiesTrue
  BY DEF BackupInv
<1>3. CASE node' = node
  <2>1. TypeOK'
    BY <1>1, <1>2, <1>3 DEF TypeOK
  <2>2. TargetInv'
    BY <1>1, <1>2, <1>3, QuietTarget
  <2>3. Scope'
    BY <1>1, SMT DEF BackupInv, Scope, Loop, Own
  <2>4. CopiesTrue' /\ Unsaved' /\ OnlyOwnFiles'
    BY <1>1, <1>3 DEF BackupInv, CopiesTrue, Seen, Unsaved, OnlyOwnFiles, Loop
  <2> QED BY <2>1, <2>2, <2>3, <2>4 DEF BackupInv
<1>4. CASE node' = Restored /\ Restored # node
  <2>1. /\ p \in entries /\ p \in Own /\ v \in Node /\ v.kind \in {"nothing", "file"}
        /\ v.kind = "file" => \A ar \in archives :
             p \in DOMAIN ar /\ ar[p].kind = "link" => v = node[ar[p].to]
        /\ Restored = [node EXCEPT ![p] = v]
    BY <1>1, <1>4, RestoredIs
  <2> HIDE DEF p, v
  <2>2. /\ TargetInv' /\ node' \in [Path -> Node]
        /\ \A r \in Path \ {p} : node'[r] = node[r]
    BY <1>1, <1>2, <1>4, <2>1, ChangeOne
  <2>3. TypeOK'
    BY <1>1, <1>2, <2>2 DEF TypeOK
  <2>4. Scope'
    BY <1>1, SMT DEF BackupInv, Scope, Loop, Own
  <2>5. CopiesTrue' /\ Unsaved' /\ OnlyOwnFiles'
    BY <1>1, <2>1, <2>2 DEF BackupInv, CopiesTrue, Seen, Unsaved, OnlyOwnFiles, Own
  <2> QED BY <2>2, <2>3, <2>4, <2>5 DEF BackupInv
<1> QED BY <1>1, <1>3, <1>4

LEMMA EndInv ==
    ASSUME BackupInv, UNCHANGED archives,
           Success \/ EndRestore \/ Discard \/ End \/ Crash
    PROVE  BackupInv'
<1>0. TypeOK /\ TargetInv
  BY DEF BackupInv
<1>1. CASE Success
  <2>1. /\ pc = "finish" /\ pc' = "discard" /\ f_success' = TRUE /\ installed' = new
        /\ UNCHANGED <<node, op, new, todo, at, entries, f_files, f_count, bak, before, old>>
    BY <1>1 DEF Success
  <2>2. TypeOK'
    BY <1>0, <2>1 DEF TypeOK
  <2>3. TargetInv'
    BY <1>0, <2>1, QuietTarget
  <2>4. Scope'
    BY <2>1, SMT DEF BackupInv, Scope, Loop, Own
  <2>5. CopiesTrue' /\ Unsaved' /\ OnlyOwnFiles'
    BY <2>1, SMT DEF BackupInv, CopiesTrue, Seen, Unsaved, OnlyOwnFiles, Loop
  <2> QED BY <2>2, <2>3, <2>4, <2>5 DEF BackupInv
<1>2. CASE EndRestore
  BY <1>2, MoveInv DEF EndRestore, Goto, backup
<1>3. CASE Discard
  <2> DEFINE p == Min(entries)
  <2>1. /\ pc = "discard" /\ entries # {} /\ entries' = entries \ {p}
        /\ bak' \in {[k \in Copies |-> IF k = f_files[p] THEN 0 ELSE bak[k]], bak}
        /\ UNCHANGED <<node, installed, pc, op, new, todo, at, f_files, f_count,
                       f_success, before, old>>
    BY <1>3 DEF Discard
  <2>2. p \in entries
    BY <1>0, <2>1, PathAssumption, MinIsElement DEF TypeOK
  <2> HIDE DEF p
  <2>3. bak' \in [Copies -> Content \cup {0}]
        /\ \A k \in Copies : k # f_files[p] => bak'[k] = bak[k]
    BY <1>0, <2>1 DEF TypeOK
  <2>4. TypeOK'
    BY <1>0, <2>1, <2>3 DEF TypeOK
  <2>5. TargetInv' /\ Seen(before)' = Seen(before)
    BY <1>0, <2>1, QuietTarget
  <2>6. Scope'
    BY <2>1, SMT DEF BackupInv, Scope, Loop, Own
  <2>7. ASSUME NEW q \in entries'
        PROVE  f_files[q] # 0 => bak'[f_files[q]] = bak[f_files[q]]
    <3>1. q \in entries /\ q # p /\ f_files[q] \in Copies \cup {0}
      BY <1>0, <2>1, <2>2 DEF TypeOK
    <3>2. f_files[q] # 0 => f_files[q] # f_files[p]
      BY <2>2, <3>1 DEF BackupInv, CopiesTrue
    <3> QED BY <2>3, <3>1, <3>2
  <2>8. CopiesTrue'
    <3>1. entries' \subseteq entries /\ f_files' = f_files /\ f_count' = f_count
      BY <2>1
    <3> QED BY <2>5, <2>7, <3>1 DEF BackupInv, CopiesTrue
  <2>9. Unsaved' /\ OnlyOwnFiles'
    BY <2>1 DEF BackupInv, Unsaved, OnlyOwnFiles, Loop
  <2> QED BY <2>4, <2>5, <2>6, <2>8, <2>9 DEF BackupInv
<1>4. CASE End
  <2>1. /\ pc = "discard" /\ entries = {} /\ pc' = "idle" /\ f_count' = 0
        /\ f_files' = [p \in Path |-> 0]
        /\ UNCHANGED <<node, installed, op, new, todo, at, entries, f_success, bak,
                       before, old>>
    BY <1>4 DEF End
  <2>2. TypeOK'
    BY <1>0, <2>1 DEF TypeOK
  <2>3. TargetInv'
    BY <1>0, <2>1, QuietTarget
  <2>4. Scope'
    BY <2>1, SMT DEF BackupInv, Scope, Loop, Own
  <2>5. CopiesTrue' /\ Unsaved' /\ OnlyOwnFiles'
    BY <2>1, SMT DEF BackupInv, CopiesTrue, Unsaved, OnlyOwnFiles, Loop
  <2> QED BY <2>2, <2>3, <2>4, <2>5 DEF BackupInv
<1>5. CASE Crash
  <2>1. pc \in Loop \cup {"restore", "discard"}
    BY <1>0, <1>5 DEF Crash, TypeOK, Loop
  <2> QED BY <1>0, <1>5, <2>1, MoveInv DEF Crash, backup, TypeOK
<1> QED BY <1>1, <1>2, <1>3, <1>4, <1>5

LEMMA NextInv == ASSUME SoundLinks, BackupInv, [Next]_vars PROVE BackupInv'
<1>1. CASE UNCHANGED vars
  <2> USE <1>1 DEF vars, backup
  <2>1. TypeOK' /\ TargetInv'
    BY QuietTarget DEF BackupInv, TypeOK
  <2>2. Scope' /\ CopiesTrue' /\ Unsaved' /\ OnlyOwnFiles'
    BY DEF BackupInv, Scope, CopiesTrue, Seen, Unsaved, OnlyOwnFiles, Own
  <2> QED BY <2>1, <2>2 DEF BackupInv
<1>2. CASE Next
  BY <1>2, BeginInv, ExtractInv, WriteInv, LoopEndInv, DeleteInv, DeleteThrowsInv,
     RestoreInv, EndInv DEF Next, Step
<1> QED BY <1>1, <1>2

-----------------------------------------------------------------------------
(* The types are right, for sound packages (TypeOK).                       *)
THEOREM TypeCorrect == ASSUME SoundLinks PROVE Spec => []TypeOK
<1>1. BackupInv => TypeOK
  BY DEF BackupInv
<1> QED BY <1>1, InvInit, NextInv, PTL DEF Spec

(* Whatever fails, and wherever the process dies, a transaction changes    *)
(* nothing but the paths of the archives it was given (OnlyOwnFiles).      *)
THEOREM OthersUntouched == ASSUME SoundLinks PROVE Spec => []OnlyOwnFiles
<1>1. BackupInv => OnlyOwnFiles
  BY DEF BackupInv
<1> QED BY <1>1, InvInit, NextInv, PTL DEF Spec

-----------------------------------------------------------------------------
(* What was saved comes back.                                              *)

LEMMA SeenOne ==
    ASSUME SoundLinks, TypeOK, TargetInv, NEW p \in Path, node[p].kind # "link"
    PROVE  Seen(node)[p] = node[p]
BY Look DEF TypeOK, TargetInv

LEMMA RestoreBack ==
    ASSUME SoundLinks, "restore" \notin Faults, BackupInv, Back, UNCHANGED archives,
           RestoreFile
    PROVE  Back'
<1> DEFINE p == Min(todo)
           v == IF f_files[p] = 0 THEN Nothing ELSE File(bak[f_files[p]])
<1>1. /\ p \in entries /\ p \in Own /\ p \in Path /\ v = Seen(before)[p] /\ v \in Node
      /\ v.kind \in {"nothing", "file"}
      /\ v.kind = "file" => \A ar \in archives :
           p \in DOMAIN ar /\ ar[p].kind = "link" => v = node[ar[p].to]
      /\ Restored \in {[node EXCEPT ![p] = v], node}
      /\ Restored = node => Seen(node)[p] = v
      /\ ~IsDir(p)
  BY RestoredIs DEF RestoreFile
<1>2. /\ pc = "restore" /\ pc' = "restore" /\ todo' = todo \ {p} /\ before' = before
      /\ entries' = entries /\ node' = Restored
  BY <1>1 DEF RestoreFile, Goto, backup, Fault
<1> HIDE DEF p, v
<1>3. Seen(before)' = Seen(before) /\ TypeOK /\ TargetInv
  BY <1>2 DEF Seen, BackupInv
<1>4. ASSUME NEW q \in entries \ todo' PROVE Seen(node)'[q] = Seen(before)'[q]
  <2>1. q = p \/ q \in entries \ todo
    BY <1>2
  <2>2. q \in Path
    BY <1>2, <1>3 DEF TypeOK
  <2>3. CASE node' = node
    <3>1. Seen(node)' = Seen(node)
      BY <2>3 DEF Seen
    <3> QED BY <1>1, <1>2, <1>3, <2>1, <2>3, <3>1 DEF Back
  <2>4. CASE node' # node
    <3>1. /\ TargetInv' /\ node' \in [Path -> Node] /\ node'[p] = v
          /\ \A r \in Path \ {p} : Seen(node)'[r] = Seen(node)[r]
      BY <1>1, <1>2, <1>3, <2>4, ChangeOne
    <3>2. Seen(node)'[p] = v
      BY <1>1, <3>1 DEF Seen
    <3> QED BY <1>1, <1>2, <1>3, <2>1, <2>2, <3>1, <3>2 DEF Back
  <2> QED BY <2>3, <2>4
<1> QED BY <1>2, <1>4 DEF Back

LEMMA NextBack ==
    ASSUME SoundLinks, "restore" \notin Faults, BackupInv, Back, [Next]_vars
    PROVE  Back'
<1>1. CASE UNCHANGED vars
  BY <1>1 DEF vars, backup, Back, Seen
<1>2. CASE pc' = "restore" /\ todo' = entries'
  BY <1>2 DEF Back
<1>3. CASE pc' \notin {"restore", "discard"}
  BY <1>3 DEF Back
<1>4. CASE UNCHANGED archives /\ RestoreFile
  BY <1>4, RestoreBack
<1>5. CASE Success
  BY <1>5 DEF Success, Back
<1>6. CASE Discard
  BY <1>6 DEF Discard, Back, Seen
<1>7. CASE EndRestore
  <2>1. /\ pc = "restore" /\ todo = {} /\ pc' = "discard" /\ node' = node /\ before' = before
    BY <1>7 DEF EndRestore, Goto
  <2>2. ASSUME NEW p \in Path PROVE Seen(node)[p] = Seen(before)[p]
    <3>1. CASE p \in entries
      BY <2>1, <3>1 DEF Back
    <3>2. CASE p \notin entries
      BY <2>1, <3>2, SeenBefore DEF BackupInv, Unsaved
    <3> QED BY <3>1, <3>2
  <2>3. Seen(node) = Seen(before)
    BY <2>2 DEF Seen
  <2> QED BY <2>1, <2>3 DEF Back, Seen
<1>8. CASE Next
  <2>1. UNCHANGED archives
    BY <1>8 DEF Next
  <2>2. CASE (\E ar \in archives : BeginUnpack(ar)) \/ BeginRemove \/ Crash
    BY <1>3, <2>2 DEF BeginUnpack, BeginRemove, Begin, Crash
  <2>3. ASSUME NEW p \in Path,
               ExtractSave(p) \/ ExtractSaveThrows(p) \/ DropOldFile(p)
               \/ DropOldFileThrows(p) \/ RemoveFile(p) \/ RemoveFileThrows(p)
        PROVE  Back'
    BY <1>2, <1>3, <2>3, SMT DEF ExtractSave, ExtractSaveThrows, DropOldFile,
       DropOldFileThrows, RemoveFile, RemoveFileThrows, Goto, Abandon
  <2>4. CASE WriteFile \/ WriteFileFails \/ EndExtract \/ EndLoop \/ ScriptFails \/ End
    BY <1>2, <1>3, <2>4, SMT DEF WriteFile, WriteFileFails, EndExtract, EndLoop,
       ScriptFails, End, Goto, Abandon
  <2> QED BY <1>4, <1>5, <1>6, <1>7, <1>8, <2>1, <2>2, <2>3, <2>4 DEF Next, Step
<1> QED BY <1>1, <1>8

LEMMA CopyThere ==
    ASSUME SoundLinks, BackupInv, Back, pc # "dead"
    PROVE  NothingLost
<1> SUFFICES ASSUME pc # "idle", ~f_success, NEW p \in Path, before[p].kind = "file"
             PROVE  \/ Seen(node)[p] = before[p]
                    \/ \E k \in Copies : /\ bak[k] = before[p].content
                                         /\ p \in entries /\ f_files[p] = k
  BY DEF NothingLost
<1>1. TypeOK /\ TargetInv
  BY DEF BackupInv
<1>2. Seen(before)[p] = before[p]
  BY DEF Seen
<1>3. CASE pc = "discard"
  BY <1>2, <1>3 DEF Back
<1>4. CASE pc # "discard"
  <2>1. pc \in Loop \cup {"restore"}
    BY <1>1, <1>4 DEF TypeOK, Loop
  <2>2. CASE p \notin entries
    BY <1>1, <1>2, <2>1, <2>2, SeenBefore DEF BackupInv, Unsaved
  <2>3. CASE p \in entries
    <3>1. f_files[p] # 0 /\ before[p] = File(bak[f_files[p]])
      BY <1>2, <2>3, Kinds DEF BackupInv, CopiesTrue
    <3>2. f_files[p] \in Copies /\ bak[f_files[p]] = before[p].content
      BY <1>1, <3>1, Kinds DEF TypeOK
    <3> QED BY <2>3, <3>2
  <2> QED BY <2>2, <2>3
<1> QED BY <1>3, <1>4

DeadKept == pc = "dead" => NothingLost

LEMMA NextDead ==
    ASSUME SoundLinks, BackupInv, Back, DeadKept, [Next]_vars
    PROVE  DeadKept'
<1> SUFFICES ASSUME pc' = "dead" PROVE NothingLost'
  BY DEF DeadKept
<1>1. Crash \/ UNCHANGED vars
  BY SMT DEF Next, BeginUnpack, BeginRemove, Begin, Step, ExtractSave,
     ExtractSaveThrows, DropOldFile, DropOldFileThrows, RemoveFile, RemoveFileThrows,
     WriteFile, WriteFileFails, EndExtract, EndLoop, ScriptFails, Success, RestoreFile,
     EndRestore, Discard, End, Goto, Abandon
<1>2. UNCHANGED <<node, before, entries, f_files, f_success, bak>>
  BY <1>1 DEF Crash, vars, backup
<1>3. pc # "idle" /\ NothingLost
  BY <1>1, CopyThere DEF Crash, vars, DeadKept
<1> QED BY <1>2, <1>3 DEF NothingLost, Seen

LEMMA InitBack == ASSUME Init PROVE Back /\ DeadKept
BY DEF Init, Back, DeadKept

(* However often a transaction is interrupted by errors, or killed, every  *)
(* file that was there can be read or has its copy, as long as restores    *)
(* that were begun can write (NothingLost).                                *)
THEOREM Lossless ==
    ASSUME SoundLinks, "restore" \notin Faults
    PROVE  Spec => []NothingLost
<1>1. BackupInv /\ Back /\ DeadKept => NothingLost
  BY CopyThere DEF DeadKept
<1> QED BY <1>1, InvInit, NextInv, InitBack, NextBack, NextDead, PTL DEF Spec

-----------------------------------------------------------------------------
(* The code implements Transaction.                                        *)

LEMMA LoopProgress ==
    ASSUME SoundLinks, BackupInv, Progress, UNCHANGED archives, NEW p \in Path,
           ExtractSave(p) \/ DropOldFile(p) \/ RemoveFile(p)
    PROVE  Progress'
<1>1. /\ p \in todo /\ Save(p) /\ pc \in Loop /\ UNCHANGED before
      /\ TypeOK /\ TargetInv /\ CopiesTrue
  BY DEF ExtractSave, DropOldFile, RemoveFile, Goto, BackupInv, Loop
<1>2. entries' = entries \cup {p}
  BY <1>1, SaveKeeps DEF BackupInv, Unsaved
<1>3. CASE ExtractSave(p)
  BY <1>2, <1>3 DEF ExtractSave, Goto, Progress, Extracted, Obsolete
<1>4. CASE DropOldFile(p)
  <2>1. /\ pc = "drop" /\ pc' = "drop" /\ UNCHANGED <<op, new, old, before>>
        /\ \/ node' = node
           \/ p \notin entries /\ node' = [node EXCEPT ![p] = Nothing]
    BY <1>4 DEF DropOldFile, Goto, Copied
  <2>2. CASE node' = node
    BY <1>2, <2>1, <2>2 DEF Progress, Extracted, Obsolete
  <2>3. CASE p \notin entries /\ node' = [node EXCEPT ![p] = Nothing]
    <3>1. p \notin DOMAIN new /\ DOMAIN new \subseteq Path
      BY <1>1, <2>1, <2>3, OwnPath, Zenon DEF Progress, Extracted, Own
    <3>2. node'[p] = Nothing /\ \A r \in Path \ {p} : node'[r] = node[r]
      BY <1>1, <2>3 DEF TypeOK
    <3>3. Obsolete' = Obsolete /\ Obsolete \subseteq Path
      BY <2>1, OwnPath DEF BackupInv, Obsolete, Own
    <3>4. (Extracted(DOMAIN new))'
      BY <1>2, <2>1, <3>1, <3>2 DEF Progress, Extracted
    <3>5. \A r \in Obsolete : node'[r] \in {Nothing, before[r]}
      BY <2>1, <3>2, <3>3 DEF Progress, BackupInv, Scope
    <3> QED BY <2>1, <3>3, <3>4, <3>5 DEF Progress
  <2> QED BY <2>1, <2>2, <2>3
<1>5. CASE RemoveFile(p)
  <2>1. /\ pc = "remove" /\ pc' = "remove" /\ UNCHANGED <<op, new, old, before>>
        /\ node' = [node EXCEPT ![p] = Nothing] /\ todo' = todo \ {p}
    BY <1>5 DEF RemoveFile, Goto
  <2>2. \A r \in DOMAIN old : r \in Path
    BY OwnPath DEF BackupInv, Own
  <2>3. \A r \in DOMAIN old \ todo' : node'[r] = Nothing
    BY <1>1, <2>1, <2>2 DEF Progress, TypeOK
  <2> QED BY <2>1, <2>3 DEF Progress
<1> QED BY <1>3, <1>4, <1>5

LEMMA WriteProgress ==
    ASSUME SoundLinks, BackupInv, Progress, UNCHANGED archives, WriteFile
    PROVE  Progress'
<1>1. /\ pc = "write" /\ pc' = "extract" /\ todo' = todo \ {at}
      /\ UNCHANGED <<op, new, old, before, entries>> /\ node' = [node EXCEPT ![at] = new[at]]
      /\ at \in DOMAIN new /\ at \in entries
  BY WrittenIs DEF WriteFile, Goto, backup
<1>2. \A r \in Own : r \in Path
  BY OwnPath DEF BackupInv
<1>3. node'[at] = new[at] /\ \A r \in Path \ {at} : node'[r] = node[r]
  BY <1>1, <1>2 DEF BackupInv, TypeOK, Own
<1>4. Extracted(DOMAIN new \ todo)
  BY <1>1 DEF Progress
<1>5. (Extracted(DOMAIN new \ todo))'
  BY <1>1, <1>2, <1>3, <1>4 DEF Extracted, Own
<1>6. \A r \in Obsolete : r \in Path /\ r # at /\ node[r] = before[r]
  BY <1>1, <1>2 DEF Obsolete, Own, Progress
<1>7. \A r \in Obsolete' : node'[r] = before'[r]
  BY <1>1, <1>3, <1>6 DEF Obsolete
<1> QED BY <1>1, <1>5, <1>7 DEF Progress

LEMMA NextProgress ==
    ASSUME SoundLinks, BackupInv, Progress, [Next]_vars
    PROVE  Progress'
<1>1. CASE UNCHANGED vars
  BY <1>1 DEF vars, backup, Progress, Extracted, Obsolete
<1>2. CASE pc' \in {"restore", "idle", "dead"}
  BY <1>2 DEF Progress
<1>3. CASE Next /\ pc' \notin {"restore", "idle", "dead"}
  <2>1. UNCHANGED archives
    BY <1>3 DEF Next
  <2>2. CASE \E ar \in archives : BeginUnpack(ar)
    BY <2>2 DEF BeginUnpack, Begin, Progress, Extracted, Obsolete
  <2>3. CASE BeginRemove
    BY <2>3 DEF BeginRemove, Begin, Progress
  <2>4. ASSUME NEW p \in Path, ExtractSave(p) \/ DropOldFile(p) \/ RemoveFile(p)
        PROVE  Progress'
    BY <2>1, <2>4, LoopProgress
  <2>5. CASE WriteFile
    BY <2>1, <2>5, WriteProgress
  <2>6. CASE EndExtract
    <3>1. /\ pc = "extract" /\ todo = {} /\ pc' \in {"finish", "drop"}
          /\ UNCHANGED <<op, new, old, before, node, entries>> /\ op = "unpack"
      BY <2>6 DEF EndExtract, Goto, backup, BackupInv, Scope
    <3> QED BY <3>1 DEF Progress, Extracted, Obsolete
  <2>7. CASE EndLoop
    <3>1. /\ pc \in {"drop", "remove"} /\ todo = {} /\ pc' = "finish"
          /\ UNCHANGED <<op, new, old, before, node>>
          /\ pc = "drop" => op = "unpack"
          /\ pc = "remove" => op = "remove" /\ DOMAIN new = {}
      BY <2>7 DEF EndLoop, Goto, BackupInv, Scope, Empty
    <3> QED BY <3>1 DEF Progress, Extracted, Obsolete
  <2>8. CASE Success
    <3>1. /\ pc = "finish" /\ pc' = "discard" /\ UNCHANGED <<op, new, old, before, node>>
      BY <2>8 DEF Success
    <3> QED BY <3>1 DEF Progress, Obsolete
  <2>9. CASE EndRestore
    <3>1. pc' = "discard" /\ ~f_success'
      BY <2>9 DEF EndRestore, Goto, backup, BackupInv, Scope
    <3> QED BY <3>1 DEF Progress
  <2>10. CASE Discard
    BY <2>10 DEF Discard, Progress, Obsolete
  <2>11. ASSUME NEW p \in Path,
                ExtractSaveThrows(p) \/ DropOldFileThrows(p) \/ RemoveFileThrows(p)
         PROVE  FALSE
    BY <1>3, <2>11, SMT DEF ExtractSaveThrows, DropOldFileThrows, RemoveFileThrows,
       Abandon, Goto
  <2>12. ~(WriteFileFails \/ ScriptFails \/ RestoreFile \/ End \/ Crash)
    BY <1>3, SMT DEF WriteFileFails, ScriptFails, RestoreFile, End, Crash, Abandon, Goto
  <2> QED BY <1>3, <2>2, <2>3, <2>4, <2>5, <2>6, <2>7, <2>8, <2>9, <2>10, <2>11, <2>12
          DEF Next, Step
<1> QED BY <1>1, <1>2, <1>3

Typed ==
    /\ Seen(node) \in [Path -> Node] /\ Seen(before) \in [Path -> Node]
    /\ Seen(Wanted) \in [Path -> Node] /\ Own \subseteq Path

LEMMA SeenType == ASSUME SoundLinks, BackupInv PROVE Typed
<1>1. TypeOK /\ TargetInv
  BY DEF BackupInv
<1>2. \A p \in Path : Seen(node)[p] \in Node /\ Seen(before)[p] \in Node
  BY <1>1, Look DEF TypeOK, TargetInv
<1>3. \A p \in DOMAIN new : new[p] \in Node
  BY <1>1, OwnPaths DEF TypeOK
<1>4. Wanted \in [Path -> Node]
  BY <1>1, <1>3, NodeHas DEF Wanted, TypeOK
<1>5. \A p \in Path : Wanted[p].kind = "link" => Wanted[p].to \in Path
  BY <1>4, Shape
<1>6. Own \subseteq Path
  BY <1>1, OwnPath
<1> QED BY <1>2, <1>4, <1>5, <1>6 DEF Seen, Typed

(* A success leaves what was wanted.                                       *)
LEMMA CommittedWhenDone ==
    ASSUME SoundLinks, BackupInv, Progress, pc = "discard", f_success
    PROVE  T!Committed
<1> SUFFICES ASSUME NEW p \in Path
             PROVE  \/ Seen(node)[p] = Seen(Wanted)[p]
                    \/ /\ p \in (IF op = "unpack" THEN Obsolete ELSE {})
                       /\ Seen(node)[p] = Seen(before)[p]
  BY DEF T!Committed, Obsolete
<1>1. TypeOK /\ TargetInv
  BY DEF BackupInv
<1>2. \A q \in Foreign : q \in Path /\ Wanted[q] = node[q]
  BY <1>1, OwnPath, PathAssumption DEF Wanted, Own, TargetInv, ForeignKept
<1>3. ASSUME Wanted[p] = node[p] PROVE Seen(node)[p] = Seen(Wanted)[p]
  <2>1. node[p].kind = "link" => node[p].to \in Foreign
    BY <1>1, Look DEF TypeOK, TargetInv
  <2> QED BY <1>2, <1>3, <2>1 DEF Seen
<1>4. CASE p \in DOMAIN new
  BY <1>3, <1>4 DEF Wanted, Progress
<1>5. CASE p \notin Own
  BY <1>3, <1>5 DEF Wanted, Own, BackupInv, OnlyOwnFiles
<1>6. CASE p \in Obsolete /\ op = "remove"
  BY <1>3, <1>6 DEF Wanted, Obsolete, Progress
<1>7. CASE p \in Obsolete /\ op = "unpack"
  <2>1. node[p] \in {Nothing, before[p]}
    BY <1>7 DEF Progress
  <2>2. CASE node[p] = Nothing
    BY <1>3, <1>7, <2>2 DEF Wanted, Obsolete
  <2>3. CASE node[p] = before[p]
    BY <1>1, <1>7, <2>3, SeenBefore
  <2> QED BY <2>1, <2>2, <2>3
<1> QED BY <1>1, <1>4, <1>5, <1>6, <1>7 DEF Own, Obsolete, TypeOK

LEMMA StepRefines ==
    ASSUME SoundLinks, BackupInv, Typed', Back, Progress, [Next]_vars
    PROVE  [T!Next]_(T!vars)
<1>1. CASE UNCHANGED vars
  BY <1>1 DEF vars, T!vars, Seen, Wanted
<1>2. CASE (\E ar \in archives : BeginUnpack(ar)) \/ BeginRemove
  <2>1. pc = "idle" /\ pc' \in {"extract", "remove"} /\ before' = node /\ node' = node
    BY <1>2 DEF BeginUnpack, BeginRemove, Begin
  <2>2. /\ Seen(before)' = Seen(node) /\ Seen(node)' = Seen(node)
    BY <2>1 DEF Seen
  <2>3. Seen(Wanted)' \in [Path -> Node]
    BY DEF Typed
  <2>4. (IF op = "unpack" THEN DOMAIN old \ DOMAIN new ELSE {})' \in SUBSET Path
    BY DEF Typed, Own
  <2>5. T!Begin
    BY <2>1, <2>2, <2>3, <2>4 DEF T!Begin
  <2> QED BY <2>5 DEF T!Next
<1>3. CASE UNCHANGED archives /\ (Step \/ Crash)
  <2>1. UNCHANGED <<op, new, old, before>>
    BY <1>3, SMT DEF Step, ExtractSave, ExtractSaveThrows, DropOldFile, DropOldFileThrows,
       RemoveFile, RemoveFileThrows, WriteFile, WriteFileFails, EndExtract, EndLoop,
       ScriptFails, Success, RestoreFile, EndRestore, Discard, End, Crash, Goto, Abandon
  <2>2. /\ Seen(before)' = Seen(before) /\ Seen(Wanted)' = Seen(Wanted)
        /\ (IF op = "unpack" THEN DOMAIN old \ DOMAIN new ELSE {})'
            = (IF op = "unpack" THEN DOMAIN old \ DOMAIN new ELSE {})
    BY <2>1 DEF Seen, Wanted
  <2>3. pc \notin {"idle", "dead"}
    <3>1. ASSUME NEW p \in Path,
                 ExtractSave(p) \/ ExtractSaveThrows(p) \/ DropOldFile(p)
                 \/ DropOldFileThrows(p) \/ RemoveFile(p) \/ RemoveFileThrows(p)
          PROVE  pc \in {"extract", "drop", "remove"}
      BY <3>1, Zenon DEF ExtractSave, ExtractSaveThrows, DropOldFile, DropOldFileThrows,
         RemoveFile, RemoveFileThrows
    <3>2. ASSUME WriteFile \/ WriteFileFails \/ EndExtract \/ EndLoop \/ ScriptFails
          PROVE  pc \in Loop
      BY <3>2, SMT DEF WriteFile, WriteFileFails, EndExtract, EndLoop, ScriptFails, Loop
    <3>3. ASSUME Success \/ RestoreFile \/ EndRestore \/ Discard \/ End
          PROVE  pc \in {"finish", "restore", "discard"}
      BY <3>3, SMT DEF Success, RestoreFile, EndRestore, Discard, End
    <3> QED BY <1>3, <3>1, <3>2, <3>3 DEF Step, Crash, Loop
  <2>4. CASE pc' \notin {"idle", "dead"}
    <3>1. T!Work
      BY <2>2, <2>3, <2>4 DEF T!Work, Typed
    <3> QED BY <3>1 DEF T!Next
  <2>5. CASE pc' = "dead"
    <3>1. T!Killed
      BY <2>2, <2>3, <2>5 DEF T!Killed, Typed
    <3> QED BY <3>1 DEF T!Next
  <2>6. CASE pc' = "idle"
    <3>1. pc = "discard" /\ node' = node
      BY <1>3, <2>6, SMT DEF Step, ExtractSave, ExtractSaveThrows, DropOldFile,
         DropOldFileThrows, RemoveFile, RemoveFileThrows, WriteFile, WriteFileFails,
         EndExtract, EndLoop, ScriptFails, Success, RestoreFile, EndRestore, Discard, End,
         Crash, Goto, Abandon
    <3>2. T!Committed \/ T!RolledBack
      <4>1. CASE f_success
        BY <3>1, <4>1, CommittedWhenDone
      <4>2. CASE ~f_success
        BY <3>1, <4>2 DEF Back, T!RolledBack
      <4> QED BY <4>1, <4>2
    <3>3. Seen(node)' = Seen(node)
      BY <3>1 DEF Seen
    <3>4. T!End
      BY <2>2, <2>6, <3>1, <3>2, <3>3 DEF T!End
    <3> QED BY <3>4 DEF T!Next
  <2> QED BY <2>4, <2>5, <2>6
<1> QED BY <1>1, <1>2, <1>3 DEF Next

LEMMA InitRefines == ASSUME SoundLinks, Init PROVE T!Init /\ Progress
<1>1. BackupInv /\ Typed
  BY InvInit, SeenType
<1>2. /\ before = node /\ old = Empty /\ new = Empty /\ pc = "idle" /\ DOMAIN Empty = {}
  BY DEF Init, Empty
<1>3. Wanted = before
  BY <1>1, <1>2 DEF Wanted, BackupInv, TypeOK
<1> QED BY <1>1, <1>2, <1>3 DEF T!Init, Typed, Progress

(* The code implements Transaction: the end of each transaction is all of  *)
(* the new files or all of the old ones (AllOrNothing).                    *)
THEOREM Implements ==
    ASSUME SoundLinks, "restore" \notin Faults
    PROVE  Spec => AllOrNothing
<1>1. BackupInv => Typed
  BY SeenType
<1> QED
  BY <1>1, InvInit, NextInv, InitBack, NextBack, InitRefines, NextProgress, StepRefines, PTL
     DEF Spec, AllOrNothing, T!Spec
=============================================================================

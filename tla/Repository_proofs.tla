-------------------------- MODULE Repository_proofs --------------------------
(***************************************************************************)
(* For any repositories, packages, processes and faults: the indexes are   *)
(* what the repositories had, and --upgrade never lowers a version.  The   *)
(* versions it compares are those of Version.tla: strings of any length    *)
(* are read as compare() requires, their order is the same from both sides *)
(* and that of Debian, and the canonical string of a version is the same   *)
(* version, unless a number wraps around.                                  *)
(***************************************************************************)
EXTENDS Repository, Version, SequenceTheorems, WellFoundedInduction, TLAPS

(* Who has the lock, and what is still empty, at each place.               *)
LockOf(p) ==
    /\ pc[p] \in {"clear", "sources", "update", "validate", "install", "configure"} =>
            lock = p
    /\ pc[p] \in {"list", "read"} =>
            cmd[p] \in {"upgrade", "name"} /\ (lock = p <=> cmd[p] = "upgrade")
    /\ pc[p] \in {"idle", "lock", "relock"} => lock # p
    /\ pc[p] = "lock" => cmd[p] \in {"update", "upgrade"}
    /\ pc[p] = "relock" => cmd[p] \in {"upgrade", "name"}
    /\ pc[p] \in {"idle", "lock", "clear", "sources"} => f_update_index[p] = Empty
    /\ pc[p] \in {"idle", "lock", "clear", "sources", "update", "list"} =>
            f_packages[p] = {}

(* The entries of a list are numbered from 1, no number twice.             *)
Numbered(entries) ==
    /\ \E n \in Nat : Indexes(entries) = 1..n
    /\ \A u, w \in DOMAIN entries : entries[u].index = entries[w].index => u = w

(* The sources of a list that answered are those whose index was read, and *)
(* it is in the file of that number.                                       *)
Fits(entries, files_, read) ==
    /\ DOMAIN read = {u \in DOMAIN entries : entries[u].success}
    /\ \A u \in DOMAIN read :
        /\ entries[u].index \in DOMAIN files_
        /\ files_[entries[u].index] = read[u]

UpdateOf(p) ==
    /\ pc[p] = "sources" => torn /\ indexes = Empty /\ fetched = Empty
    /\ pc[p] = "update" =>
        torn /\ Numbered(f_update_index[p]) /\ Fits(f_update_index[p], indexes, fetched)

ListInv == ~torn /\ list # Missing => Fits(list, indexes, fetched)

Listed(uris, read) ==
    {d \in Deb : d.uri \in uris /\ <<d.package, d.version>> \in read[d.uri]}

(* What --upgrade has read so far is what was listed where it has read.    *)
ReadOf(p) ==
    lock = p /\ pc[p] = "read" =>
        /\ list # Missing /\ f_update_index[p] = list
        /\ unread[p] \subseteq {u \in DOMAIN list : list[u].success}
        /\ ~torn => f_packages[p] = Listed(DOMAIN fetched \ unread[p], fetched)

(* What is still to be installed raises a version or repeats it.           *)
Raises(d, now, held) ==
    LET v == now[d.package]
    IN  v # 0 => v <= d.version /\ (v = d.version \/ d.package \notin held)
UpgradeOf(p) ==
    pc[p] \in {"install", "configure"} /\ cmd[p] = "upgrade" =>
        /\ \A d \in files[p] : Raises(d, version, f_installed[p].hold)
        /\ \A d, e \in files[p] : d.package = e.package => d = e

Of(p) == LockOf(p) /\ UpdateOf(p) /\ ReadOf(p) /\ UpgradeOf(p)

RepositoryInv == TypeOK /\ ListInv /\ \A p \in Process : Of(p)

-----------------------------------------------------------------------------
(* What update_index() makes of the list: the numbers stay those of the    *)
(* entries there were, and a new entry has the next one.                   *)
LEMMA EntryAdded ==
    ASSUME NEW E, IndexList(E), Numbered(E), NEW u \in Uri, NEW ok \in BOOLEAN
    PROVE  LET F == WithEntry(E, u, ok)
           IN  /\ IndexList(F) /\ Numbered(F)
               /\ DOMAIN F = DOMAIN E \cup {u}
               /\ \A w \in DOMAIN E : F[w].index = E[w].index
               /\ \A w \in DOMAIN E \ {u} : F[w] = E[w]
               /\ F[u].success <=> ok \/ (u \in DOMAIN E /\ E[u].success)
<1> DEFINE F == WithEntry(E, u, ok)
<1>1. PICK n \in Nat : Indexes(E) = 1..n
  BY DEF Numbered
<1>2. MaxIndex(E) = n
  <2>1. {0} \cup Indexes(E) = 0..n
    BY <1>1
  <2>2. n \in 0..n /\ \A x \in 0..n : n >= x
    OBVIOUS
  <2>3. \A m \in 0..n : (\A x \in 0..n : m >= x) => m = n
    OBVIOUS
  <2> QED
    BY <2>1, <2>2, <2>3 DEF MaxIndex, Max
<1>3. DOMAIN F = DOMAIN E \cup {u}
  BY DEF WithEntry
<1>4. \A w \in DOMAIN E : E[w] \in [index : Nat, success : BOOLEAN]
  BY DEF IndexList
<1>5. \A w \in DOMAIN E \ {u} : F[w] = E[w]
  BY DEF WithEntry
<1>6. CASE u \in DOMAIN E
  <2>1. F[u] = [E[u] EXCEPT !.success = @ \/ ok]
    BY <1>6 DEF WithEntry
  <2>2. F[u] \in [index : Nat, success : BOOLEAN] /\ F[u].index = E[u].index
        /\ (F[u].success <=> ok \/ E[u].success)
    BY <2>1, <1>4, <1>6
  <2>3. \A w \in DOMAIN E : F[w].index = E[w].index
    BY <2>2, <1>5
  <2>4. DOMAIN F = DOMAIN E
    BY <1>3, <1>6
  <2>5. Indexes(F) = Indexes(E)
    BY <2>3, <2>4 DEF Indexes
  <2>6. Numbered(F)
    BY <2>3, <2>4, <2>5 DEF Numbered
  <2>7. IndexList(F)
    <3>1. \A w \in DOMAIN F : F[w] \in [index : Nat, success : BOOLEAN]
      BY <2>2, <2>4, <1>4, <1>5
    <3> QED
      BY <3>1, <2>4 DEF IndexList, WithEntry
  <2> QED
    BY <1>3, <1>5, <1>6, <2>2, <2>3, <2>6, <2>7
<1>7. CASE u \notin DOMAIN E
  <2>1. F[u] = [index |-> n + 1, success |-> ok]
    BY <1>2, <1>7 DEF WithEntry
  <2>2. \A w \in DOMAIN E : F[w] = E[w] /\ E[w].index \in 1..n
    BY <1>1, <1>5, <1>7 DEF Indexes
  <2>3. Indexes(F) = Indexes(E) \cup {n + 1}
    BY <1>3, <2>1, <2>2 DEF Indexes
  <2>4. Indexes(F) = 1..(n + 1)
    BY <1>1, <2>3
  <2>5. \A v, w \in DOMAIN F : F[v].index = F[w].index => v = w
    BY <1>3, <2>1, <2>2 DEF Numbered
  <2>6. Numbered(F)
    BY <2>4, <2>5 DEF Numbered
  <2>7. IndexList(F)
    <3>1. \A w \in DOMAIN F : F[w] \in [index : Nat, success : BOOLEAN]
      BY <1>3, <1>4, <2>1, <2>2
    <3> QED
      BY <3>1, <1>3 DEF IndexList, WithEntry
  <2> QED
    BY <1>3, <1>5, <1>7, <2>1, <2>2, <2>6, <2>7
<1> QED
  BY <1>6, <1>7

LEMMA StoreAdds ==
    ASSUME NEW I, NEW n, NEW content \in Offer,
           \A i \in DOMAIN I : I[i] \in Offer
    PROVE  /\ DOMAIN Store(I, n, content) = DOMAIN I \cup {n}
           /\ \A i \in DOMAIN Store(I, n, content) : Store(I, n, content)[i] \in Offer
  BY DEF Store

(* A list whose numbers differ still fits once an index is stored at one.  *)
LEMMA IndexStored ==
    ASSUME NEW E, Numbered(E), NEW F, Numbered(F), NEW u, NEW content,
           DOMAIN F = DOMAIN E \cup {u},
           \A w \in DOMAIN E : F[w].index = E[w].index,
           \A w \in DOMAIN E \ {u} : F[w] = E[w],
           F[u].success = TRUE,
           NEW I, NEW R, Fits(E, I, R)
    PROVE  Fits(F, Store(I, F[u].index, content), Store(R, u, content))
<1> DEFINE J == Store(I, F[u].index, content)
           S == Store(R, u, content)
<1>1. DOMAIN S = DOMAIN R \cup {u}
  BY DEF Store
<1>2. DOMAIN S = {w \in DOMAIN F : F[w].success}
  BY <1>1 DEF Fits
<1>3. F[u].index \in DOMAIN J /\ J[F[u].index] = content /\ S[u] = content
  BY DEF Store
<1>4. ASSUME NEW w \in DOMAIN R, w # u
      PROVE  F[w].index \in DOMAIN J /\ J[F[w].index] = S[w]
  <2>1. w \in DOMAIN E /\ F[w].index = E[w].index
    BY <1>4 DEF Fits
  <2>2. F[w].index # F[u].index
    BY <1>4, <2>1 DEF Numbered
  <2> QED
    BY <1>4, <2>1, <2>2 DEF Store, Fits
<1> QED
  BY <1>1, <1>2, <1>3, <1>4 DEF Fits

(* The packages of one index, each under the URI of its repository.        *)
LEMMA OfOneIndex ==
    ASSUME NEW u \in Uri, NEW C \in SUBSET (Package \X Version)
    PROVE  {[uri |-> u, package |-> o[1], version |-> o[2]] : o \in C} =
           {d \in Deb : d.uri = u /\ <<d.package, d.version>> \in C}
<1> DEFINE L == {[uri |-> u, package |-> o[1], version |-> o[2]] : o \in C}
           R == {d \in Deb : d.uri = u /\ <<d.package, d.version>> \in C}
<1>1. ASSUME NEW d \in L PROVE d \in R
  <2>1. PICK o \in C : d = [uri |-> u, package |-> o[1], version |-> o[2]]
    OBVIOUS
  <2>2. o \in Package \X Version
    OBVIOUS
  <2>3. o = <<o[1], o[2]>> /\ o[1] \in Package /\ o[2] \in Version
    BY <2>2
  <2> QED
    BY <2>1, <2>3 DEF Deb
<1>2. ASSUME NEW d \in R PROVE d \in L
  <2>1. d = [uri |-> u, package |-> d.package, version |-> d.version]
    BY DEF Deb
  <2>2. <<d.package, d.version>> \in C
    OBVIOUS
  <2> QED
    BY <2>1, <2>2
<1> QED
  BY <1>1, <1>2

-----------------------------------------------------------------------------
(* What is not of p does not change in a step of p, which changes what is  *)
(* shared only with the lock.                                              *)
Keeps(o) ==
    /\ pc'[o] = pc[o] /\ cmd'[o] = cmd[o]
    /\ f_update_index'[o] = f_update_index[o] /\ f_packages'[o] = f_packages[o]
    /\ f_installed'[o] = f_installed[o] /\ unread'[o] = unread[o] /\ files'[o] = files[o]
    /\ lock' = o <=> lock = o

LEMMA OthersKept ==
    ASSUME RepositoryInv, NEW o \in Process, Keeps(o),
           lock # o \/ UNCHANGED <<list, indexes, fetched, torn, version>>
    PROVE  Of(o)'
<1> USE DEF RepositoryInv, Keeps, Of
<1>1. LockOf(o)'
  BY DEF LockOf
<1>2. CASE lock # o
  BY <1>1, <1>2 DEF LockOf, UpdateOf, ReadOf, UpgradeOf
<1>3. CASE UNCHANGED <<list, indexes, fetched, torn, version>>
  <2>1. UpdateOf(o)'
    BY <1>3 DEF UpdateOf
  <2>2. ReadOf(o)'
    BY <1>3 DEF ReadOf
  <2>3. UpgradeOf(o)'
    BY <1>3 DEF UpgradeOf
  <2> QED
    BY <1>1, <2>1, <2>2, <2>3
<1> QED
  BY <1>2, <1>3

-----------------------------------------------------------------------------
LEMMA InvInit == ASSUME Init PROVE RepositoryInv
<1> USE DEF Init, Empty
<1>1. IndexList(Empty)
  BY DEF IndexList
<1>2. TypeOK
  <2>1. \A p \in Process : IndexList(f_update_index[p])
    BY <1>1
  <2>2. version \in [Package -> Version \cup {0}] /\ configured \subseteq Package
    BY BoundAssumption
  <2>3. \A i \in DOMAIN indexes : indexes[i] \in Offer
    OBVIOUS
  <2>4. DOMAIN fetched \subseteq Uri /\ \A u \in DOMAIN fetched : fetched[u] \in Offer
    OBVIOUS
  <2>5. changes \in 0..MaxChanges
    BY BoundAssumption
  <2>6. srcs \in [Process -> Seq(Uri)]
    OBVIOUS
  <2>7. /\ f_packages \in [Process -> SUBSET Deb] /\ unread \in [Process -> SUBSET Uri]
        /\ files \in [Process -> SUBSET Deb] /\ DOMAIN f_installed = Process
        /\ DOMAIN f_update_index = Process
    OBVIOUS
  <2>8. pc \in [Process -> Pc] /\ cmd \in [Process -> CommandNames \cup {"none"}]
    BY DEF Pc, CommandNames
  <2> QED
    BY <2>1, <2>2, <2>3, <2>4, <2>5, <2>6, <2>7, <2>8 DEF TypeOK
<1>3. \A p \in Process : Of(p)
  BY NobodyAssumption DEF Of, LockOf, UpdateOf, ReadOf, UpgradeOf
<1>4. ListInv
  BY DEF ListInv
<1> QED
  BY <1>2, <1>3, <1>4 DEF RepositoryInv

(* The end of a command, which leaves nothing that is of it.               *)
LEMMA ExitIsClean ==
    ASSUME RepositoryInv, NEW p \in Process, Exit(p)
    PROVE  /\ Of(p)'
           /\ \A o \in Process \ {p} : Keeps(o)
           /\ pc' \in [Process -> Pc] /\ cmd' \in [Process -> CommandNames \cup {"none"}]
           /\ lock' \in Process \cup {Nobody}
           /\ DOMAIN f_update_index' = Process
           /\ \A o \in Process : IndexList(f_update_index'[o])
           /\ f_packages' \in [Process -> SUBSET Deb] /\ DOMAIN f_installed' = Process
           /\ srcs' \in [Process -> Seq(Uri)] /\ unread' \in [Process -> SUBSET Uri]
           /\ files' \in [Process -> SUBSET Deb]
<1> USE NobodyAssumption DEF RepositoryInv, Exit
<1>1. IndexList(Empty)
  BY DEF IndexList, Empty
<1>2. pc'[p] = "idle" /\ f_update_index'[p] = Empty /\ f_packages'[p] = {} /\ lock' # p
  BY DEF TypeOK
<1>3. Of(p)'
  BY <1>2 DEF Of, LockOf, UpdateOf, ReadOf, UpgradeOf
<1>4. \A o \in Process \ {p} : Keeps(o)
  BY DEF TypeOK, Keeps
<1>5. pc' \in [Process -> Pc] /\ cmd' \in [Process -> CommandNames \cup {"none"}]
      /\ lock' \in Process \cup {Nobody}
  BY DEF TypeOK, Pc, CommandNames
<1>6. DOMAIN f_update_index' = Process
      /\ \A o \in Process : IndexList(f_update_index'[o])
  BY <1>1 DEF TypeOK
<1>7. f_packages' \in [Process -> SUBSET Deb] /\ DOMAIN f_installed' = Process
      /\ unread' \in [Process -> SUBSET Uri] /\ files' \in [Process -> SUBSET Deb]
  BY DEF TypeOK
<1>8. srcs' \in [Process -> Seq(Uri)]
  <2>1. <<>> \in Seq(Uri)
    OBVIOUS
  <2> QED
    BY <2>1 DEF TypeOK
<1> QED
  BY <1>3, <1>4, <1>5, <1>6, <1>7, <1>8

(* The commands that end, one way or another.                              *)
Ends(p) == Exit(p) /\ UNCHANGED <<sources, offers, disk, target, hold, history, changes>>

LEMMA InvEnds ==
    ASSUME RepositoryInv, NEW p \in Process, Ends(p) PROVE RepositoryInv'
<1> USE DEF RepositoryInv, Ends, disk, target, history
<1>1. \A o \in Process : Of(o)'
  BY ExitIsClean, OthersKept
<1>2. TypeOK'
  BY ExitIsClean DEF TypeOK
<1>3. ListInv'
  BY DEF ListInv
<1> QED
  BY <1>1, <1>2, <1>3

(* Starting and taking the lock.                                           *)
LEMMA InvStart ==
    ASSUME RepositoryInv, NEW p \in Process, NEW c \in Commands, Start(p, c)
    PROVE  RepositoryInv'
<1> USE NobodyAssumption, KindAssumption
        DEF RepositoryInv, Start, disk, target, memory, history
<1>1. /\ pc[p] = "idle" /\ lock' = lock /\ lock # p /\ cmd'[p] = c
      /\ c \in CommandNames /\ pc'[p] = IF c = "name" THEN "list" ELSE "lock"
      /\ f_update_index'[p] = Empty /\ f_packages'[p] = {}
  BY DEF TypeOK, Of, LockOf
<1>2. Of(p)'
  BY <1>1 DEF Of, LockOf, UpdateOf, ReadOf, UpgradeOf, CommandNames
<1>3. \A o \in Process \ {p} : Of(o)'
  <2>1. \A o \in Process \ {p} : Keeps(o)
    BY DEF TypeOK, Keeps
  <2> QED
    BY <2>1, OthersKept
<1>4. TypeOK'
  <2>1. pc' \in [Process -> Pc] /\ cmd' \in [Process -> CommandNames \cup {"none"}]
    BY DEF TypeOK, Pc
  <2> QED
    BY <2>1 DEF TypeOK
<1>5. ListInv'
  BY DEF ListInv
<1> QED
  BY <1>2, <1>3, <1>4, <1>5

LEMMA InvLock ==
    ASSUME RepositoryInv, NEW p \in Process, Lock(p) PROVE RepositoryInv'
<1> USE NobodyAssumption DEF RepositoryInv, Lock, Goto, disk, target, memory, history
<1>1. /\ lock = Nobody /\ lock' = p /\ cmd'[p] = cmd[p]
      /\ f_update_index'[p] = f_update_index[p] /\ f_packages'[p] = f_packages[p]
  BY DEF TypeOK
<1>2. \/ pc[p] = "relock" /\ pc'[p] = "validate"
      \/ pc[p] = "lock" /\ cmd[p] = "update" /\ pc'[p] = "clear"
      \/ pc[p] = "lock" /\ cmd[p] = "upgrade" /\ pc'[p] = "list"
  <2>1. CASE pc[p] = "relock"
    <3>1. cmd[p] # "update"
      BY <2>1 DEF Of, LockOf
    <3> QED
      BY <2>1, <3>1 DEF TypeOK
  <2>2. CASE pc[p] = "lock"
    <3>1. cmd[p] = "update" \/ cmd[p] = "upgrade"
      BY <2>2 DEF Of, LockOf
    <3>2. pc[p] # "relock"
      BY <2>2
    <3> QED
      BY <2>2, <3>1, <3>2 DEF TypeOK
  <2> QED
    BY <2>1, <2>2
<1>3. Of(p)'
  BY <1>1, <1>2 DEF Of, LockOf, UpdateOf, ReadOf, UpgradeOf
<1>4. \A o \in Process \ {p} : Of(o)'
  <2>1. \A o \in Process \ {p} : Keeps(o)
    BY <1>1 DEF TypeOK, Keeps
  <2> QED
    BY <2>1, OthersKept
<1>5. TypeOK'
  <2>1. pc' \in [Process -> Pc]
    BY <1>2 DEF TypeOK, Pc
  <2> QED
    BY <2>1 DEF TypeOK
<1>6. ListInv'
  BY DEF ListInv
<1> QED
  BY <1>3, <1>4, <1>5, <1>6

-----------------------------------------------------------------------------
(* --update.                                                               *)
LEMMA InvClear ==
    ASSUME RepositoryInv, NEW p \in Process, ClearIndexes(p) PROVE RepositoryInv'
<1> USE DEF RepositoryInv, ClearIndexes, Goto, target, memory
<1>1. lock = p
  BY DEF Of, LockOf
<1>2. Of(p)'
  BY <1>1 DEF TypeOK, Of, LockOf, UpdateOf, ReadOf, UpgradeOf
<1>3. \A o \in Process \ {p} : Of(o)'
  <2>1. \A o \in Process \ {p} : Keeps(o)
    BY DEF TypeOK, Keeps
  <2> QED
    BY <1>1, <2>1, OthersKept
<1>4. TypeOK'
  <2>1. pc' \in [Process -> Pc]
    BY DEF TypeOK, Pc
  <2>2. DOMAIN indexes' = {} /\ DOMAIN fetched' = {}
    BY DEF Empty
  <2> QED
    BY <2>1, <2>2 DEF TypeOK
<1>5. ListInv'
  BY DEF ListInv
<1> QED
  BY <1>2, <1>3, <1>4, <1>5

LEMMA InvReadSources ==
    ASSUME RepositoryInv, NEW p \in Process, ReadSources(p) PROVE RepositoryInv'
<1> USE DEF RepositoryInv, ReadSources, Goto, disk, target, history
<1>1. lock = p /\ torn /\ indexes = Empty /\ fetched = Empty /\ f_update_index[p] = Empty
  BY DEF Of, LockOf, UpdateOf
<1>2. Numbered(Empty) /\ Fits(Empty, Empty, Empty)
  <2>1. DOMAIN Empty = {}
    BY DEF Empty
  <2>2. Indexes(Empty) = 1..0
    BY <2>1 DEF Indexes
  <2> QED
    BY <2>1, <2>2 DEF Numbered, Fits
<1>3. Of(p)'
  BY <1>1, <1>2 DEF TypeOK, Of, LockOf, UpdateOf, ReadOf, UpgradeOf
<1>4. \A o \in Process \ {p} : Of(o)'
  <2>1. \A o \in Process \ {p} : Keeps(o)
    BY DEF TypeOK, Keeps
  <2> QED
    BY <1>1, <2>1, OthersKept
<1>5. TypeOK'
  <2>1. pc' \in [Process -> Pc]
    BY DEF TypeOK, Pc
  <2>2. srcs' \in [Process -> Seq(Uri)]
    BY ListingAssumption DEF TypeOK
  <2> QED
    BY <2>1, <2>2 DEF TypeOK
<1>6. ListInv'
  BY DEF ListInv
<1> QED
  BY <1>3, <1>4, <1>5, <1>6

(* One more source, whether its repository answers or not.                 *)
LEMMA InvUpdateIndex ==
    ASSUME RepositoryInv, NEW p \in Process, UpdateIndex(p) \/ UpdateFails(p)
    PROVE  RepositoryInv'
<1> DEFINE u == Head(srcs[p])
           E == f_update_index[p]
<1> USE DEF RepositoryInv, UpdateIndex, UpdateFails, disk, target, history
<1>1. /\ pc[p] = "update" /\ lock = p /\ torn
      /\ Numbered(E) /\ Fits(E, indexes, fetched) /\ IndexList(E)
  BY DEF TypeOK, Of, LockOf, UpdateOf
<1>2. u \in Uri /\ srcs' \in [Process -> Seq(Uri)]
  <2>1. srcs[p] \in Seq(Uri) /\ srcs[p] # <<>>
    BY DEF TypeOK
  <2>2. Head(srcs[p]) \in Uri /\ Tail(srcs[p]) \in Seq(Uri)
    BY <2>1
  <2> QED
    BY <2>2 DEF TypeOK
<1>3. \A o \in Process \ {p} : Of(o)'
  <2>1. \A o \in Process \ {p} : Keeps(o)
    BY DEF TypeOK, Keeps
  <2> QED
    BY <1>1, <2>1, OthersKept
<1>4. CASE UpdateIndex(p)
  <2> DEFINE F == WithEntry(E, u, TRUE)
  <2>1. /\ IndexList(F) /\ Numbered(F)
        /\ DOMAIN F = DOMAIN E \cup {u}
        /\ \A w \in DOMAIN E : F[w].index = E[w].index
        /\ \A w \in DOMAIN E \ {u} : F[w] = E[w]
        /\ F[u].success <=> TRUE \/ (u \in DOMAIN E /\ E[u].success)
    BY <1>1, <1>2, EntryAdded
  <2>2. /\ f_update_index'[p] = F
        /\ indexes' = Store(indexes, F[u].index, offers[u])
        /\ fetched' = Store(fetched, u, offers[u])
    BY <1>4 DEF TypeOK
  <2>3. F[u].success = TRUE
    <3>1. F[u] \in [index : Nat, success : BOOLEAN]
      BY <2>1 DEF IndexList
    <3> QED
      BY <2>1, <3>1
  <2>4. Fits(F, indexes', fetched')
    BY <1>1, <2>1, <2>2, <2>3, IndexStored
  <2>5. Of(p)'
    BY <1>1, <1>4, <2>1, <2>2, <2>4 DEF Of, LockOf, UpdateOf, ReadOf, UpgradeOf
  <2>6. TypeOK'
    <3>1. offers[u] \in Offer
      BY <1>2 DEF TypeOK
    <3>2. \A i \in DOMAIN indexes' : indexes'[i] \in Offer
      <4>1. PICK n : indexes' = Store(indexes, n, offers[u])
        BY <2>2
      <4>2. \A i \in DOMAIN indexes : indexes[i] \in Offer
        BY DEF TypeOK
      <4> QED
        BY <3>1, <4>1, <4>2, StoreAdds, Zenon
    <3>3. DOMAIN fetched' \subseteq Uri /\ \A w \in DOMAIN fetched' : fetched'[w] \in Offer
      <4>1. DOMAIN fetched \subseteq Uri /\ \A w \in DOMAIN fetched : fetched[w] \in Offer
        BY DEF TypeOK
      <4>2. PICK w \in Uri : fetched' = Store(fetched, w, offers[u])
        BY <1>2, <2>2
      <4>3. DOMAIN fetched' = DOMAIN fetched \cup {w}
            /\ \A i \in DOMAIN fetched' : fetched'[i] \in Offer
        BY <3>1, <4>1, <4>2, StoreAdds, Zenon
      <4> QED
        BY <4>1, <4>3
    <3>4. DOMAIN f_update_index' = Process
          /\ \A o \in Process : IndexList(f_update_index'[o])
      BY <1>4, <2>1, <2>2 DEF TypeOK
    <3> QED
      BY <1>2, <1>4, <3>2, <3>3, <3>4 DEF TypeOK
  <2>7. ListInv'
    BY <1>1, <1>4 DEF ListInv
  <2> QED
    BY <1>3, <2>5, <2>6, <2>7
<1>5. CASE UpdateFails(p)
  <2> DEFINE F == WithEntry(E, u, FALSE)
  <2>1. /\ IndexList(F) /\ Numbered(F)
        /\ DOMAIN F = DOMAIN E \cup {u}
        /\ \A w \in DOMAIN E : F[w].index = E[w].index
        /\ \A w \in DOMAIN E \ {u} : F[w] = E[w]
        /\ F[u].success <=> FALSE \/ (u \in DOMAIN E /\ E[u].success)
    BY <1>1, <1>2, EntryAdded
  <2>2. f_update_index'[p] = F /\ UNCHANGED <<indexes, fetched>>
    BY <1>5 DEF TypeOK
  <2>3. Fits(F, indexes, fetched)
    <3>1. {w \in DOMAIN F : F[w].success} = {w \in DOMAIN E : E[w].success}
      BY <2>1
    <3> QED
      BY <1>1, <2>1, <3>1 DEF Fits
  <2>4. Of(p)'
    BY <1>1, <1>5, <2>1, <2>2, <2>3 DEF Of, LockOf, UpdateOf, ReadOf, UpgradeOf
  <2>5. TypeOK'
    <3>1. DOMAIN f_update_index' = Process
          /\ \A o \in Process : IndexList(f_update_index'[o])
      BY <1>5, <2>1, <2>2 DEF TypeOK
    <3> QED
      BY <1>2, <1>5, <3>1 DEF TypeOK
  <2>6. ListInv'
    BY <1>1, <1>5 DEF ListInv
  <2> QED
    BY <1>3, <2>4, <2>5, <2>6
<1> QED
  BY <1>4, <1>5

LEMMA InvSave ==
    ASSUME RepositoryInv, NEW p \in Process, SaveIndexList(p) PROVE RepositoryInv'
<1> USE DEF RepositoryInv, SaveIndexList, target
<1>1. /\ lock = p /\ Fits(f_update_index[p], indexes, fetched) /\ IndexList(f_update_index[p])
  BY DEF TypeOK, Of, LockOf, UpdateOf
<1>2. \A o \in Process : Of(o)'
  BY <1>1, ExitIsClean, OthersKept
<1>3. TypeOK'
  BY <1>1, ExitIsClean DEF TypeOK
<1>4. ListInv'
  BY <1>1 DEF ListInv
<1> QED
  BY <1>2, <1>3, <1>4

-----------------------------------------------------------------------------
(* --upgrade and --install <name>.                                         *)
LEMMA InvLoad ==
    ASSUME RepositoryInv, NEW p \in Process, LoadIndexList(p) PROVE RepositoryInv'
<1> USE DEF RepositoryInv, LoadIndexList, Goto, disk, target, history
<1>1. /\ pc'[p] = "read" /\ cmd'[p] = cmd[p] /\ lock' = lock
      /\ f_update_index'[p] = list /\ f_packages'[p] = f_packages[p]
      /\ unread'[p] = {u \in DOMAIN list : list[u].success}
  BY DEF TypeOK
<1>2. cmd[p] \in {"upgrade", "name"} /\ (lock = p <=> cmd[p] = "upgrade") /\ f_packages[p] = {}
  BY DEF Of, LockOf
<1>3. LockOf(p)' /\ UpdateOf(p)' /\ UpgradeOf(p)'
  BY <1>1, <1>2 DEF LockOf, UpdateOf, UpgradeOf
<1>4. ReadOf(p)'
  <2>1. ~torn => DOMAIN fetched \ unread'[p] = {}
    BY <1>1 DEF ListInv, Fits
  <2>2. Listed({}, fetched) = {}
    BY DEF Listed
  <2> QED
    BY <1>1, <1>2, <2>1, <2>2 DEF ReadOf
<1>5. \A o \in Process \ {p} : Of(o)'
  <2>1. \A o \in Process \ {p} : Keeps(o)
    BY DEF TypeOK, Keeps
  <2> QED
    BY <2>1, OthersKept
<1>6. TypeOK'
  <2>1. IndexList(list)
    BY DEF TypeOK
  <2>2. unread'[p] \subseteq Uri
    BY <1>1, <2>1 DEF IndexList
  <2>3. pc' \in [Process -> Pc]
    BY DEF TypeOK, Pc
  <2>4. DOMAIN f_update_index' = Process
        /\ \A o \in Process : IndexList(f_update_index'[o])
    BY <2>1 DEF TypeOK
  <2>5. unread' \in [Process -> SUBSET Uri]
    BY <1>1, <2>2 DEF TypeOK
  <2> QED
    BY <2>3, <2>4, <2>5 DEF TypeOK
<1>7. ListInv'
  BY DEF ListInv
<1> QED
  BY <1>3, <1>4, <1>5, <1>6, <1>7 DEF Of

LEMMA InvUpgradeIndex ==
    ASSUME RepositoryInv, NEW p \in Process, UpgradeIndex(p) PROVE RepositoryInv'
<1> USE DEF RepositoryInv, disk, target, history
<1>1. PICK u \in NextUnread(p) :
        /\ f_update_index[p][u].index \in DOMAIN indexes
        /\ f_packages' = [f_packages EXCEPT ![p] = @ \cup
              {[uri |-> u, package |-> o[1], version |-> o[2]] :
                  o \in indexes[f_update_index[p][u].index]}]
        /\ unread' = [unread EXCEPT ![p] = @ \ {u}]
  BY DEF UpgradeIndex
<1>2. /\ pc[p] = "read"
      /\ UNCHANGED <<sources, offers, disk, target, hold, lock, pc, cmd, f_update_index,
                     f_installed, srcs, files, history, changes>>
  BY DEF UpgradeIndex
<1> DEFINE C == indexes[f_update_index[p][u].index]
           N == {d \in Deb : d.uri = u /\ <<d.package, d.version>> \in C}
<1>3. u \in unread[p] /\ u \in Uri
  BY DEF TypeOK, NextUnread
<1>4. C \in SUBSET (Package \X Version)
  BY <1>1, OfferAssumption DEF TypeOK
<1>5. f_packages'[p] = f_packages[p] \cup N /\ unread'[p] = unread[p] \ {u}
  <2>1. {[uri |-> u, package |-> o[1], version |-> o[2]] : o \in C} = N
    BY <1>3, <1>4, OfOneIndex
  <2> QED
    BY <1>1, <2>1 DEF TypeOK
<1>6. LockOf(p)' /\ UpdateOf(p)' /\ UpgradeOf(p)'
  BY <1>2 DEF Of, LockOf, UpdateOf, UpgradeOf
<1>7. ReadOf(p)'
  <2> SUFFICES ASSUME lock = p
               PROVE  ReadOf(p)'
    BY <1>2 DEF ReadOf
  <2>1. /\ list # Missing /\ f_update_index[p] = list
        /\ unread[p] \subseteq {w \in DOMAIN list : list[w].success}
        /\ ~torn => f_packages[p] = Listed(DOMAIN fetched \ unread[p], fetched)
    BY <1>2 DEF Of, ReadOf
  <2>2. CASE torn
    BY <1>2, <1>5, <2>1, <2>2 DEF ReadOf
  <2>3. CASE ~torn
    <3>1. u \in DOMAIN fetched /\ C = fetched[u]
      BY <1>2, <1>3, <2>1, <2>3 DEF ListInv, Fits
    <3>2. N = Listed({u}, fetched)
      BY <3>1 DEF Listed
    <3>3. DOMAIN fetched \ unread'[p] = (DOMAIN fetched \ unread[p]) \cup {u}
      BY <1>3, <1>5, <3>1
    <3>4. Listed(DOMAIN fetched \ unread[p], fetched) \cup Listed({u}, fetched)
            = Listed((DOMAIN fetched \ unread[p]) \cup {u}, fetched)
      BY DEF Listed
    <3>5. f_packages'[p] = Listed(DOMAIN fetched \ unread'[p], fetched)
      BY <1>5, <2>1, <2>3, <3>2, <3>3, <3>4
    <3> QED
      BY <1>2, <1>5, <2>1, <3>5 DEF ReadOf
  <2> QED
    BY <2>2, <2>3
<1>8. \A o \in Process \ {p} : Of(o)'
  <2>1. \A o \in Process \ {p} : Keeps(o)
    BY <1>1, <1>2 DEF TypeOK, Keeps
  <2> QED
    BY <1>2, <2>1, OthersKept
<1>9. TypeOK'
  <2>1. f_packages' \in [Process -> SUBSET Deb]
    <3>1. N \subseteq Deb
      OBVIOUS
    <3> QED
      BY <1>1, <1>5, <3>1 DEF TypeOK
  <2>2. unread' \in [Process -> SUBSET Uri]
    BY <1>1 DEF TypeOK
  <2> QED
    BY <1>2, <2>1, <2>2 DEF TypeOK
<1>10. ListInv'
  BY <1>2 DEF ListInv
<1> QED
  BY <1>6, <1>7, <1>8, <1>9, <1>10 DEF Of

(* The files to install are chosen.                                        *)
LEMMA InvChoose ==
    ASSUME RepositoryInv, NEW p \in Process, MarkUpgrades(p) \/ PickByName(p)
    PROVE  RepositoryInv'
<1> USE NobodyAssumption
    DEF RepositoryInv, MarkUpgrades, PickByName, Goto, Forget, disk, target, history
<1>1. /\ pc[p] = "read" /\ pc'[p] = "relock" /\ cmd'[p] = cmd[p]
      /\ cmd[p] \in {"upgrade", "name"} /\ f_update_index'[p] = Empty
      /\ UNCHANGED <<list, indexes, fetched, torn, version>>
  BY DEF TypeOK
<1>2. lock' # p
  BY <1>1 DEF Of, LockOf
<1>3. Of(p)'
  BY <1>1, <1>2 DEF Of, LockOf, UpdateOf, ReadOf, UpgradeOf
<1>4. \A o \in Process \ {p} : Of(o)'
  <2>1. \A o \in Process \ {p} : lock' = o <=> lock = o
    BY DEF Of, LockOf
  <2>2. \A o \in Process \ {p} : Keeps(o)
    BY <2>1 DEF TypeOK, Keeps
  <2> QED
    BY <1>1, <2>2, OthersKept
<1>5. TypeOK'
  <2>1. pc' \in [Process -> Pc]
    <3>1. pc \in [Process -> Pc] /\ "relock" \in Pc
      BY DEF TypeOK, Pc
    <3>2. pc' = [pc EXCEPT ![p] = "relock"]
      OBVIOUS
    <3> QED
      BY <3>1, <3>2
  <2>2. DOMAIN f_update_index' = Process
        /\ \A o \in Process : IndexList(f_update_index'[o])
    <3>1. IndexList(Empty)
      BY DEF IndexList, Empty
    <3> QED
      BY <3>1 DEF TypeOK
  <2>3. f_packages' \in [Process -> SUBSET Deb]
    BY DEF TypeOK
  <2>4. files' \in [Process -> SUBSET Deb]
    <3>1. f_packages[p] \subseteq Deb
      BY DEF TypeOK
    <3>2. CASE MarkUpgrades(p)
      BY <3>1, <3>2 DEF TypeOK
    <3>3. CASE PickByName(p)
      BY <3>1, <3>3 DEF TypeOK, Greatest
    <3> QED
      BY <3>2, <3>3
  <2> QED
    BY <2>1, <2>2, <2>3, <2>4 DEF TypeOK
<1>6. ListInv'
  BY DEF ListInv
<1> QED
  BY <1>3, <1>4, <1>5, <1>6

LEMMA InvValidate ==
    ASSUME RepositoryInv, NEW p \in Process, Validate(p) PROVE RepositoryInv'
<1> USE DEF RepositoryInv, Validate, Goto, disk, target, history
<1>1. /\ pc'[p] = "install" /\ cmd'[p] = cmd[p] /\ lock = p /\ lock' = p
      /\ files' = files /\ version' = version /\ f_installed'[p] = Known(p)
  BY DEF TypeOK, Of, LockOf
<1>2. UpgradeOf(p)'
  <2> SUFFICES ASSUME cmd[p] = "upgrade" PROVE UpgradeOf(p)'
    BY <1>1 DEF UpgradeOf
  <2>1. Known(p).version = version /\ Known(p).hold = hold
    BY DEF Known, InstalledNow
  <2>2. \A d \in files[p] : Raises(d, version, hold)
    BY <2>1 DEF Acceptable, Accepted, Raises
  <2>3. \A d, e \in files[p] : d.package = e.package => d = e
    BY DEF Acceptable
  <2> QED
    BY <1>1, <2>1, <2>2, <2>3 DEF UpgradeOf
<1>3. Of(p)'
  BY <1>1, <1>2 DEF Of, LockOf, UpdateOf, ReadOf
<1>4. \A o \in Process \ {p} : Of(o)'
  <2>1. \A o \in Process \ {p} : Keeps(o)
    BY DEF TypeOK, Keeps
  <2> QED
    BY <2>1, OthersKept
<1>5. TypeOK'
  <2>1. pc' \in [Process -> Pc]
    BY DEF TypeOK, Pc
  <2> QED
    BY <2>1 DEF TypeOK
<1>6. ListInv'
  BY DEF ListInv
<1> QED
  BY <1>3, <1>4, <1>5, <1>6

LEMMA InvUnpack ==
    ASSUME RepositoryInv, NEW p \in Process, Unpack(p) PROVE RepositoryInv'
<1> USE DEF RepositoryInv, Unpack, Goto, disk, memory, history
<1>1. PICK d \in files[p] :
        /\ version' = [version EXCEPT ![d.package] = d.version]
        /\ configured' = configured \ {d.package}
  OBVIOUS
<1>2. lock = p
  BY DEF Of, LockOf
<1>3. d \in Deb /\ d.package \in Package /\ d.version \in Version
  BY DEF TypeOK, Deb
<1>4. UpgradeOf(p)'
  <2> SUFFICES ASSUME cmd[p] = "upgrade" PROVE UpgradeOf(p)'
    BY DEF UpgradeOf
  <2>1. /\ \A e \in files[p] : Raises(e, version, f_installed[p].hold)
        /\ \A e, f \in files[p] : e.package = f.package => e = f
    BY DEF Of, UpgradeOf
  <2>2. ASSUME NEW e \in files[p] PROVE Raises(e, version', f_installed[p].hold)
    <3>1. CASE e = d
      <4>1. version'[e.package] = e.version /\ e.version \in Nat
        BY <1>1, <1>3, <3>1, VersionAssumption DEF TypeOK
      <4> QED
        BY <4>1 DEF Raises
    <3>2. CASE e # d
      <4>1. e.package # d.package
        BY <2>1, <3>2
      <4>2. version'[e.package] = version[e.package]
        BY <1>1, <4>1 DEF TypeOK
      <4> QED
        BY <2>1, <4>2 DEF Raises
    <3> QED
      BY <3>1, <3>2
  <2> QED
    BY <2>1, <2>2 DEF UpgradeOf
<1>5. Of(p)'
  BY <1>2, <1>4 DEF TypeOK, Of, LockOf, UpdateOf, ReadOf
<1>6. \A o \in Process \ {p} : Of(o)'
  <2>1. \A o \in Process \ {p} : Keeps(o)
    BY DEF TypeOK, Keeps
  <2> QED
    BY <1>2, <2>1, OthersKept
<1>7. TypeOK'
  <2>1. pc' \in [Process -> Pc]
    BY DEF TypeOK, Pc
  <2>2. version' \in [Package -> Version \cup {0}] /\ configured' \subseteq Package
    BY <1>1, <1>3 DEF TypeOK
  <2> QED
    BY <2>1, <2>2 DEF TypeOK
<1>8. ListInv'
  BY DEF ListInv
<1> QED
  BY <1>5, <1>6, <1>7, <1>8

LEMMA InvConfigure ==
    ASSUME RepositoryInv, NEW p \in Process, Configure(p) PROVE RepositoryInv'
<1> USE DEF RepositoryInv, Configure, Goto, disk, history
<1>1. files'[p] \subseteq files[p] /\ pc'[p] = "install" /\ cmd'[p] = cmd[p]
  BY DEF TypeOK
<1>2. UpgradeOf(p)'
  BY <1>1 DEF Of, UpgradeOf
<1>3. Of(p)'
  BY <1>1, <1>2 DEF Of, LockOf, UpdateOf, ReadOf
<1>4. \A o \in Process \ {p} : Of(o)'
  <2>1. \A o \in Process \ {p} : Keeps(o)
    BY DEF TypeOK, Keeps
  <2> QED
    BY <2>1, OthersKept
<1>5. TypeOK'
  <2>1. pc' \in [Process -> Pc]
    BY DEF TypeOK, Pc
  <2>2. files' \in [Process -> SUBSET Deb]
    BY DEF TypeOK
  <2>3. configured' \subseteq Package
    <3>1. \A d \in Unpacked(p) : d.package \in Package
      BY DEF TypeOK, Unpacked, Deb
    <3> QED
      BY <3>1 DEF TypeOK
  <2> QED
    BY <2>1, <2>2, <2>3 DEF TypeOK
<1>6. ListInv'
  BY DEF ListInv
<1> QED
  BY <1>3, <1>4, <1>5, <1>6

-----------------------------------------------------------------------------
(* The world around.                                                       *)
LEMMA InvWorld ==
    ASSUME RepositoryInv, EditSources \/ Publish \/ OtherCommand \/ SetSelection
    PROVE  RepositoryInv'
<1> USE DEF RepositoryInv, EditSources, Publish, OtherCommand, SetSelection,
            disk, memory, history
<1>1. \A o \in Process : Keeps(o)
  BY DEF Keeps
<1>2. \A o \in Process : lock # o \/ UNCHANGED <<list, indexes, fetched, torn, version>>
  BY NobodyAssumption DEF target
<1>3. \A o \in Process : Of(o)'
  BY <1>1, <1>2, OthersKept
<1>4. UNCHANGED <<list, indexes, fetched, torn, lock, pc, cmd, f_update_index, f_packages,
                  f_installed, srcs, unread, files>>
  OBVIOUS
<1>5. ListInv'
  BY <1>4 DEF ListInv
<1>6. TypeOK'
  <2>1. changes' \in 0..MaxChanges
    BY BoundAssumption DEF TypeOK
  <2>2. sources' \in Listing
    BY DEF TypeOK
  <2>3. offers' \in [Uri -> Offer]
    BY DEF TypeOK
  <2>4. hold' \subseteq Package
    BY DEF TypeOK
  <2>5. version' \in [Package -> Version \cup {0}] /\ configured' \subseteq Package
    BY DEF TypeOK, target
  <2> QED
    BY <1>4, <2>1, <2>2, <2>3, <2>4, <2>5 DEF TypeOK
<1> QED
  BY <1>3, <1>5, <1>6

-----------------------------------------------------------------------------
LEMMA InvNext == ASSUME RepositoryInv, [Next]_vars PROVE RepositoryInv'
<1>1. CASE EditSources \/ Publish \/ OtherCommand \/ SetSelection
  BY <1>1, InvWorld
<1>2. ASSUME NEW p \in Process, NEW c \in Commands, Start(p, c)
      PROVE  RepositoryInv'
  BY <1>2, InvStart
<1>3. ASSUME NEW p \in Process, Kill(p)
      PROVE  RepositoryInv'
  BY <1>3, InvEnds DEF Kill, Ends
<1>4. ASSUME NEW p \in Process, Step(p)
      PROVE  RepositoryInv'
  <2>1. CASE Lock(p)
    BY <2>1, InvLock
  <2>2. CASE Locked(p) \/ NoSources(p) \/ IndexNotWritten(p)
    BY <2>2, InvEnds DEF Locked, NoSources, IndexNotWritten, Ends
  <2>3. CASE ClearIndexes(p)
    BY <2>3, InvClear
  <2>4. CASE ReadSources(p)
    BY <2>4, InvReadSources
  <2>5. CASE UpdateIndex(p) \/ UpdateFails(p)
    BY <2>5, InvUpdateIndex
  <2>6. CASE SaveIndexList(p)
    BY <2>6, InvSave
  <2>7. CASE LoadIndexList(p)
    BY <2>7, InvLoad
  <2>8. CASE NoIndexList(p) \/ IndexMissing(p) \/ NothingToInstall(p)
    BY <2>8, InvEnds DEF NoIndexList, IndexMissing, NothingToInstall, Ends
  <2>9. CASE UpgradeIndex(p)
    BY <2>9, InvUpgradeIndex
  <2>10. CASE MarkUpgrades(p) \/ PickByName(p)
    BY <2>10, InvChoose
  <2>11. CASE Validate(p)
    BY <2>11, InvValidate
  <2>12. CASE Refused(p) \/ InstallFails(p) \/ Installed(p)
    BY <2>12, InvEnds DEF Refused, InstallFails, Installed, Ends
  <2>13. CASE Unpack(p)
    BY <2>13, InvUnpack
  <2>14. CASE Configure(p)
    BY <2>14, InvConfigure
  <2> QED
    BY <1>4, <2>1, <2>2, <2>3, <2>4, <2>5, <2>6, <2>7, <2>8, <2>9, <2>10, <2>11, <2>12,
       <2>13, <2>14 DEF Step
<1>5. CASE UNCHANGED vars
  <2>1. UNCHANGED <<list, indexes, fetched, torn, version>> /\ \A o \in Process : Keeps(o)
    BY <1>5 DEF vars, disk, target, memory, history, Keeps
  <2>2. \A o \in Process : Of(o)'
    BY <2>1, OthersKept
  <2>3. TypeOK' /\ ListInv'
    BY <1>5 DEF RepositoryInv, TypeOK, ListInv, vars, disk, target, memory, history
  <2> QED
    BY <2>2, <2>3 DEF RepositoryInv
<1> QED
  BY <1>1, <1>2, <1>3, <1>4, <1>5 DEF Next

THEOREM InvAlways == Spec => []RepositoryInv
<1>1. Init => RepositoryInv
  BY InvInit
<1>2. RepositoryInv /\ [Next]_vars => RepositoryInv'
  BY InvNext
<1> QED
  BY <1>1, <1>2, PTL DEF Spec

(* Every variable keeps its type, whatever the repositories publish.       *)
THEOREM TypeCorrect == Spec => []TypeOK
  BY InvAlways, PTL DEF RepositoryInv

(* After an update that came to its end, the indexes on the disk and what  *)
(* --upgrade makes of them are what the repositories had, each under its   *)
(* own URI: the numbers update_index() gives keep them apart.              *)
THEOREM IndexesArePublished == Spec => []ListIsPublished
<1>1. RepositoryInv => ListIsPublished
  <2> SUFFICES ASSUME RepositoryInv, ~torn PROVE ListIsPublished
    BY DEF ListIsPublished
  <2>1. ASSUME list # Missing
        PROVE  /\ DOMAIN fetched = {u \in DOMAIN list : list[u].success}
               /\ \A u \in DOMAIN fetched :
                   /\ list[u].index \in DOMAIN indexes
                   /\ indexes[list[u].index] = fetched[u]
    BY <2>1 DEF RepositoryInv, ListInv, Fits
  <2>2. ASSUME NEW p \in Process, lock = p, pc[p] = "read", unread[p] = {}
        PROVE  f_packages[p] = {d \in Deb : d.uri \in DOMAIN fetched
                                         /\ <<d.package, d.version>> \in fetched[d.uri]}
    <3>1. f_packages[p] = Listed(DOMAIN fetched, fetched)
      <4>1. DOMAIN fetched \ unread[p] = DOMAIN fetched
        BY <2>2
      <4> QED
        BY <2>2, <4>1 DEF RepositoryInv, Of, ReadOf
    <3> QED
      BY <3>1 DEF Listed
  <2> QED
    BY <2>1, <2>2 DEF ListIsPublished
<1> QED
  BY <1>1, InvAlways, PTL

(* No --upgrade lowers a version or touches what was on hold when it was   *)
(* validated, though the lock was free since the list was made: install()  *)
(* reads the target again.                                                 *)
THEOREM UpgradesOnlyRaise == Spec => UpgradeOnlyRaises
<1> DEFINE Rise ==
        \A p \in Process : lock = p /\ cmd[p] = "upgrade" =>
            \A q \in Package : version'[q] # version[q] =>
                /\ version'[q] > version[q]
                /\ version[q] # 0 => q \notin f_installed[p].hold
<1>1. ASSUME RepositoryInv, [Next]_vars PROVE version' = version \/ Rise
  <2> USE DEF RepositoryInv
  <2>1. CASE OtherCommand
    BY <2>1, NobodyAssumption DEF OtherCommand
  <2>2. ASSUME NEW o \in Process, Unpack(o) PROVE Rise
    <3> SUFFICES ASSUME NEW p \in Process, lock = p, cmd[p] = "upgrade",
                        NEW q \in Package, version'[q] # version[q]
                 PROVE  /\ version'[q] > version[q]
                        /\ version[q] # 0 => q \notin f_installed[p].hold
      OBVIOUS
    <3>1. o = p /\ pc[p] = "install"
      BY <1>1, <2>2, NobodyAssumption DEF Unpack, Of, LockOf
    <3>2. PICK d \in files[p] : version' = [version EXCEPT ![d.package] = d.version]
      BY <2>2, <3>1 DEF Unpack
    <3>3. q = d.package /\ version'[q] = d.version
      BY <1>1, <3>2 DEF TypeOK
    <3>4. Raises(d, version, f_installed[p].hold)
      BY <1>1, <3>1 DEF Of, UpgradeOf
    <3>5. d.version \in Nat \ {0} /\ version[q] \in Nat
      <4>1. d \in Deb /\ version[q] \in Version \cup {0}
        BY <1>1, <3>1 DEF TypeOK
      <4>2. d.version \in Version
        BY <4>1 DEF Deb
      <4>3. \A v \in Version : v \in Nat \ {0}
        BY VersionAssumption
      <4> QED
        BY <4>1, <4>2, <4>3
    <3> QED
      BY <3>3, <3>4, <3>5 DEF Raises
  <2>3. ASSUME NEW o \in Process, Step(o), ~Unpack(o) PROVE version' = version
    BY <2>3
    DEF Step, Lock, Locked, ClearIndexes, ReadSources, NoSources, UpdateIndex, UpdateFails,
        IndexNotWritten, SaveIndexList, LoadIndexList, NoIndexList, UpgradeIndex, IndexMissing,
        MarkUpgrades, PickByName, NothingToInstall, Validate, Refused, Configure, InstallFails,
        Installed, target
  <2>4. ASSUME NEW o \in Process, NEW c \in Commands, Start(o, c) PROVE version' = version
    BY <2>4 DEF Start, target
  <2>5. ASSUME NEW o \in Process, Kill(o) PROVE version' = version
    BY <2>5 DEF Kill, target
  <2>6. CASE EditSources \/ Publish \/ SetSelection
    BY <2>6 DEF EditSources, Publish, SetSelection, target
  <2>7. CASE UNCHANGED vars
    BY <2>7 DEF vars, target
  <2> QED
    BY <1>1, <2>1, <2>2, <2>3, <2>4, <2>5, <2>6, <2>7 DEF Next
<1>2. ASSUME RepositoryInv, [Next]_vars PROVE [Rise]_version
  BY <1>1, <1>2
<1> QED
  BY <1>2, InvAlways, PTL DEF Spec, UpgradeOnlyRaises

-----------------------------------------------------------------------------
(* The order of the versions that an upgrade compares.                     *)

Opposite(x, y) == x \in -1..1 /\ y = -x

LEMMA SignOpposite ==
    ASSUME NEW m \in Int, NEW n \in Int
    PROVE  Opposite(Sign(m - n), Sign(n - m))
BY DEF Opposite, Sign

(* Least() is an element that is not larger than the others.               *)
LEMMA LeastIs ==
    ASSUME NEW S \in SUBSET Nat, S # {}
    PROVE  Least(S) \in S /\ \A j \in S : Least(S) <= j
<1> DEFINE Less == {ss \in Nat \X Nat : ss[1] < ss[2]}
<1>1. IsWellFoundedOn(Less, Nat)
  BY NatLessThanWellFounded DEF OpToRel
<1>2. PICK m \in S : \A k \in S : <<k, m>> \notin Less
  <2> HIDE DEF Less
  <2> QED
    BY <1>1, WFMin
<1>3. \A k \in S : m <= k
  <2> SUFFICES ASSUME NEW k \in S, k < m
               PROVE  FALSE
    OBVIOUS
  <2>1. <<k, m>> \in Nat \X Nat /\ <<k, m>>[1] < <<k, m>>[2]
    OBVIOUS
  <2>2. <<k, m>> \in Less
    BY <2>1, Zenon
  <2> QED
    BY <1>2, <2>2
<1> QED
  BY <1>2, <1>3 DEF Least

(* Every character of a string, and its end, has a rank.                   *)
LEMMA RankIsInt ==
    ASSUME NEW s \in Seq(TextChar), NEW i \in Nat \ {0}
    PROVE  Rank(s, i) \in Int
<1>1. CASE i > Len(s)
  BY <1>1 DEF Rank
<1>2. CASE i <= Len(s)
  <2>1. s[i] \in TextChar
    BY <1>2
  <2>2. DOMAIN Letters \subseteq Int /\ DOMAIN Signs \subseteq Int
    BY DEF Letters, Signs
  <2>3. CASE s[i] = "~"
    BY <1>2, <2>3 DEF Rank
  <2>4. CASE s[i] # "~" /\ s[i] \in Image(Letters)
    <3>1. \E n \in DOMAIN Letters : Letters[n] = s[i]
      BY <2>4 DEF Image
    <3>2. (CHOOSE n \in DOMAIN Letters : Letters[n] = s[i]) \in Int
      BY <3>1, <2>2
    <3> QED
      BY <1>2, <2>4, <3>2 DEF Rank
  <2>5. CASE s[i] # "~" /\ s[i] \notin Image(Letters)
    <3>1. \E n \in DOMAIN Signs : Signs[n] = s[i]
      BY <2>1, <2>5 DEF Image, TextChar
    <3>2. (CHOOSE n \in DOMAIN Signs : Signs[n] = s[i]) \in Int
      BY <3>1, <2>2
    <3> QED
      BY <1>2, <2>5, <3>2 DEF Rank
  <2> QED
    BY <2>3, <2>4, <2>5
<1> QED
  BY <1>1, <1>2

LEMMA ShorterIsSame ==
    ASSUME NEW T, NEW s \in Seq(T), NEW t \in Seq(T)
    PROVE  /\ Shorter(s, t) = Shorter(t, s)
           /\ Shorter(s, t) \in Nat
           /\ Shorter(s, t) <= Len(s) /\ Shorter(s, t) <= Len(t)
BY DEF Shorter

(* Two strings differ first at the same place whichever is asked.          *)
LEMMA TextOpposite ==
    ASSUME NEW s \in Seq(TextChar), NEW t \in Seq(TextChar)
    PROVE  Opposite(TextCompare(s, t), TextCompare(t, s))
<1> DEFINE n      == Shorter(s, t)
           unlike == {i \in 1..n : Rank(s, i) # Rank(t, i)}
           at     == IF unlike = {} THEN n + 1 ELSE Least(unlike)
<1>1. n = Shorter(t, s) /\ n \in Nat
  BY ShorterIsSame
<1>2. unlike = {i \in 1..n : Rank(t, i) # Rank(s, i)}
  OBVIOUS
<1>3. at \in Nat \ {0}
  <2>1. CASE unlike = {}
    BY <1>1, <2>1
  <2>2. CASE unlike # {}
    <3>1. unlike \in SUBSET Nat
      BY <1>1
    <3>2. Least(unlike) \in unlike
      BY <2>2, <3>1, LeastIs
    <3> HIDE DEF n
    <3> QED
      BY <1>1, <2>2, <3>2
  <2> QED
    BY <2>1, <2>2
<1>4. Rank(s, at) \in Int /\ Rank(t, at) \in Int
  BY <1>3, RankIsInt
<1>5. TextCompare(s, t) = Sign(Rank(s, at) - Rank(t, at))
  BY DEF TextCompare
<1>6. TextCompare(t, s) = Sign(Rank(t, at) - Rank(s, at))
  BY <1>1, <1>2 DEF TextCompare
<1> QED
  BY <1>4, <1>5, <1>6, SignOpposite

Part == [str : Seq(TextChar), val : Nat \cup {-1}]

LEMMA PartOpposite ==
    ASSUME NEW a \in Part, NEW b \in Part, a.val = -1 <=> b.val = -1
    PROVE  Opposite(PartCompare(a, b), PartCompare(b, a))
<1>1. CASE a.val = -1
  BY <1>1, TextOpposite DEF Part, PartCompare
<1>2. CASE a.val # -1
  <2>1. a.val \in Int /\ b.val \in Int
    BY DEF Part
  <2>2. Opposite(Sign(a.val - b.val), Sign(b.val - a.val))
    BY <2>1, SignOpposite
  <2> QED
    BY <1>2, <2>2 DEF PartCompare
<1> QED
  BY <1>1, <1>2

(* Only one of two lists can be longer, so that the order in which their   *)
(* ends are looked at does not matter.                                     *)
LEMMA OneIsLonger ==
    ASSUME NEW a \in PartList, NEW b \in PartList
    PROVE  ~(Longer(a, Shorter(a, b)) /\ Longer(b, Shorter(a, b)))
BY DEF PartList, Longer, Shorter

LEMMA PartsOpposite ==
    ASSUME NEW a \in PartList, NEW b \in PartList
    PROVE  Opposite(PartsCompare(a, b), PartsCompare(b, a))
<1> DEFINE n      == Shorter(a, b)
           unlike == {i \in 1..n : PartCompare(a[i], b[i]) # 0}
<1>1. /\ n = Shorter(b, a) /\ n \in Nat
      /\ \A i \in 1..n : a[i] \in Part /\ b[i] \in Part
                         /\ (a[i].val = -1 <=> b[i].val = -1)
  <2>1. a \in Seq(Part) /\ b \in Seq(Part)
    BY DEF PartList, Part
  <2>2. n = Shorter(b, a) /\ n \in Nat /\ n <= Len(a) /\ n <= Len(b)
    BY <2>1, ShorterIsSame
  <2>3. \A i \in 1..n : i \in DOMAIN a /\ i \in DOMAIN b
    <3> HIDE DEF n
    <3> QED
      BY <2>1, <2>2
  <2> HIDE DEF n
  <2> QED
    BY <2>1, <2>2, <2>3 DEF PartList
<1>2. \A i \in 1..n : Opposite(PartCompare(a[i], b[i]), PartCompare(b[i], a[i]))
  BY <1>1, PartOpposite
<1>3. unlike = {i \in 1..n : PartCompare(b[i], a[i]) # 0}
  <2> HIDE DEF n
  <2> QED
    BY <1>2 DEF Opposite
<1>4. CASE unlike # {}
  <2>1. Least(unlike) \in 1..n
    <3>1. unlike \in SUBSET Nat
      BY <1>1
    <3>2. Least(unlike) \in unlike
      BY <1>4, <3>1, LeastIs
    <3> QED
      BY <3>2
  <2>2. PartsCompare(a, b) = PartCompare(a[Least(unlike)], b[Least(unlike)])
    BY <1>4 DEF PartsCompare
  <2>3. PartsCompare(b, a) = PartCompare(b[Least(unlike)], a[Least(unlike)])
    BY <1>1, <1>3, <1>4 DEF PartsCompare
  <2> QED
    BY <1>2, <2>1, <2>2, <2>3
<1>5. CASE unlike = {}
  <2>1. PartsCompare(a, b) = IF Longer(a, n) THEN 1 ELSE IF Longer(b, n) THEN -1 ELSE 0
    BY <1>5 DEF PartsCompare
  <2>2. PartsCompare(b, a) = IF Longer(b, n) THEN 1 ELSE IF Longer(a, n) THEN -1 ELSE 0
    BY <1>1, <1>3, <1>5 DEF PartsCompare
  <2> QED
    BY <2>1, <2>2, OneIsLonger DEF Opposite
<1> QED
  BY <1>4, <1>5

(* compare() of two versions, whatever their epochs, parts and revisions,  *)
(* is the opposite of compare() of the exchanged ones.                     *)
THEOREM OrderIsAntisymmetric ==
    ASSUME NEW v \in ParsedVersion, NEW w \in ParsedVersion
    PROVE  Opposite(Compare(v, w), Compare(w, v))
<1>1. Opposite(PartsCompare(v.version, w.version), PartsCompare(w.version, v.version))
  BY PartsOpposite DEF ParsedVersion
<1>2. Opposite(PartsCompare(v.revision, w.revision), PartsCompare(w.revision, v.revision))
  BY PartsOpposite DEF ParsedVersion
<1>3. Opposite(Sign(v.epoch - w.epoch), Sign(w.epoch - v.epoch))
  <2>1. v.epoch \in Int /\ w.epoch \in Int
    BY DEF ParsedVersion
  <2> QED
    BY <2>1, SignOpposite
<1> QED
  BY <1>1, <1>2, <1>3 DEF Compare, Opposite

-----------------------------------------------------------------------------
(* Least(), Most() and recursion: what the lemmas about strings rest on.   *)

(* Most() is the largest element.                                          *)
LEMMA MostIs ==
    ASSUME NEW N \in Nat, NEW S \in SUBSET (1..N), S # {}
    PROVE  Most(S) \in S /\ \A j \in S : j <= Most(S)
<1> DEFINE T == {n \in 0..N : N - n \in S}
<1>1. T \in SUBSET Nat /\ T # {}
  <2>1. PICK j \in S : TRUE
    OBVIOUS
  <2>2. N - j \in 0..N /\ N - (N - j) = j
    OBVIOUS
  <2>3. N - j \in T
    BY <2>2
  <2>4. T \in SUBSET Nat
    OBVIOUS
  <2> HIDE DEF T
  <2> QED BY <2>3, <2>4
<1>2. Least(T) \in T /\ \A j \in T : Least(T) <= j
  <2> HIDE DEF T
  <2> QED BY <1>1, LeastIs
<1> DEFINE m == N - Least(T)
<1>3. m \in S /\ \A j \in S : j <= m
  <2>1. \A j \in S : N - j \in T
    <3> TAKE j \in S
    <3>1. N - j \in 0..N /\ N - (N - j) = j
      OBVIOUS
    <3> QED BY <3>1
  <2>2. Least(T) \in 0..N /\ m \in S
    BY <1>2
  <2>3. \A j \in S : Least(T) <= N - j
    <3> HIDE DEF T
    <3> QED BY <1>2, <2>1
  <2> HIDE DEF T
  <2> QED BY <2>2, <2>3
<1> HIDE DEF m
<1> QED BY <1>3 DEF Most

(* What holds at 0 and is kept by each step up to N holds up to N.         *)
LEMMA UpTo ==
    ASSUME NEW N \in Nat, NEW T, 0 \in T, \A n \in Nat : n < N /\ n \in T => n + 1 \in T
    PROVE  \A n \in 0..N : n \in T
<1> DEFINE F == {n \in 0..N : n \notin T}
<1> SUFFICES ASSUME F # {} PROVE FALSE
  OBVIOUS
<1>1. Least(F) \in F /\ \A j \in F : Least(F) <= j
  <2>1. F \in SUBSET Nat
    OBVIOUS
  <2> HIDE DEF F
  <2> QED BY <2>1, LeastIs
<1>2. PICK n \in F : \A j \in F : n <= j
  <2> HIDE DEF F
  <2> QED BY <1>1
<1>3. n \in 0..N /\ n \notin T /\ n # 0
  OBVIOUS
<1>4. n - 1 \in 0..N /\ n - 1 < n
  BY <1>3
<1>5. n - 1 \in T
  BY <1>2, <1>4
<1>6. n - 1 < N /\ (n - 1) + 1 = n /\ n - 1 \in Nat
  BY <1>3
<1> QED BY <1>3, <1>5, <1>6

(* What holds of a number whenever it holds of the smaller ones holds.     *)
LEMMA Descent ==
    ASSUME NEW T, \A n \in Nat : (\A k \in Nat : k < n => k \in T) => n \in T
    PROVE  Nat \subseteq T
<1> DEFINE F == {n \in Nat : n \notin T}
<1> SUFFICES ASSUME F # {} PROVE FALSE
  OBVIOUS
<1>1. Least(F) \in F /\ \A j \in F : Least(F) <= j
  <2>1. F \in SUBSET Nat
    OBVIOUS
  <2> HIDE DEF F
  <2> QED BY <2>1, LeastIs
<1>2. PICK n \in F : \A j \in F : n <= j
  <2> HIDE DEF F
  <2> QED BY <1>1
<1>3. \A k \in Nat : k < n => k \in T
  BY <1>2
<1> QED BY <1>3

(* What holds of the empty string and of whatever a character is added to  *)
(* holds of every string.                                                  *)
LEMMA StringByString ==
    ASSUME NEW S, NEW T, <<>> \in T,
           \A s \in Seq(S), c \in S : s \in T => Append(s, c) \in T
    PROVE  Seq(S) \subseteq T
<1> SUFFICES ASSUME NEW s \in Seq(S) PROVE s \in T
  OBVIOUS
<1> DEFINE U == {n \in 0..Len(s) : SubSeq(s, 1, n) \in T}
<1>1. Len(s) \in Nat /\ SubSeq(s, 1, 0) = <<>> /\ SubSeq(s, 1, Len(s)) = s
  OBVIOUS
<1>2. 0 \in U
  <2>1. SubSeq(s, 1, 0) \in T
    BY <1>1, Zenon
  <2>2. 0 \in 0..Len(s)
    OBVIOUS
  <2> QED BY <2>1, <2>2
<1>3. ASSUME NEW n \in Nat, n < Len(s), n \in U PROVE n + 1 \in U
  <2>1. SubSeq(s, 1, n) \in Seq(S) /\ s[n + 1] \in S
    BY <1>1, <1>3
  <2>2. Append(SubSeq(s, 1, n), s[n + 1]) = SubSeq(s, 1, n + 1)
    BY <1>1, <1>3
  <2>3. n + 1 \in 0..Len(s)
    BY <1>1, <1>3
  <2> QED BY <1>3, <2>1, <2>2, <2>3
<1>4. \A n \in 0..Len(s) : n \in U
  <2> HIDE DEF U
  <2>1. \A n \in Nat : n < Len(s) /\ n \in U => n + 1 \in U
    BY <1>3
  <2>2. Len(s) \in Nat
    OBVIOUS
  <2> QED BY ONLY <1>2, <2>1, <2>2, UpTo
<1>5. SubSeq(s, 1, Len(s)) \in T
  <2>1. Len(s) \in 0..Len(s)
    OBVIOUS
  <2> QED BY <1>4, <2>1
<1> QED BY <1>1, <1>5, Zenon

(* A function whose values are made from earlier ones exists.              *)
Recursive(N, S, first, prev, step) ==
    /\ N \in Nat /\ first \in S /\ step \in [1..N -> [S -> S]]
    /\ prev \in [1..N -> Nat] /\ \A m \in 1..N : prev[m] < m

LEMMA Recursion ==
    ASSUME NEW N, NEW S, NEW first, NEW prev, NEW step, Recursive(N, S, first, prev, step)
    PROVE  \E f \in [0..N -> S] : f[0] = first /\ \A m \in 1..N : f[m] = step[m][f[prev[m]]]
<1>0. /\ N \in Nat /\ first \in S /\ step \in [1..N -> [S -> S]]
      /\ prev \in [1..N -> Nat] /\ \A m \in 1..N : prev[m] < m
  BY DEF Recursive
<1> DEFINE Made(l) == \E f \in [0..l -> S] :
                        f[0] = first /\ \A m \in 1..l : f[m] = step[m][f[prev[m]]]
           T == {l \in 0..N : Made(l)}
<1>1. 0 \in T
  <2> DEFINE f == [m \in 0..0 |-> first]
  <2>1. f \in [0..0 -> S] /\ f[0] = first /\ 1..0 = {}
    BY <1>0
  <2> HIDE DEF f
  <2>2. Made(0)
    BY <2>1
  <2> HIDE DEF Made
  <2> QED BY <1>0, <2>2
<1>2. ASSUME NEW l \in Nat, l < N, l \in T PROVE l + 1 \in T
  <2>1. PICK f \in [0..l -> S] : f[0] = first /\ \A m \in 1..l : f[m] = step[m][f[prev[m]]]
    BY <1>0, <1>2
  <2>2. prev[l + 1] \in 0..l /\ l + 1 \in 1..N
    BY <1>0, <1>2
  <2>7. PICK x \in S : x = step[l + 1][f[prev[l + 1]]]
    BY <1>0, <2>1, <2>2
  <2> DEFINE h == [m \in 0..l + 1 |-> IF m = l + 1 THEN x ELSE f[m]]
  <2>3. h \in [0..l + 1 -> S] /\ h[0] = first
    BY <1>0, <2>1
  <2>4. ASSUME NEW m \in 1..l + 1 PROVE h[m] = step[m][h[prev[m]]]
    <3>1. m \in 1..N /\ prev[m] \in Nat /\ prev[m] < m
      BY <1>0, <1>2
    <3>2. CASE m = l + 1
      <4>1. h[prev[m]] = f[prev[m]] /\ h[m] = x
        BY <1>0, <1>2, <2>2, <3>1, <3>2
      <4> HIDE DEF h
      <4> QED BY <2>7, <3>2, <4>1
    <3>3. CASE m # l + 1
      <4>1. m \in 1..l /\ h[m] = f[m] /\ h[prev[m]] = f[prev[m]]
        BY <1>0, <1>2, <3>1, <3>3
      <4> QED BY <2>1, <4>1
    <3> QED BY <3>2, <3>3
  <2> HIDE DEF h
  <2>5. Made(l + 1)
    BY <2>3, <2>4
  <2> HIDE DEF Made
  <2> QED BY <1>0, <1>2, <2>5
<1>3. N \in T
  <2> HIDE DEF T
  <2>1. \A n \in Nat : n < N /\ n \in T => n + 1 \in T
    BY <1>0, <1>2
  <2>2. N \in 0..N
    BY <1>0
  <2> QED BY <1>0, <1>1, <2>1, <2>2, UpTo
<1> QED BY <1>3

-----------------------------------------------------------------------------
(* string_to_parts(), as what each character does to the parts.            *)

(* A part as it is read, and the parts with one more character.            *)
Cell == [str : Seq(TextChar), val : Int]
Grow(parts, c) ==
    IF Digit(c) THEN AddDigit(parts, Len(parts) % 2 = 1, Value(c))
    ELSE AddChar(parts, Len(parts) % 2 = 1, c)

LEMMA Characters ==
    ASSUME NEW c \in Char
    PROVE  /\ Digit(c) => Value(c) \in 0..9 /\ c = Digits[1 + Value(c)]
           /\ ~Digit(c) => c \in TextChar
<1>1. DOMAIN Digits = 1..10
  BY DEF Digits
<1>2. ASSUME Digit(c) PROVE Value(c) \in 0..9 /\ c = Digits[1 + Value(c)]
  <2>1. \E i \in DOMAIN Digits : Digits[i] = c
    BY <1>2 DEF Digit, Image
  <2> DEFINE i == CHOOSE i \in DOMAIN Digits : Digits[i] = c
  <2>2. i \in 1..10 /\ Digits[i] = c
    BY <1>1, <2>1
  <2>3. Value(c) = i - 1
    BY DEF Value
  <2> HIDE DEF i
  <2>4. Value(c) \in 0..9 /\ 1 + Value(c) = i
    BY <2>2, <2>3
  <2> QED BY <2>2, <2>4
<1>3. ~Digit(c) => c \in TextChar
  BY DEF Char, TextChar, Digit
<1> QED BY <1>2, <1>3

LEMMA WrapIs ==
    ASSUME NEW n \in Int
    PROVE  Wrap(n) \in Int /\ Wrap(n) <= MaxInt /\ (n \in 0..MaxInt => Wrap(n) = n)
BY MaxIntAssumption DEF Wrap

LEMMA GrowIs ==
    ASSUME NEW p \in Seq(Cell), NEW c \in Char
    PROVE  Grow(p, c) \in Seq(Cell) /\ Grow(p, c) # <<>>
<1>1. ASSUME Digit(c) PROVE Grow(p, c) \in Seq(Cell) /\ Grow(p, c) # <<>>
  <2>1. Value(c) \in Int
    BY <1>1, Characters
  <2>2. TextPart(<<>>) \in Cell /\ NumberPart(Value(c)) \in Cell
    BY <2>1 DEF TextPart, NumberPart, Cell
  <2>3. CASE p = <<>>
    BY <1>1, <2>2, <2>3 DEF Grow, AddDigit
  <2>4. CASE p # <<>> /\ Len(p) % 2 = 1
    BY <1>1, <2>2, <2>4 DEF Grow, AddDigit
  <2>5. CASE p # <<>> /\ Len(p) % 2 # 1
    <3>1. Front(p) \in Seq(Cell) /\ Last(p) \in Cell
      BY <2>5 DEF Front, Last
    <3>2. Last(p).val * 10 + Value(c) \in Int
      BY <2>1, <3>1 DEF Cell
    <3>3. NumberPart(Wrap(Last(p).val * 10 + Value(c))) \in Cell
      BY <3>2, WrapIs DEF NumberPart, Cell
    <3> QED BY <1>1, <2>5, <3>1, <3>3 DEF Grow, AddDigit
  <2> QED BY <2>3, <2>4, <2>5
<1>2. ASSUME ~Digit(c) PROVE Grow(p, c) \in Seq(Cell) /\ Grow(p, c) # <<>>
  <2>1. c \in TextChar
    BY <1>2, Characters
  <2>2. TextPart(<<c>>) \in Cell
    BY <2>1 DEF TextPart, Cell
  <2>3. CASE Len(p) % 2 = 1
    <3>1. Front(p) \in Seq(Cell) /\ Last(p) \in Cell
      <4>1. Len(p) \in Nat /\ Len(p) # 0
        BY <2>3
      <4> QED BY <4>1 DEF Front, Last
    <3>2. TextPart(Append(Last(p).str, c)) \in Cell
      BY <2>1, <3>1 DEF TextPart, Cell
    <3> QED BY <1>2, <2>3, <3>1, <3>2 DEF Grow, AddChar
  <2>4. CASE Len(p) % 2 # 1
    <3>1. Append(p, TextPart(<<c>>)) \in Seq(Cell) /\ Append(p, TextPart(<<c>>)) # <<>>
      BY <2>2
    <3> QED BY <1>2, <2>4, <3>1 DEF Grow, AddChar
  <2> QED BY <2>3, <2>4
<1> QED BY <1>1, <1>2

LEMMA PartsMade ==
    ASSUME NEW s \in Seq(Char)
    PROVE  \E f \in [0..Len(s) -> Seq(Cell)] :
              /\ f[0] = <<>> /\ Parts(s) = f[Len(s)]
              /\ \A n \in 1..Len(s) : f[n] = Grow(f[n - 1], s[n])
<1> DEFINE N == Len(s)
           step == [m \in 1..N |-> [p \in Seq(Cell) |-> Grow(p, s[m])]]
           prev == [m \in 1..N |-> m - 1]
           values(d) == [n \in 0..N |->
                            IF n = 0 THEN <<>>
                            ELSE LET parts == d[n - 1]
                                     odd   == Len(parts) % 2 = 1
                                 IN  IF Digit(s[n]) THEN AddDigit(parts, odd, Value(s[n]))
                                     ELSE AddChar(parts, odd, s[n])]
           all == CHOOSE d : d = values(d)
<1>1. N \in Nat /\ <<>> \in Seq(Cell)
  OBVIOUS
<1>2. step \in [1..N -> [Seq(Cell) -> Seq(Cell)]]
  <2>1. ASSUME NEW m \in 1..N, NEW p \in Seq(Cell) PROVE Grow(p, s[m]) \in Seq(Cell)
    <3>1. s[m] \in Char
      OBVIOUS
    <3> QED BY <3>1, GrowIs
  <2> QED BY <2>1
<1>3. prev \in [1..N -> Nat] /\ \A m \in 1..N : prev[m] < m
  BY <1>1
<1>4. PICK f \in [0..N -> Seq(Cell)] :
          f[0] = <<>> /\ \A m \in 1..N : f[m] = step[m][f[prev[m]]]
  <2> HIDE DEF N, step, prev
  <2>1. Recursive(N, Seq(Cell), <<>>, prev, step)
    BY <1>1, <1>2, <1>3 DEF Recursive
  <2> QED BY <2>1, Recursion
<1>5. \A m \in 1..N : f[m] = Grow(f[m - 1], s[m])
  <2> TAKE m \in 1..N
  <2>1. m - 1 \in 0..N /\ prev[m] = m - 1
    BY <1>1
  <2>2. f[m - 1] \in Seq(Cell)
    BY <1>4, <2>1
  <2>3. step[m] = [p \in Seq(Cell) |-> Grow(p, s[m])]
    OBVIOUS
  <2>4. f[m] = step[m][f[m - 1]]
    <3> HIDE DEF step, prev
    <3> QED BY <1>4, <2>1
  <2> QED BY <2>2, <2>3, <2>4
<1>6. f = values(f)
  <2>1. \A n \in 0..N : f[n] = values(f)[n]
    <3> TAKE n \in 0..N
    <3>1. CASE n = 0
      BY <1>4, <3>1
    <3>2. CASE n # 0
      <4>1. n \in 1..N
        BY <1>1, <3>2
      <4> QED BY <1>5, <3>2, <4>1 DEF Grow
    <3> QED BY <3>1, <3>2
  <2>2. values(f) = [n \in 0..N |-> values(f)[n]] /\ f = [n \in 0..N |-> f[n]]
    BY <1>4
  <2> HIDE DEF values
  <2> QED BY <2>1, <2>2
<1>7. all = values(all)
  <2> HIDE DEF values
  <2> QED BY <1>6
<1>8. Parts(s) = all[N]
  BY DEF Parts
<1>9. /\ all[0] = <<>> /\ \A m \in 1..N : all[m] = Grow(all[m - 1], s[m])
      /\ all = [n \in 0..N |-> all[n]]
  <2>1. \A n \in 0..N : all[n] = values(all)[n]
    <3> HIDE DEF values, all
    <3> QED BY <1>7
  <2>2. all = [n \in 0..N |-> all[n]]
    <3>1. \A d : values(d) = [n \in 0..N |-> values(d)[n]]
      OBVIOUS
    <3> HIDE DEF values, all
    <3> QED BY <1>7, <3>1
  <2> HIDE DEF all
  <2>3. values(all)[0] = <<>>
    BY <1>1
  <2>4. \A m \in 1..N : values(all)[m] = Grow(all[m - 1], s[m])
    BY <1>1 DEF Grow
  <2>5. all[0] = <<>>
    <3>1. 0 \in 0..N
      BY <1>1
    <3> HIDE DEF values
    <3> QED BY <2>1, <2>3, <3>1
  <2>6. \A m \in 1..N : all[m] = Grow(all[m - 1], s[m])
    <3> TAKE m \in 1..N
    <3>1. m \in 0..N
      OBVIOUS
    <3> HIDE DEF values
    <3> QED BY <2>1, <2>4, <3>1
  <2> QED BY <2>2, <2>5, <2>6
<1> HIDE DEF all
<1>10. \A n \in 0..N : all[n] \in Seq(Cell)
  <2> DEFINE T == {n \in 0..N : all[n] \in Seq(Cell)}
  <2>1. 0 \in T
    <3>1. 0 \in 0..N /\ all[0] \in Seq(Cell)
      BY <1>1, <1>9
    <3> QED BY <3>1
  <2>2. \A n \in Nat : n < N /\ n \in T => n + 1 \in T
    <3> SUFFICES ASSUME NEW n \in Nat, n < N, n \in T PROVE n + 1 \in T
      OBVIOUS
    <3>1. n + 1 \in 1..N /\ n + 1 \in 0..N /\ (n + 1) - 1 = n /\ s[n + 1] \in Char
      BY <1>1
    <3>2. all[n + 1] = Grow(all[n], s[n + 1])
      BY <1>9, <3>1
    <3> QED BY <3>1, <3>2, GrowIs
  <2>3. \A n \in 0..N : n \in T
    <3> HIDE DEF T, N
    <3> QED BY <1>1, <2>1, <2>2, UpTo
  <2> QED BY <2>3
<1> QED BY <1>8, <1>9, <1>10

LEMMA PartsEmpty == Parts(<<>>) = <<>>
<1>1. <<>> \in Seq(Char) /\ Len(<<>>) = 0
  OBVIOUS
<1> QED BY <1>1, PartsMade

LEMMA PartsAppend ==
    ASSUME NEW s \in Seq(Char), NEW c \in Char
    PROVE  Parts(Append(s, c)) = Grow(Parts(s), c)
<1> DEFINE t == Append(s, c)
           N == Len(s)
<1>1. t \in Seq(Char) /\ Len(t) = N + 1 /\ t[N + 1] = c /\ N \in Nat /\ \A n \in 1..N : t[n] = s[n]
  OBVIOUS
<1>2. PICK f \in [0..N -> Seq(Cell)] :
          /\ f[0] = <<>> /\ Parts(s) = f[N]
          /\ \A n \in 1..N : f[n] = Grow(f[n - 1], s[n])
  BY PartsMade
<1>3. PICK g \in [0..N + 1 -> Seq(Cell)] :
          /\ g[0] = <<>> /\ Parts(t) = g[N + 1]
          /\ \A n \in 1..N + 1 : g[n] = Grow(g[n - 1], t[n])
  <2> HIDE DEF t
  <2>1. \E g \in [0..Len(t) -> Seq(Cell)] :
              /\ g[0] = <<>> /\ Parts(t) = g[Len(t)]
              /\ \A n \in 1..Len(t) : g[n] = Grow(g[n - 1], t[n])
    BY <1>1, PartsMade
  <2> QED BY <1>1, <2>1
<1> HIDE DEF t, N
<1>4. \A n \in 0..N : f[n] = g[n]
  <2> DEFINE T == {n \in 0..N : f[n] = g[n]}
  <2>1. 0 \in T
    BY <1>1, <1>2, <1>3
  <2>2. \A n \in Nat : n < N /\ n \in T => n + 1 \in T
    <3> SUFFICES ASSUME NEW n \in Nat, n < N, n \in T PROVE n + 1 \in T
      OBVIOUS
    <3>1. n + 1 \in 1..N /\ n + 1 \in 1..N + 1 /\ (n + 1) - 1 = n /\ n + 1 \in 0..N
      BY <1>1
    <3> QED BY <1>1, <1>2, <1>3, <3>1
  <2>3. \A n \in 0..N : n \in T
    <3> HIDE DEF T
    <3> QED BY <1>1, <2>1, <2>2, UpTo
  <2> QED BY <2>3
<1>5. f[N] = g[N] /\ g[N + 1] = Grow(g[N], c)
  <2>1. N \in 0..N /\ N + 1 \in 1..N + 1 /\ (N + 1) - 1 = N
    BY <1>1
  <2> QED BY <1>1, <1>3, <1>4, <2>1
<1> QED BY <1>2, <1>3, <1>5 DEF t

LEMMA PartsType ==
    ASSUME NEW s \in Seq(Char)
    PROVE  Parts(s) \in Seq(Cell)
<1>1. Len(s) \in 0..Len(s)
  OBVIOUS
<1> QED BY <1>1, PartsMade

(* The parts that one more character leaves, one by one.                   *)
Same(p, q, n) == \A i \in 1..n : q[i] = p[i]

LEMMA ReplaceLast ==
    ASSUME NEW p \in Seq(Cell), p # <<>>, NEW x \in Cell
    PROVE  LET q == Append(Front(p), x)
           IN  q \in Seq(Cell) /\ Len(q) = Len(p) /\ Same(p, q, Len(p) - 1) /\ q[Len(p)] = x
<1>1. Len(p) \in Nat /\ Len(p) # 0
  OBVIOUS
<1>2. /\ Front(p) \in Seq(Cell) /\ Len(Front(p)) = Len(p) - 1
      /\ \A i \in 1..Len(p) - 1 : Front(p)[i] = p[i]
  <2> DEFINE n == Len(p) - 1
  <2>1. n \in Nat /\ n = Len(p) - 1 /\ n < Len(p)
    BY <1>1
  <2> HIDE DEF n
  <2>2. SubSeq(p, 1, n) \in Seq(Cell) /\ Len(SubSeq(p, 1, n)) = n
    BY <1>1, <2>1
  <2>3. \A i \in 1..n : SubSeq(p, 1, n)[i] = p[i]
    BY <1>1, <2>1
  <2>4. Front(p) = SubSeq(p, 1, n)
    BY <2>1 DEF Front
  <2> QED BY <2>1, <2>2, <2>3, <2>4
<1> QED BY <1>1, <1>2 DEF Same

LEMMA AddLast ==
    ASSUME NEW p \in Seq(Cell), NEW x \in Cell
    PROVE  LET q == Append(p, x)
           IN  q \in Seq(Cell) /\ Len(q) = Len(p) + 1 /\ Same(p, q, Len(p)) /\ q[Len(p) + 1] = x
BY DEF Same

LEMMA GrowDigit ==
    ASSUME NEW p \in Seq(Cell), NEW c \in Char, Digit(c)
    PROVE  LET g == Grow(p, c)
               L == Len(p)
           IN  /\ L = 0 => g = <<TextPart(<<>>), NumberPart(Value(c))>>
               /\ L % 2 = 1 => Len(g) = L + 1 /\ Same(p, g, L) /\ g[L + 1] = NumberPart(Value(c))
               /\ L # 0 /\ L % 2 = 0 =>
                    /\ Len(g) = L /\ Same(p, g, L - 1)
                    /\ g[L] = NumberPart(Wrap(p[L].val * 10 + Value(c)))
<1> DEFINE L == Len(p)
<1>1. L \in Nat /\ (L = 0 <=> p = <<>>)
  OBVIOUS
<1>2. Value(c) \in 0..9
  BY Characters
<1>3. CASE L = 0
  BY <1>1, <1>3 DEF Grow, AddDigit
<1>4. CASE L % 2 = 1
  <2>1. NumberPart(Value(c)) \in Cell
    BY <1>2 DEF NumberPart, Cell
  <2>2. Grow(p, c) = Append(p, NumberPart(Value(c))) /\ L # 0
    BY <1>1, <1>4 DEF Grow, AddDigit
  <2> QED BY <1>4, <2>1, <2>2, AddLast
<1>5. CASE L # 0 /\ L % 2 = 0
  <2> DEFINE x == NumberPart(Wrap(p[L].val * 10 + Value(c)))
  <2>1. x \in Cell
    <3>1. p[L] \in Cell
      BY <1>1, <1>5
    <3>2. p[L].val * 10 + Value(c) \in Int
      BY <1>2, <3>1 DEF Cell
    <3>3. \A n \in Int : NumberPart(n) \in Cell
      BY DEF NumberPart, Cell
    <3> QED BY <3>2, <3>3, WrapIs
  <2>2. Grow(p, c) = Append(Front(p), x)
    BY <1>1, <1>5 DEF Grow, AddDigit, Last
  <2> HIDE DEF x
  <2>3. LET q == Append(Front(p), x)
        IN  q \in Seq(Cell) /\ Len(q) = Len(p) /\ Same(p, q, Len(p) - 1) /\ q[Len(p)] = x
    BY <1>1, <1>5, <2>1, ReplaceLast
  <2> QED BY <1>5, <2>2, <2>3 DEF x
<1> QED BY <1>1, <1>3, <1>4, <1>5

LEMMA GrowText ==
    ASSUME NEW p \in Seq(Cell), NEW c \in Char, ~Digit(c)
    PROVE  LET g == Grow(p, c)
               L == Len(p)
           IN  /\ L % 2 = 1 =>
                    /\ Len(g) = L /\ Same(p, g, L - 1)
                    /\ g[L] = TextPart(Append(p[L].str, c))
               /\ L % 2 = 0 => Len(g) = L + 1 /\ Same(p, g, L) /\ g[L + 1] = TextPart(<<c>>)
<1> DEFINE L == Len(p)
<1>1. L \in Nat /\ (L = 0 <=> p = <<>>)
  OBVIOUS
<1>2. c \in TextChar
  BY Characters
<1>3. CASE L % 2 = 0
  <2>1. TextPart(<<c>>) \in Cell
    BY <1>2 DEF TextPart, Cell
  <2>2. Grow(p, c) = Append(p, TextPart(<<c>>))
    BY <1>1, <1>3 DEF Grow, AddChar
  <2> QED BY <1>3, <2>1, <2>2, AddLast
<1>4. CASE L % 2 = 1
  <2> DEFINE x == TextPart(Append(p[L].str, c))
  <2>1. x \in Cell
    <3>1. p[L] \in Cell
      BY <1>1, <1>4
    <3> QED BY <1>2, <3>1 DEF TextPart, Cell
  <2>2. Grow(p, c) = Append(Front(p), x) /\ p # <<>>
    BY <1>1, <1>4 DEF Grow, AddChar, Last
  <2> HIDE DEF x
  <2>3. LET q == Append(Front(p), x)
        IN  q \in Seq(Cell) /\ Len(q) = Len(p) /\ Same(p, q, Len(p) - 1) /\ q[Len(p)] = x
    BY <2>1, <2>2, ReplaceLast
  <2> QED BY <1>4, <2>2, <2>3 DEF x
<1> QED BY <1>1, <1>3, <1>4

LEMMA ImageAppend ==
    ASSUME NEW S, NEW s \in Seq(S), NEW c
    PROVE  Image(Append(s, c)) = Image(s) \cup {c}
<1> DEFINE t == Append(s, c)
<1>1. DOMAIN t = 1..Len(s) + 1 /\ Len(s) \in Nat /\ DOMAIN s = 1..Len(s)
  OBVIOUS
<1>2. t[Len(s) + 1] = c /\ \A i \in 1..Len(s) : t[i] = s[i]
  OBVIOUS
<1> HIDE DEF t
<1>3. Image(t) \subseteq Image(s) \cup {c}
  <2> SUFFICES ASSUME NEW i \in 1..Len(s) + 1 PROVE t[i] \in Image(s) \cup {c}
    BY <1>1 DEF Image
  <2>1. i \in 1..Len(s) \/ i = Len(s) + 1
    BY <1>1
  <2> QED BY <1>1, <1>2, <2>1 DEF Image
<1>4. Image(s) \subseteq Image(t)
  <2> SUFFICES ASSUME NEW i \in 1..Len(s) PROVE s[i] \in Image(t)
    BY <1>1 DEF Image
  <2>1. i \in 1..Len(s) + 1
    BY <1>1
  <2> QED BY <1>1, <1>2, <2>1 DEF Image
<1>5. c \in Image(t)
  <2>1. Len(s) + 1 \in 1..Len(s) + 1
    BY <1>1
  <2> QED BY <1>1, <1>2, <2>1 DEF Image
<1> QED BY <1>3, <1>4, <1>5 DEF t

(* What string_to_parts() makes of any string: strings and numbers in      *)
(* turn, where only the first string may be empty.                         *)
OddPart(p, i)  == p[i].val = -1 /\ (i > 1 => p[i].str # <<>>)
EvenPart(p, i) == p[i].str = <<>> /\ (p[i].val \in 0..9 \/ p[i].val <= MaxInt)
Shaped ==
    {p \in Seq(Cell) :
        /\ \A i \in DOMAIN p : IF i % 2 = 1 THEN OddPart(p, i) ELSE EvenPart(p, i)
        /\ Len(p) = 1 => p[1].str # <<>>}

LEMMA GrowShaped ==
    ASSUME NEW p \in Shaped, NEW c \in Char
    PROVE  Grow(p, c) \in Shaped
<1> DEFINE L == Len(p)
           g == Grow(p, c)
<1>1. /\ p \in Seq(Cell) /\ L \in Nat /\ DOMAIN p = 1..L
      /\ \A i \in 1..L : IF i % 2 = 1 THEN OddPart(p, i) ELSE EvenPart(p, i)
      /\ L = 1 => p[1].str # <<>>
  BY DEF Shaped
<1>2. g \in Seq(Cell)
  BY <1>1, GrowIs
<1> SUFFICES /\ \A i \in 1..Len(g) : IF i % 2 = 1 THEN OddPart(g, i) ELSE EvenPart(g, i)
             /\ Len(g) = 1 => g[1].str # <<>>
  <2> HIDE DEF g
  <2>1. DOMAIN g = 1..Len(g)
    BY <1>2
  <2>2. g \in Shaped
    BY <1>2, <2>1 DEF Shaped
  <2> QED BY <2>2 DEF g
<1>3. ASSUME NEW i \in 1..L, g[i] = p[i]
      PROVE  IF i % 2 = 1 THEN OddPart(g, i) ELSE EvenPart(g, i)
  <2> HIDE DEF g
  <2> QED BY <1>1, <1>3 DEF OddPart, EvenPart
<1>4. \A d \in Int : NumberPart(d) = [str |-> <<>>, val |-> d]
  BY DEF NumberPart
<1>5. \A s : TextPart(s) = [str |-> s, val |-> -1]
  BY DEF TextPart
<1>6. CASE Digit(c)
  <2>0. Value(c) \in 0..9
    BY <1>6, Characters
  <2>1. CASE L = 0
    <3>1. g = <<TextPart(<<>>), NumberPart(Value(c))>>
      BY <1>1, <1>6, <2>1, GrowDigit
    <3>2. Len(g) = 2 /\ g[1] = TextPart(<<>>) /\ g[2] = NumberPart(Value(c))
      BY <3>1
    <3> HIDE DEF g
    <3>3. OddPart(g, 1) /\ EvenPart(g, 2)
      BY <1>4, <1>5, <2>0, <3>2 DEF OddPart, EvenPart
    <3> QED BY <3>2, <3>3
  <2>2. CASE L % 2 = 1
    <3>1. Len(g) = L + 1 /\ Same(p, g, L) /\ g[L + 1] = NumberPart(Value(c))
      BY <1>1, <1>6, <2>2, GrowDigit
    <3> HIDE DEF g, L
    <3>2. EvenPart(g, L + 1)
      BY <1>4, <2>0, <3>1 DEF EvenPart
    <3>3. (L + 1) % 2 # 1 /\ Len(g) # 1
      BY <1>1, <2>2, <3>1
    <3> QED BY <1>1, <1>3, <3>1, <3>2, <3>3 DEF Same
  <2>3. CASE L # 0 /\ L % 2 = 0
    <3>1. /\ Len(g) = L /\ Same(p, g, L - 1)
          /\ g[L] = NumberPart(Wrap(p[L].val * 10 + Value(c)))
      BY <1>1, <1>6, <2>3, GrowDigit
    <3>2. Wrap(p[L].val * 10 + Value(c)) \in Int /\ Wrap(p[L].val * 10 + Value(c)) <= MaxInt
      <4>1. p[L] \in Cell
        BY <1>1, <2>3
      <4>2. p[L].val * 10 + Value(c) \in Int
        BY <2>0, <4>1 DEF Cell
      <4> QED BY <4>2, WrapIs
    <3> HIDE DEF g, L
    <3>3. EvenPart(g, L)
      BY <1>4, <3>1, <3>2 DEF EvenPart
    <3> QED BY <1>1, <1>3, <2>3, <3>1, <3>3 DEF Same
  <2> QED BY <1>1, <2>1, <2>2, <2>3
<1>7. CASE ~Digit(c)
  <2>1. CASE L % 2 = 1
    <3>1. Len(g) = L /\ Same(p, g, L - 1) /\ g[L] = TextPart(Append(p[L].str, c))
      BY <1>1, <1>7, <2>1, GrowText
    <3>2. p[L] \in Cell /\ p[L].str \in Seq(TextChar)
      <4>1. L \in 1..L
        BY <1>1, <2>1
      <4>2. p[L] \in Cell
        BY <1>1, <4>1
      <4> QED BY <4>2 DEF Cell
    <3>3. Append(p[L].str, c) # <<>>
      BY <3>2, <1>7, Characters
    <3> HIDE DEF g, L
    <3>4. OddPart(g, L) /\ g[L].str # <<>>
      <4>1. g[L].str = Append(p[L].str, c) /\ g[L].val = -1
        BY <3>1 DEF TextPart
      <4> QED BY <3>3, <4>1 DEF OddPart
    <3> QED BY <1>1, <1>3, <2>1, <3>1, <3>4 DEF Same
  <2>2. CASE L % 2 = 0
    <3>1. Len(g) = L + 1 /\ Same(p, g, L) /\ g[L + 1] = TextPart(<<c>>)
      BY <1>1, <1>7, <2>2, GrowText
    <3> HIDE DEF g, L
    <3>2. OddPart(g, L + 1) /\ g[L + 1].str # <<>>
      <4>1. g[L + 1].val = -1 /\ g[L + 1].str = <<c>>
        BY <1>5, <3>1
      <4>2. <<c>> # <<>>
        OBVIOUS
      <4> QED BY <4>1, <4>2 DEF OddPart
    <3>3. (L + 1) % 2 = 1
      BY <1>1, <2>2
    <3> QED BY <1>1, <1>3, <3>1, <3>2, <3>3 DEF Same
  <2> QED BY <1>1, <2>1, <2>2
<1> QED BY <1>6, <1>7

LEMMA PartsShaped ==
    ASSUME NEW s \in Seq(Char)
    PROVE  Parts(s) \in Shaped
<1> DEFINE T == {t \in Seq(Char) : Parts(t) \in Shaped}
<1>1. <<>> \in T
  <2>1. <<>> \in Seq(Char) /\ <<>> \in Shaped
    BY DEF Shaped
  <2> QED BY <2>1, PartsEmpty
<1>2. \A t \in Seq(Char), c \in Char : t \in T => Append(t, c) \in T
  BY PartsAppend, GrowShaped
<1>3. Seq(Char) \subseteq T
  <2> HIDE DEF T
  <2> QED BY <1>1, <1>2, StringByString
<1> QED BY <1>3

(* The characters of the strings are those of what was read.               *)
LEMMA PartsHold ==
    ASSUME NEW s \in Seq(Char)
    PROVE  \A i \in DOMAIN Parts(s) : Image(Parts(s)[i].str) \subseteq Image(s)
<1> DEFINE Held(t) == \A i \in DOMAIN Parts(t) : Image(Parts(t)[i].str) \subseteq Image(t)
           T == {t \in Seq(Char) : Held(t)}
<1>1. <<>> \in T
  <2>1. <<>> \in Seq(Char) /\ DOMAIN Parts(<<>>) = {}
    BY PartsEmpty
  <2>2. Held(<<>>)
    BY <2>1
  <2> HIDE DEF Held
  <2> QED BY <2>1, <2>2
<1>2. ASSUME NEW t \in Seq(Char), NEW c \in Char, t \in T PROVE Append(t, c) \in T
  <2> DEFINE p == Parts(t)
             g == Grow(p, c)
             L == Len(p)
  <2>1. p \in Seq(Cell) /\ g \in Seq(Cell) /\ L \in Nat
    BY PartsType, GrowIs
  <2>2. Image(t) \subseteq Image(Append(t, c)) /\ c \in Image(Append(t, c))
    <3>1. c = Append(t, c)[Len(t) + 1] /\ Len(t) + 1 \in DOMAIN Append(t, c)
      OBVIOUS
    <3>2. \A i \in DOMAIN t : t[i] = Append(t, c)[i] /\ i \in DOMAIN Append(t, c)
      OBVIOUS
    <3> QED BY <3>1, <3>2 DEF Image
  <2>3. \A i \in 1..L : Image(p[i].str) \subseteq Image(t)
    BY <1>2, <2>1
  <2>4. Image(<<>>) = {}
    BY DEF Image
  <2>5. \A i \in 1..L : g[i] = p[i] => Image(g[i].str) \subseteq Image(Append(t, c))
    <3> HIDE DEF g, p, L
    <3> QED BY <2>2, <2>3
  <2>6. ASSUME NEW i \in 1..Len(g) PROVE Image(g[i].str) \subseteq Image(Append(t, c))
    <3>1. CASE Digit(c)
      <4>1. (i \in 1..L /\ g[i] = p[i]) \/ g[i].str = <<>>
        <5>1. CASE L = 0
          <6>1. g = <<TextPart(<<>>), NumberPart(Value(c))>>
            BY <2>1, <3>1, <5>1, GrowDigit
          <6>2. Len(g) = 2 /\ g[1].str = <<>> /\ g[2].str = <<>>
            BY <6>1 DEF TextPart, NumberPart
          <6> HIDE DEF g
          <6> QED BY <6>2
        <5>2. CASE L % 2 = 1
          <6>1. Len(g) = L + 1 /\ Same(p, g, L) /\ g[L + 1] = NumberPart(Value(c))
            BY <2>1, <3>1, <5>2, GrowDigit
          <6> HIDE DEF g, p, L
          <6> QED BY <2>1, <6>1 DEF Same, NumberPart
        <5>3. CASE L # 0 /\ L % 2 = 0
          <6>1. /\ Len(g) = L /\ Same(p, g, L - 1)
                /\ g[L] = NumberPart(Wrap(p[L].val * 10 + Value(c)))
            BY <2>1, <3>1, <5>3, GrowDigit
          <6> HIDE DEF g, p, L
          <6> QED BY <2>1, <6>1 DEF Same, NumberPart
        <5> QED BY <2>1, <5>1, <5>2, <5>3
      <4> HIDE DEF g, p, L
      <4> QED BY <2>4, <2>5, <4>1
    <3>2. CASE ~Digit(c)
      <4>1. CASE L % 2 = 1
        <5>1. Len(g) = L /\ Same(p, g, L - 1) /\ g[L] = TextPart(Append(p[L].str, c))
          BY <2>1, <3>2, <4>1, GrowText
        <5>2. p[L].str \in Seq(TextChar) /\ L \in 1..L
          <6>1. L \in 1..L
            <7> HIDE DEF L
            <7> QED BY <2>1, <4>1
          <6>2. p[L] \in Cell
            BY <2>1, <6>1
          <6> QED BY <6>1, <6>2 DEF Cell
        <5>3. Image(Append(p[L].str, c)) = Image(p[L].str) \cup {c}
          BY <5>2, ImageAppend
        <5> HIDE DEF g, p, L
        <5>4. Image(g[L].str) \subseteq Image(Append(t, c))
          BY <2>2, <2>3, <5>1, <5>2, <5>3 DEF TextPart
        <5> QED BY <2>1, <2>5, <5>1, <5>4 DEF Same
      <4>2. CASE L % 2 = 0
        <5>1. Len(g) = L + 1 /\ Same(p, g, L) /\ g[L + 1] = TextPart(<<c>>)
          BY <2>1, <3>2, <4>2, GrowText
        <5>2. Image(<<c>>) = {c}
          BY DEF Image
        <5> HIDE DEF g, p, L
        <5> QED BY <2>1, <2>2, <2>5, <5>1, <5>2 DEF Same, TextPart
      <4> QED BY <2>1, <4>1, <4>2
    <3> QED BY <3>1, <3>2
  <2>7. Parts(Append(t, c)) = g
    BY PartsAppend
  <2>8. Held(Append(t, c))
    <3>1. DOMAIN g = 1..Len(g)
      <4> HIDE DEF g
      <4> QED BY <2>1
    <3> HIDE DEF g
    <3> QED BY <2>6, <2>7, <3>1
  <2> HIDE DEF Held
  <2> QED BY <2>8
<1>3. Seq(Char) \subseteq T
  <2> HIDE DEF T
  <2>1. \A t \in Seq(Char), c \in Char : t \in T => Append(t, c) \in T
    BY <1>2
  <2> QED BY <1>1, <2>1, StringByString
<1> QED BY <1>3

-----------------------------------------------------------------------------
(* Strings broken at a character: the epoch and the revision of a version. *)

(* A string around one of its characters.                                  *)
Around(e, c, r) == (e \o <<c>>) \o r

IsAround(s, e, c, r) ==
    /\ Len(s) = Len(e) + 1 + Len(r) /\ Len(e) \in Nat /\ Len(r) \in Nat
    /\ \A i \in 1..Len(e) : s[i] = e[i]
    /\ s[Len(e) + 1] = c
    /\ \A i \in 1..Len(r) : s[Len(e) + 1 + i] = r[i]

LEMMA AroundIs ==
    ASSUME NEW S, NEW e \in Seq(S), NEW c \in S, NEW r \in Seq(S)
    PROVE  Around(e, c, r) \in Seq(S) /\ IsAround(Around(e, c, r), e, c, r)
BY DEF Around, IsAround

LEMMA SplitAt ==
    ASSUME NEW S, NEW s \in Seq(S), NEW k \in 1..Len(s)
    PROVE  LET e == SubSeq(s, 1, k - 1)
               r == SubSeq(s, k + 1, Len(s))
           IN  /\ e \in Seq(S) /\ Len(e) = k - 1 /\ \A i \in 1..k - 1 : e[i] = s[i]
               /\ r \in Seq(S) /\ Len(r) = Len(s) - k /\ \A i \in 1..Len(s) - k : r[i] = s[k + i]
               /\ s = Around(e, s[k], r)
<1> DEFINE n == k - 1
           m == k + 1
           e == SubSeq(s, 1, n)
           r == SubSeq(s, m, Len(s))
<1>1. Len(s) \in Nat /\ n \in Nat /\ n < Len(s) /\ m \in Nat /\ m <= Len(s) + 1 /\ 1 <= m
      /\ n = k - 1 /\ m = k + 1
  OBVIOUS
<1>2. e \in Seq(S) /\ Len(e) = n /\ \A i \in 1..n : e[i] = s[i]
  <2> HIDE DEF n
  <2> QED BY <1>1
<1>3. r \in Seq(S) /\ Len(r) = Len(s) + 1 - m /\ \A i \in 1..Len(s) + 1 - m : r[i] = s[m + i - 1]
  <2> HIDE DEF m
  <2> QED BY <1>1
<1>4. /\ e \in Seq(S) /\ Len(e) = k - 1 /\ \A i \in 1..k - 1 : e[i] = s[i]
      /\ r \in Seq(S) /\ Len(r) = Len(s) - k /\ \A i \in 1..Len(s) - k : r[i] = s[k + i]
  <2> HIDE DEF e, r, n, m
  <2>1. Len(s) + 1 - m = Len(s) - k /\ \A i \in 1..Len(s) - k : m + i - 1 = k + i
    BY <1>1
  <2> QED BY <1>1, <1>2, <1>3, <2>1
<1>5. s = Around(e, s[k], r)
  <2> DEFINE t == Around(e, s[k], r)
  <2> HIDE DEF e, r, n, m
  <2>1. s[k] \in S
    OBVIOUS
  <2>2. /\ t \in Seq(S) /\ Len(t) = Len(e) + 1 + Len(r)
        /\ \A i \in 1..Len(e) : t[i] = e[i]
        /\ t[Len(e) + 1] = s[k]
        /\ \A i \in 1..Len(r) : t[Len(e) + 1 + i] = r[i]
    <3>1. t \in Seq(S) /\ IsAround(t, e, s[k], r)
      BY <1>4, <2>1, AroundIs
    <3> HIDE DEF t
    <3> QED BY <3>1 DEF IsAround
  <2> HIDE DEF t
  <2>3. Len(t) = Len(s)
    BY <1>1, <1>4, <2>2
  <2>4. ASSUME NEW i \in 1..Len(s) PROVE s[i] = t[i]
    <3>1. CASE i < k
      <4>1. i \in 1..k - 1 /\ i \in 1..Len(e)
        BY <1>4, <3>1
      <4> QED BY <1>4, <2>2, <4>1
    <3>2. CASE i = k
      BY <1>4, <2>2, <3>2
    <3>3. CASE i > k
      <4>1. i - k \in 1..Len(s) - k /\ k + (i - k) = i /\ Len(e) + 1 + (i - k) = i
        BY <1>1, <1>4, <3>3
      <4>2. r[i - k] = s[i] /\ t[i] = r[i - k]
        BY <1>4, <2>2, <4>1
      <4> QED BY <4>2
    <3> QED BY <3>1, <3>2, <3>3
  <2>5. s = t
    BY <2>2, <2>3, <2>4, SeqEqual
  <2> QED BY <2>5 DEF t
<1> QED BY <1>4, <1>5

(* The other way round: the ends of a string that was put together.        *)
LEMMA EndsOf ==
    ASSUME NEW S, NEW e \in Seq(S), NEW c \in S, NEW r \in Seq(S)
    PROVE  LET s == Around(e, c, r)
           IN  SubSeq(s, 1, Len(e)) = e /\ SubSeq(s, Len(e) + 2, Len(s)) = r
<1> DEFINE s == Around(e, c, r)
           k == Len(e) + 1
<1>1. /\ s \in Seq(S) /\ Len(s) = Len(e) + 1 + Len(r) /\ Len(e) \in Nat /\ Len(r) \in Nat
      /\ \A i \in 1..Len(e) : s[i] = e[i]
      /\ s[Len(e) + 1] = c
      /\ \A i \in 1..Len(r) : s[Len(e) + 1 + i] = r[i]
  <2>1. s \in Seq(S) /\ IsAround(s, e, c, r)
    BY AroundIs
  <2> HIDE DEF s
  <2> QED BY <2>1 DEF IsAround
<1>2. k \in 1..Len(s) /\ k - 1 = Len(e) /\ k + 1 = Len(e) + 2 /\ Len(s) - k = Len(r)
  <2> HIDE DEF s
  <2> QED BY <1>1
<1> DEFINE a == SubSeq(s, 1, k - 1)
           b == SubSeq(s, k + 1, Len(s))
<1>3. /\ a \in Seq(S) /\ Len(a) = k - 1 /\ \A i \in 1..k - 1 : a[i] = s[i]
      /\ b \in Seq(S) /\ Len(b) = Len(s) - k /\ \A i \in 1..Len(s) - k : b[i] = s[k + i]
  <2> HIDE DEF s, k
  <2> QED BY <1>1, <1>2, SplitAt
<1>4. a = e
  <2> HIDE DEF a, b, s
  <2>1. Len(a) = Len(e) /\ \A i \in 1..Len(a) : a[i] = e[i]
    BY <1>1, <1>2, <1>3
  <2> QED BY <1>3, <2>1, SeqEqual
<1>5. b = r
  <2> HIDE DEF a, b, s
  <2>1. Len(b) = Len(r) /\ \A i \in 1..Len(b) : b[i] = r[i]
    BY <1>1, <1>2, <1>3
  <2> QED BY <1>3, <2>1, SeqEqual
<1>6. SubSeq(s, 1, Len(e)) = a /\ SubSeq(s, Len(e) + 2, Len(s)) = b
  <2> HIDE DEF s
  <2> QED BY <1>2
<1> HIDE DEF a, b
<1> QED BY <1>4, <1>5, <1>6

LEMMA WhereIs ==
    ASSUME NEW S, NEW s \in Seq(S), NEW c
    PROVE  /\ Where(s, c) \subseteq 1..Len(s) /\ Len(s) \in Nat
           /\ Where(s, c) = {} <=> c \notin Image(s)
BY DEF Where, Image

(* The first and the last place of a character.                            *)
LEMMA FirstPlace ==
    ASSUME NEW S, NEW s \in Seq(S), NEW c, Where(s, c) # {}
    PROVE  LET k == Least(Where(s, c))
           IN  k \in 1..Len(s) /\ s[k] = c /\ c \notin Image(SubSeq(s, 1, k - 1))
<1> DEFINE k == Least(Where(s, c))
<1>1. k \in Where(s, c) /\ \A j \in Where(s, c) : k <= j
  <2>1. Where(s, c) \in SUBSET Nat
    BY WhereIs
  <2> QED BY <2>1, LeastIs
<1> HIDE DEF k
<1>2. k \in 1..Len(s) /\ s[k] = c /\ Len(s) \in Nat
  BY <1>1 DEF Where
<1> DEFINE e == SubSeq(s, 1, k - 1)
<1>3. e \in Seq(S) /\ Len(e) = k - 1 /\ \A i \in 1..k - 1 : e[i] = s[i]
  BY <1>2, SplitAt
<1>4. c \notin Image(e)
  <2> SUFFICES ASSUME NEW i \in DOMAIN e, e[i] = c PROVE FALSE
    BY DEF Image
  <2> HIDE DEF e
  <2>1. i \in 1..k - 1 /\ s[i] = c
    BY <1>3
  <2>2. i \in Where(s, c) /\ i < k
    BY <1>2, <2>1 DEF Where
  <2> QED BY <1>1, <1>2, <2>1, <2>2
<1> QED BY <1>2, <1>4 DEF k

LEMMA LastPlace ==
    ASSUME NEW S, NEW s \in Seq(S), NEW c, Where(s, c) # {}
    PROVE  LET k == Most(Where(s, c))
           IN  k \in 1..Len(s) /\ s[k] = c /\ c \notin Image(SubSeq(s, k + 1, Len(s)))
<1> DEFINE k == Most(Where(s, c))
<1>1. k \in Where(s, c) /\ \A j \in Where(s, c) : j <= k
  <2>1. Where(s, c) \in SUBSET (1..Len(s)) /\ Len(s) \in Nat
    BY WhereIs
  <2> QED BY <2>1, MostIs
<1> HIDE DEF k
<1>2. k \in 1..Len(s) /\ s[k] = c /\ Len(s) \in Nat
  BY <1>1 DEF Where
<1> DEFINE r == SubSeq(s, k + 1, Len(s))
<1>3. r \in Seq(S) /\ Len(r) = Len(s) - k /\ \A i \in 1..Len(s) - k : r[i] = s[k + i]
  BY <1>2, SplitAt
<1>4. c \notin Image(r)
  <2> SUFFICES ASSUME NEW i \in DOMAIN r, r[i] = c PROVE FALSE
    BY DEF Image
  <2> HIDE DEF r
  <2>1. i \in 1..Len(s) - k /\ s[k + i] = c
    BY <1>3
  <2>2. k + i \in Where(s, c) /\ k + i > k
    BY <1>2, <2>1 DEF Where
  <2> QED BY <1>1, <1>2, <2>1, <2>2
<1> QED BY <1>2, <1>4 DEF k

LEMMA FirstIs ==
    ASSUME NEW S, NEW e \in Seq(S), NEW c \in S, NEW r \in Seq(S), c \notin Image(e)
    PROVE  LET s == Around(e, c, r)
           IN  Where(s, c) # {} /\ Least(Where(s, c)) = Len(e) + 1
<1> DEFINE s == Around(e, c, r)
<1>1. /\ s \in Seq(S) /\ Len(s) = Len(e) + 1 + Len(r) /\ Len(e) \in Nat /\ Len(r) \in Nat
      /\ \A i \in 1..Len(e) : s[i] = e[i]
      /\ s[Len(e) + 1] = c
  <2>1. s \in Seq(S) /\ IsAround(s, e, c, r)
    BY AroundIs
  <2> HIDE DEF s
  <2> QED BY <2>1 DEF IsAround
<1> HIDE DEF s
<1>2. Len(e) + 1 \in Where(s, c)
  BY <1>1 DEF Where
<1>3. Least(Where(s, c)) \in Where(s, c) /\ \A j \in Where(s, c) : Least(Where(s, c)) <= j
  <2>1. Where(s, c) \in SUBSET Nat
    BY <1>1, WhereIs
  <2> QED BY <1>2, <2>1, LeastIs
<1>4. \A j \in Where(s, c) : j >= Len(e) + 1
  <2> SUFFICES ASSUME NEW j \in Where(s, c), ~(j >= Len(e) + 1) PROVE FALSE
    OBVIOUS
  <2>1. j \in 1..Len(s) /\ s[j] = c
    BY <1>1 DEF Where
  <2>2. j \in 1..Len(e) /\ e[j] = c
    BY <1>1, <2>1
  <2> QED BY <2>2 DEF Image
<1>5. Least(Where(s, c)) \in Int
  BY <1>1, <1>3 DEF Where
<1>6. Least(Where(s, c)) = Len(e) + 1
  BY <1>1, <1>2, <1>3, <1>4, <1>5
<1> QED BY <1>2, <1>6 DEF s

LEMMA LastIs ==
    ASSUME NEW S, NEW e \in Seq(S), NEW c \in S, NEW r \in Seq(S), c \notin Image(r)
    PROVE  LET s == Around(e, c, r)
           IN  Where(s, c) # {} /\ Most(Where(s, c)) = Len(e) + 1
<1> DEFINE s == Around(e, c, r)
<1>1. /\ s \in Seq(S) /\ Len(s) = Len(e) + 1 + Len(r) /\ Len(e) \in Nat /\ Len(r) \in Nat
      /\ s[Len(e) + 1] = c
      /\ \A i \in 1..Len(r) : s[Len(e) + 1 + i] = r[i]
  <2>1. s \in Seq(S) /\ IsAround(s, e, c, r)
    BY AroundIs
  <2> HIDE DEF s
  <2> QED BY <2>1 DEF IsAround
<1> HIDE DEF s
<1>2. Len(e) + 1 \in Where(s, c)
  BY <1>1 DEF Where
<1>3. Most(Where(s, c)) \in Where(s, c) /\ \A j \in Where(s, c) : j <= Most(Where(s, c))
  <2>1. Where(s, c) \in SUBSET (1..Len(s)) /\ Len(s) \in Nat
    BY <1>1, WhereIs
  <2> QED BY <1>2, <2>1, MostIs
<1>4. \A j \in Where(s, c) : j <= Len(e) + 1
  <2> SUFFICES ASSUME NEW j \in Where(s, c), ~(j <= Len(e) + 1) PROVE FALSE
    OBVIOUS
  <2>1. j \in 1..Len(s) /\ s[j] = c
    BY <1>1 DEF Where
  <2>2. j - (Len(e) + 1) \in 1..Len(r) /\ Len(e) + 1 + (j - (Len(e) + 1)) = j
    BY <1>1, <2>1
  <2>3. r[j - (Len(e) + 1)] = c
    BY <1>1, <2>1, <2>2
  <2> QED BY <2>2, <2>3 DEF Image
<1>5. Most(Where(s, c)) \in Int
  BY <1>1, <1>3 DEF Where
<1>6. Most(Where(s, c)) = Len(e) + 1
  BY <1>1, <1>2, <1>3, <1>4, <1>5
<1> QED BY <1>2, <1>6 DEF s

(* The epoch, and what follows it.                                         *)
LEMMA SignsAre == ":" \in Char /\ "-" \in Char /\ ~Digit(":") /\ ~Digit("-") /\ ~Digit("~") /\ "~" \in Char
<1>1. Image(Signs) = {"+", "-", ".", ":"}
  BY DEF Signs, Image
<1>2. Image(Digits) = {"0", "1", "2", "3", "4", "5", "6", "7", "8", "9"}
  BY DEF Digits, Image
<1> QED BY <1>1, <1>2 DEF Char, Digit

LEMMA EpochSplit ==
    ASSUME NEW s \in Seq(Char)
    PROVE  /\ Epoch(s) \in Seq(Char) /\ Rest(s) \in Seq(Char)
           /\ ":" \notin Image(s) => Epoch(s) = <<>> /\ Rest(s) = s
           /\ ":" \in Image(s) => /\ s = Around(Epoch(s), ":", Rest(s))
                                  /\ ":" \notin Image(Epoch(s))
<1>1. CASE ":" \notin Image(s)
  <2>1. Where(s, ":") = {}
    BY <1>1, WhereIs
  <2> QED BY <1>1, <2>1 DEF Epoch, Rest
<1>2. CASE ":" \in Image(s)
  <2>1. Where(s, ":") # {}
    BY <1>2, WhereIs
  <2> DEFINE k == Least(Where(s, ":"))
  <2>2. k \in 1..Len(s) /\ s[k] = ":" /\ ":" \notin Image(SubSeq(s, 1, k - 1))
    BY <2>1, FirstPlace
  <2>3. Epoch(s) = SubSeq(s, 1, k - 1) /\ Rest(s) = SubSeq(s, k + 1, Len(s))
    BY <2>1 DEF Epoch, Rest
  <2> HIDE DEF k
  <2>4. /\ SubSeq(s, 1, k - 1) \in Seq(Char) /\ SubSeq(s, k + 1, Len(s)) \in Seq(Char)
        /\ s = Around(SubSeq(s, 1, k - 1), s[k], SubSeq(s, k + 1, Len(s)))
    BY <2>2, SplitAt
  <2> QED BY <1>2, <2>2, <2>3, <2>4
<1> QED BY <1>1, <1>2

LEMMA EpochOf ==
    ASSUME NEW e \in Seq(Char), NEW r \in Seq(Char), ":" \notin Image(e)
    PROVE  Epoch(Around(e, ":", r)) = e /\ Rest(Around(e, ":", r)) = r
<1> DEFINE s == Around(e, ":", r)
<1>1. Where(s, ":") # {} /\ Least(Where(s, ":")) = Len(e) + 1
  BY FirstIs, SignsAre
<1>2. SubSeq(s, 1, Len(e)) = e /\ SubSeq(s, Len(e) + 2, Len(s)) = r
  BY EndsOf, SignsAre
<1>3. Len(e) + 1 - 1 = Len(e) /\ Len(e) + 1 + 1 = Len(e) + 2
  OBVIOUS
<1> HIDE DEF s
<1>4. Epoch(s) = e /\ Rest(s) = r
  BY <1>1, <1>2, <1>3 DEF Epoch, Rest
<1> QED BY <1>4 DEF s

LEMMA RevisionSplit ==
    ASSUME NEW s \in Seq(Char)
    PROVE  /\ Upstream(s) \in Seq(Char) /\ Revision(s) \in Seq(Char)
           /\ "-" \notin Image(Rest(s)) => Upstream(s) = Rest(s) /\ Revision(s) = <<>>
           /\ "-" \in Image(Rest(s)) => /\ Rest(s) = Around(Upstream(s), "-", Revision(s))
                                        /\ "-" \notin Image(Revision(s))
<1> DEFINE r == Rest(s)
<1>0. r \in Seq(Char)
  BY EpochSplit
<1>1. CASE "-" \notin Image(r)
  <2>1. Where(r, "-") = {}
    BY <1>0, <1>1, WhereIs
  <2> QED BY <1>0, <1>1, <2>1 DEF Upstream, Revision
<1>2. CASE "-" \in Image(r)
  <2>1. Where(r, "-") # {}
    BY <1>0, <1>2, WhereIs
  <2> DEFINE k == Most(Where(r, "-"))
  <2>2. k \in 1..Len(r) /\ r[k] = "-" /\ "-" \notin Image(SubSeq(r, k + 1, Len(r)))
    BY <1>0, <2>1, LastPlace
  <2>3. Upstream(s) = SubSeq(r, 1, k - 1) /\ Revision(s) = SubSeq(r, k + 1, Len(r))
    BY <2>1 DEF Upstream, Revision
  <2> HIDE DEF k, r
  <2>4. /\ SubSeq(r, 1, k - 1) \in Seq(Char) /\ SubSeq(r, k + 1, Len(r)) \in Seq(Char)
        /\ r = Around(SubSeq(r, 1, k - 1), r[k], SubSeq(r, k + 1, Len(r)))
    BY <1>0, <2>2, SplitAt
  <2>5. /\ Upstream(s) \in Seq(Char) /\ Revision(s) \in Seq(Char)
        /\ r = Around(Upstream(s), "-", Revision(s)) /\ "-" \notin Image(Revision(s))
    BY <2>2, <2>3, <2>4
  <2> QED BY <1>2, <2>5 DEF r
<1> QED BY <1>1, <1>2

LEMMA RevisionOf ==
    ASSUME NEW u \in Seq(Char), NEW v \in Seq(Char), "-" \notin Image(v),
           NEW s, Rest(s) = Around(u, "-", v)
    PROVE  Upstream(s) = u /\ Revision(s) = v
<1> DEFINE r == Around(u, "-", v)
<1>1. Where(r, "-") # {} /\ Most(Where(r, "-")) = Len(u) + 1
  BY LastIs, SignsAre
<1>2. SubSeq(r, 1, Len(u)) = u /\ SubSeq(r, Len(u) + 2, Len(r)) = v
  BY EndsOf, SignsAre
<1>3. Len(u) + 1 - 1 = Len(u) /\ Len(u) + 1 + 1 = Len(u) + 2 /\ r = Rest(s)
  OBVIOUS
<1> HIDE DEF r
<1> QED BY <1>1, <1>2, <1>3 DEF Upstream, Revision

-----------------------------------------------------------------------------
(* The value of an epoch.                                                  *)
LEMMA ValuesMade ==
    ASSUME NEW e \in Seq(Char), \A i \in 1..Len(e) : Digit(e[i])
    PROVE  /\ Values(e) \in [0..Len(e) -> Int] /\ Values(e)[0] = 0
           /\ \A n \in 1..Len(e) : Values(e)[n] = Wrap(Values(e)[n - 1] * 10 + Value(e[n]))
<1> DEFINE N == Len(e)
           step == [m \in 1..N |-> [v \in Int |-> Wrap(v * 10 + Value(e[m]))]]
           prev == [m \in 1..N |-> m - 1]
           values(d) == [n \in 0..N |-> IF n = 0 THEN 0 ELSE Wrap(d[n - 1] * 10 + Value(e[n]))]
           all == CHOOSE d : d = values(d)
<1>1. N \in Nat /\ 0 \in Int
  OBVIOUS
<1>2. \A m \in 1..N, v \in Int : Wrap(v * 10 + Value(e[m])) \in Int
  <2> TAKE m \in 1..N, v \in Int
  <2>1. Value(e[m]) \in 0..9
    BY Characters
  <2>2. v * 10 + Value(e[m]) \in Int
    BY <2>1
  <2> QED BY <2>2, WrapIs
<1>3. step \in [1..N -> [Int -> Int]]
  BY <1>2
<1>4. prev \in [1..N -> Nat] /\ \A m \in 1..N : prev[m] < m
  BY <1>1
<1>5. PICK f \in [0..N -> Int] : f[0] = 0 /\ \A m \in 1..N : f[m] = step[m][f[prev[m]]]
  <2> HIDE DEF N, step, prev
  <2>1. Recursive(N, Int, 0, prev, step)
    BY <1>1, <1>3, <1>4 DEF Recursive
  <2> QED BY <2>1, Recursion
<1>6. \A m \in 1..N : f[m] = Wrap(f[m - 1] * 10 + Value(e[m]))
  <2> TAKE m \in 1..N
  <2>1. m - 1 \in 0..N /\ prev[m] = m - 1
    BY <1>1
  <2>2. f[m - 1] \in Int
    BY <1>5, <2>1
  <2>3. step[m] = [v \in Int |-> Wrap(v * 10 + Value(e[m]))]
    OBVIOUS
  <2>4. f[m] = step[m][f[m - 1]]
    <3> HIDE DEF step, prev
    <3> QED BY <1>5, <2>1
  <2> QED BY <2>2, <2>3, <2>4
<1>7. f = values(f)
  <2>1. \A n \in 0..N : f[n] = values(f)[n]
    <3> TAKE n \in 0..N
    <3>1. CASE n = 0
      BY <1>5, <3>1
    <3>2. CASE n # 0
      <4>1. n \in 1..N
        BY <1>1, <3>2
      <4> QED BY <1>6, <3>2, <4>1
    <3> QED BY <3>1, <3>2
  <2>2. values(f) = [n \in 0..N |-> values(f)[n]] /\ f = [n \in 0..N |-> f[n]]
    BY <1>5
  <2> HIDE DEF values
  <2> QED BY <2>1, <2>2
<1>8. all = values(all)
  <2> HIDE DEF values
  <2> QED BY <1>7
<1>9. Values(e) = all
  BY DEF Values
<1>10. /\ all[0] = 0 /\ \A m \in 1..N : all[m] = Wrap(all[m - 1] * 10 + Value(e[m]))
       /\ all = [n \in 0..N |-> all[n]]
  <2>1. \A n \in 0..N : all[n] = values(all)[n]
    <3> HIDE DEF values, all
    <3> QED BY <1>8
  <2>2. all = [n \in 0..N |-> all[n]]
    <3>1. \A d : values(d) = [n \in 0..N |-> values(d)[n]]
      OBVIOUS
    <3> HIDE DEF values, all
    <3> QED BY <1>8, <3>1
  <2> HIDE DEF all
  <2>3. all[0] = 0
    <3>1. 0 \in 0..N /\ values(all)[0] = 0
      BY <1>1
    <3> HIDE DEF values
    <3> QED BY <2>1, <3>1
  <2>4. \A m \in 1..N : all[m] = Wrap(all[m - 1] * 10 + Value(e[m]))
    <3> TAKE m \in 1..N
    <3>1. m \in 0..N /\ values(all)[m] = Wrap(all[m - 1] * 10 + Value(e[m]))
      BY <1>1
    <3> HIDE DEF values
    <3> QED BY <2>1, <3>1
  <2> QED BY <2>2, <2>3, <2>4
<1> HIDE DEF all
<1>11. \A n \in 0..N : all[n] \in Int
  <2> DEFINE T == {n \in 0..N : all[n] \in Int}
  <2>1. 0 \in T
    <3>1. 0 \in 0..N /\ all[0] \in Int
      BY <1>1, <1>10
    <3> QED BY <3>1
  <2>2. \A n \in Nat : n < N /\ n \in T => n + 1 \in T
    <3> SUFFICES ASSUME NEW n \in Nat, n < N, n \in T PROVE n + 1 \in T
      OBVIOUS
    <3>1. n + 1 \in 1..N /\ n + 1 \in 0..N /\ (n + 1) - 1 = n /\ all[n] \in Int
      BY <1>1
    <3>2. all[n + 1] = Wrap(all[n] * 10 + Value(e[n + 1]))
      BY <1>10, <3>1
    <3>3. all[n + 1] \in Int
      BY <1>2, <3>1, <3>2
    <3> QED BY <3>1, <3>3
  <2>3. \A n \in 0..N : n \in T
    <3> HIDE DEF T, N
    <3> QED BY <1>1, <2>1, <2>2, UpTo
  <2> QED BY <2>3
<1>12. all \in [0..N -> Int]
  BY <1>10, <1>11
<1> QED BY <1>9, <1>10, <1>12

LEMMA EpochValueIs ==
    ASSUME NEW s \in Seq(Char), Valid(s)
    PROVE  EpochValue(s) \in Nat /\ EpochValue(s) <= MaxInt
<1> DEFINE e == Epoch(s)
           v == Values(e)
<1>1. e \in Seq(Char) /\ Len(e) \in Nat
  BY EpochSplit
<1>2. (\A i \in 1..Len(e) : Digit(e[i])) /\ ~Overflows(e)
  <2>1. CASE Where(s, ":") = {}
    <3>1. e = <<>>
      BY <2>1 DEF Epoch
    <3> QED BY <3>1 DEF Overflows
  <2>2. CASE Where(s, ":") # {}
    <3>1. Image(e) \subseteq Image(Digits) /\ ~Overflows(e)
      BY <2>2 DEF Valid
    <3>2. \A i \in 1..Len(e) : e[i] \in Image(e)
      BY <1>1 DEF Image
    <3> QED BY <3>1, <3>2 DEF Digit
  <2> QED BY <2>1, <2>2
<1>3. /\ v \in [0..Len(e) -> Int] /\ v[0] = 0
      /\ \A n \in 1..Len(e) : v[n] = Wrap(v[n - 1] * 10 + Value(e[n]))
  BY <1>1, <1>2, ValuesMade
<1>4. \A n \in 1..Len(e) : v[n] >= v[n - 1] /\ v[n] <= MaxInt
  <2> TAKE n \in 1..Len(e)
  <2>1. n - 1 \in 0..Len(e) /\ n \in 0..Len(e) /\ n \in DOMAIN e
    BY <1>1
  <2>2. ~(v[n] < v[n - 1])
    BY <1>2, <2>1 DEF Overflows
  <2>3. Value(e[n]) \in 0..9
    BY <1>1, <1>2, Characters
  <2>4. v[n - 1] \in Int /\ v[n] \in Int
    BY <1>3, <2>1
  <2>5. v[n - 1] * 10 + Value(e[n]) \in Int
    BY <2>3, <2>4
  <2>6. v[n] <= MaxInt
    BY <1>3, <2>5, WrapIs
  <2> QED BY <2>2, <2>4, <2>6
<1> HIDE DEF e, v
<1> DEFINE T == {n \in 0..Len(e) : v[n] \in Nat /\ v[n] <= MaxInt}
<1>5. 0 \in T
  <2>1. 0 \in 0..Len(e) /\ 0 <= MaxInt
    BY <1>1, MaxIntAssumption
  <2> QED BY <1>3, <2>1
<1>6. \A n \in Nat : n < Len(e) /\ n \in T => n + 1 \in T
  <2> SUFFICES ASSUME NEW n \in Nat, n < Len(e), n \in T PROVE n + 1 \in T
    OBVIOUS
  <2>1. n + 1 \in 1..Len(e) /\ n + 1 \in 0..Len(e) /\ (n + 1) - 1 = n
    BY <1>1
  <2>2. v[n + 1] >= v[n] /\ v[n + 1] <= MaxInt /\ v[n] \in Nat /\ v[n + 1] \in Int
    BY <1>3, <1>4, <2>1
  <2>3. v[n + 1] \in Nat
    BY <2>2
  <2> QED BY <2>1, <2>2, <2>3
<1>7. \A n \in 0..Len(e) : n \in T
  <2> HIDE DEF T
  <2> QED BY <1>1, <1>5, <1>6, UpTo
<1>8. v[Len(e)] \in Nat /\ v[Len(e)] <= MaxInt
  <2>1. Len(e) \in T
    <3> HIDE DEF T
    <3> QED BY <1>1, <1>7
  <2> QED BY <2>1
<1> QED BY <1>8 DEF EpochValue, e, v

LEMMA ShapedIsList ==
    ASSUME NEW p \in Shaped, Unsigned(p)
    PROVE  p \in PartList
<1>1. p \in Seq(Cell) /\ \A i \in DOMAIN p : IF i % 2 = 1 THEN OddPart(p, i) ELSE EvenPart(p, i)
  BY DEF Shaped
<1>2. \A i \in 1..Len(p) : p[i] \in [str : Seq(TextChar), val : Nat \cup {-1}]
                           /\ (p[i].val = -1 <=> i % 2 = 1)
  <2> TAKE i \in 1..Len(p)
  <2>1. p[i] \in Cell /\ i \in DOMAIN p
    BY <1>1
  <2>2. CASE i % 2 = 1
    <3>1. p[i].val = -1
      BY <1>1, <2>1, <2>2 DEF OddPart
    <3> QED BY <2>1, <2>2, <3>1 DEF Cell
  <2>3. CASE i % 2 # 1
    <3>1. i % 2 = 0
      BY <2>3
    <3>2. p[i].val >= 0
      BY <2>1, <3>1 DEF Unsigned
    <3>3. p[i].val \in Nat
      BY <2>1, <3>2 DEF Cell
    <3> QED BY <2>1, <2>3, <3>3 DEF Cell
  <2> QED BY <2>2, <2>3
<1>3. p \in Seq([str : Seq(TextChar), val : Nat \cup {-1}])
  <2> DEFINE C == [str : Seq(TextChar), val : Nat \cup {-1}]
  <2>1. p = [i \in 1..Len(p) |-> p[i]] /\ Len(p) \in Nat
    BY <1>1
  <2>2. \A i \in 1..Len(p) : p[i] \in C
    BY <1>2
  <2> HIDE DEF C
  <2>3. p \in [1..Len(p) -> C]
    BY <2>1, <2>2
  <2>4. p \in Seq(C)
    BY <2>1, <2>3, SeqDef
  <2> QED BY <2>4 DEF C
<1>4. DOMAIN p = 1..Len(p)
  BY <1>1
<1> QED BY <1>2, <1>3, <1>4 DEF PartList

LEMMA ParsedIs ==
    ASSUME NumbersFit, NEW s \in Input, Valid(s)
    PROVE  /\ Parsed(s) \in ParsedVersion
           /\ Parsed(s).epoch = EpochValue(s) /\ EpochValue(s) \in Nat /\ EpochValue(s) <= MaxInt
           /\ Parsed(s).version = Parts(Upstream(s)) /\ Parts(Upstream(s)) \in Shaped \cap PartList
           /\ Parsed(s).revision = Parts(Revision(s)) /\ Parts(Revision(s)) \in Shaped \cap PartList
<1>1. s \in Seq(Char)
  BY InputAssumption
<1>2. Upstream(s) \in Seq(Char) /\ Revision(s) \in Seq(Char)
  BY <1>1, RevisionSplit
<1>3. Parts(Upstream(s)) \in Shaped /\ Parts(Revision(s)) \in Shaped
  BY <1>2, PartsShaped
<1>4. Parts(Upstream(s)) \in PartList /\ Parts(Revision(s)) \in PartList
  BY <1>3, ShapedIsList DEF NumbersFit
<1>5. EpochValue(s) \in Nat /\ EpochValue(s) <= MaxInt
  BY <1>1, EpochValueIs
<1> QED BY <1>3, <1>4, <1>5 DEF Parsed, ParsedVersion

LEMMA SignIs == ASSUME NEW x PROVE Sign(x) \in -1..1
BY DEF Sign

LEMMA CompareIs == ASSUME NEW v, NEW w PROVE Compare(v, w) \in -1..1
<1>1. \A s, t : TextCompare(s, t) \in -1..1
  BY SignIs DEF TextCompare
<1>2. \A a, b : PartCompare(a, b) \in -1..1
  BY <1>1, SignIs DEF PartCompare
<1>3. \A a, b : PartsCompare(a, b) \in -1..1
  BY <1>2 DEF PartsCompare
<1> QED BY <1>3, SignIs DEF Compare

(* Where no number of an input comes out negative, every valid input is a  *)
(* list of strings and numbers in turn, as compare() of two parts requires *)
(* (string_to_parts), and the answer is one of three.                      *)
THEOREM VersionsAreParsed ==
    ASSUME NumbersFit
    PROVE  VersionSpec => []VersionTypeOK
<1> DEFINE Inv == left \in Input /\ right \in Input /\ result \in -1..1 \cup {NotCompared, Invalid}
<1>1. VersionInit => Inv
  BY DEF VersionInit
<1>2. Inv /\ [VersionNext]_versionvars => Inv'
  BY CompareIs DEF VersionNext, versioncmp, Throws, versionvars
<1>3. Inv => VersionTypeOK
  BY ParsedIs DEF VersionTypeOK, Parses
<1> QED
  BY <1>1, <1>2, <1>3, PTL DEF VersionSpec

(* Where no number comes out negative, versioncmp() of two inputs does not *)
(* depend on which one is asked first.                                     *)
THEOREM AnswersAreAntisymmetric ==
    ASSUME NumbersFit
    PROVE  VersionSpec => []Antisymmetric
<1> DEFINE Inv == /\ left \in Input /\ right \in Input
                  /\ Compared => /\ Valid(left) /\ Valid(right)
                                 /\ result = Order(left, right)
<1>1. VersionInit => Inv
  BY DEF VersionInit, Compared, NotCompared
<1>2. Inv /\ [VersionNext]_versionvars => Inv'
  BY DEF VersionNext, versioncmp, Throws, versionvars, Compared, Invalid, Order
<1>3. Inv => Antisymmetric
  <2> SUFFICES ASSUME Inv, Compared
               PROVE  result = -Order(right, left)
    BY DEF Antisymmetric
  <2>1. Parsed(left) \in ParsedVersion /\ Parsed(right) \in ParsedVersion
    BY ParsedIs
  <2>2. Opposite(Order(left, right), Order(right, left))
    BY <2>1, OrderIsAntisymmetric DEF Order
  <2> QED
    BY <2>2 DEF Opposite
<1> QED
  BY <1>1, <1>2, <1>3, PTL DEF VersionSpec

-----------------------------------------------------------------------------
(* "~": what it does to the parts, and to the comparison.                  *)

LEMMA AroundImage ==
    ASSUME NEW S, NEW e \in Seq(S), NEW c \in S, NEW r \in Seq(S)
    PROVE  Image(Around(e, c, r)) = Image(e) \cup {c} \cup Image(r)
<1> DEFINE s == Around(e, c, r)
<1>1. s \in Seq(S) /\ IsAround(s, e, c, r)
  BY AroundIs
<1> HIDE DEF s
<1>2. /\ Len(s) = Len(e) + 1 + Len(r) /\ Len(e) \in Nat /\ Len(r) \in Nat
      /\ \A i \in 1..Len(e) : s[i] = e[i]
      /\ s[Len(e) + 1] = c
      /\ \A i \in 1..Len(r) : s[Len(e) + 1 + i] = r[i]
  BY <1>1 DEF IsAround
<1>3. DOMAIN s = 1..Len(s) /\ DOMAIN e = 1..Len(e) /\ DOMAIN r = 1..Len(r)
  BY <1>1
<1>4. ASSUME NEW i \in 1..Len(s) PROVE s[i] \in Image(e) \cup {c} \cup Image(r)
  <2>1. CASE i \in 1..Len(e)
    BY <1>2, <1>3, <2>1 DEF Image
  <2>2. CASE i = Len(e) + 1
    BY <1>2, <2>2
  <2>3. CASE i > Len(e) + 1
    <3>1. i - (Len(e) + 1) \in 1..Len(r) /\ Len(e) + 1 + (i - (Len(e) + 1)) = i
      BY <1>2, <2>3
    <3>2. s[i] = r[i - (Len(e) + 1)]
      BY <1>2, <3>1
    <3> QED BY <1>3, <3>1, <3>2 DEF Image
  <2> QED BY <1>2, <2>1, <2>2, <2>3
<1>5. \A i \in 1..Len(e) : e[i] \in Image(s)
  <2> TAKE i \in 1..Len(e)
  <2>1. i \in 1..Len(s) /\ s[i] = e[i]
    BY <1>2
  <2> QED BY <1>3, <2>1 DEF Image
<1>6. \A i \in 1..Len(r) : r[i] \in Image(s)
  <2> TAKE i \in 1..Len(r)
  <2>1. Len(e) + 1 + i \in 1..Len(s)
    BY <1>2
  <2>2. s[Len(e) + 1 + i] = r[i]
    BY <1>2
  <2> QED BY <1>3, <2>1, <2>2 DEF Image
<1>7. c \in Image(s)
  <2>1. Len(e) + 1 \in 1..Len(s)
    BY <1>2
  <2> QED BY <1>2, <1>3, <2>1 DEF Image
<1>8. Image(s) \subseteq Image(e) \cup {c} \cup Image(r)
  BY <1>3, <1>4 DEF Image
<1>9. Image(e) \subseteq Image(s) /\ Image(r) \subseteq Image(s)
  BY <1>3, <1>5, <1>6 DEF Image
<1> QED BY <1>7, <1>8, <1>9 DEF s

LEMMA AroundTwice ==
    ASSUME NEW S, NEW a \in Seq(S), NEW x \in S, NEW b \in Seq(S), NEW y \in S, NEW c \in Seq(S)
    PROVE  Around(Around(a, x, b), y, c) = Around(a, x, Around(b, y, c))
<1>1. <<x>> \in Seq(S) /\ <<y>> \in Seq(S)
  OBVIOUS
<1> DEFINE u == a \o <<x>>
           w == b \o <<y>>
<1>2. u \in Seq(S) /\ w \in Seq(S)
  BY <1>1, ConcatProperties
<1>3. ((u \o b) \o <<y>>) \o c = (u \o w) \o c
  <2> HIDE DEF u
  <2>1. (u \o b) \o <<y>> = u \o w
    BY <1>1, <1>2, ConcatAssociative
  <2> QED BY <2>1
<1>4. (u \o w) \o c = u \o (w \o c)
  <2> HIDE DEF u, w
  <2> QED BY <1>2, ConcatAssociative
<1>5. Around(Around(a, x, b), y, c) = ((u \o b) \o <<y>>) \o c
  BY DEF Around
<1>6. Around(a, x, Around(b, y, c)) = u \o (w \o c)
  BY DEF Around
<1> QED BY <1>3, <1>4, <1>5, <1>6

LEMMA AroundLast ==
    ASSUME NEW S, NEW e \in Seq(S), NEW c \in S, NEW r \in Seq(S), r # <<>>
    PROVE  Last(Around(e, c, r)) = Last(r)
<1> DEFINE s == Around(e, c, r)
<1>1. s \in Seq(S) /\ IsAround(s, e, c, r)
  BY AroundIs
<1> HIDE DEF s
<1>2. /\ Len(s) = Len(e) + 1 + Len(r) /\ Len(e) \in Nat /\ Len(r) \in Nat
      /\ \A i \in 1..Len(r) : s[Len(e) + 1 + i] = r[i]
  BY <1>1 DEF IsAround
<1>3. Len(r) \in 1..Len(r)
  BY <1>2
<1>4. s[Len(s)] = r[Len(r)]
  BY <1>2, <1>3
<1> QED BY <1>4 DEF Last, s

-----------------------------------------------------------------------------
(* A "~" that is added to a string.                                        *)
LEMMA EndsInText ==
    ASSUME NEW s \in Seq(Char), s # <<>>, ~Digit(Last(s))
    PROVE  Len(Parts(s)) % 2 = 1
<1> DEFINE n == Len(s) - 1
           t == SubSeq(s, 1, n)
<1>1. Len(s) \in Nat /\ n \in Nat /\ n < Len(s) /\ n + 1 = Len(s) /\ s[n + 1] \in Char
  OBVIOUS
<1>2. t \in Seq(Char) /\ s = Append(t, s[n + 1])
  <2> HIDE DEF n
  <2>1. SubSeq(s, 1, Len(s)) = s
    OBVIOUS
  <2>2. Append(SubSeq(s, 1, n), s[n + 1]) = SubSeq(s, 1, n + 1)
    BY <1>1
  <2> QED BY <1>1, <2>1, <2>2
<1>3. ~Digit(s[n + 1])
  BY <1>1 DEF Last
<1> HIDE DEF n, t
<1>4. Parts(s) = Grow(Parts(t), s[n + 1]) /\ Parts(t) \in Seq(Cell)
  BY <1>1, <1>2, PartsAppend, PartsType
<1> DEFINE L == Len(Parts(t))
<1>5. L \in Nat
  BY <1>4
<1>6. /\ L % 2 = 1 => Len(Grow(Parts(t), s[n + 1])) = L
      /\ L % 2 = 0 => Len(Grow(Parts(t), s[n + 1])) = L + 1
  BY <1>1, <1>3, <1>4, GrowText
<1> HIDE DEF L
<1> QED BY <1>4, <1>5, <1>6

LEMMA ConcatAppend ==
    ASSUME NEW S, NEW a \in Seq(S), NEW b \in Seq(S), NEW c \in S
    PROVE  a \o Append(b, c) = Append(a \o b, c)
<1>1. Append(b, c) = b \o <<c>> /\ <<c>> \in Seq(S)
  OBVIOUS
<1>2. a \o (b \o <<c>>) = (a \o b) \o <<c>>
  BY <1>1, ConcatAssociative
<1>3. a \o b \in Seq(S)
  OBVIOUS
<1> DEFINE d == a \o b
<1>4. Append(d, c) = d \o <<c>>
  <2> HIDE DEF d
  <2> QED BY <1>3 DEF d
<1> HIDE DEF d
<1>5. Append(a \o b, c) = (a \o b) \o <<c>>
  BY <1>4 DEF d
<1> QED BY <1>1, <1>2, <1>5

LEMMA AroundAppend ==
    ASSUME NEW S, NEW e \in Seq(S), NEW x \in S, NEW r \in Seq(S), NEW c \in S
    PROVE  Around(e, x, Append(r, c)) = Append(Around(e, x, r), c)
<1> DEFINE h == e \o <<x>>
<1>1. h \in Seq(S)
  OBVIOUS
<1> HIDE DEF h
<1>2. h \o Append(r, c) = Append(h \o r, c)
  BY <1>1, ConcatAppend
<1> QED BY <1>2 DEF Around, h

(* q begins as p, and has a "~" where p ends.                              *)
Tilded(p, q) ==
    LET n == Len(p)
    IN  /\ n <= Len(q) /\ Same(p, q, n - 1)
        /\ q[n].val = -1 /\ Len(p[n].str) < Len(q[n].str)
        /\ \A i \in 1..Len(p[n].str) : q[n].str[i] = p[n].str[i]
        /\ q[n].str[Len(p[n].str) + 1] = "~"

LEMMA TildedGrows ==
    ASSUME NEW p \in Seq(Cell), NEW q \in Seq(Cell), NEW c \in Char,
           Len(p) % 2 = 1, Tilded(p, q)
    PROVE  Tilded(p, Grow(q, c))
<1> DEFINE g == Grow(q, c)
           n == Len(p)
           m == Len(q)
<1> SUFFICES Tilded(p, g)
  OBVIOUS
<1>1. /\ n \in Nat /\ m \in Nat /\ n <= m /\ n \in 1..n /\ n \in 1..m /\ n % 2 = 1
      /\ Same(p, q, n - 1)
      /\ q[n].val = -1 /\ Len(p[n].str) < Len(q[n].str)
      /\ \A i \in 1..Len(p[n].str) : q[n].str[i] = p[n].str[i]
      /\ q[n].str[Len(p[n].str) + 1] = "~"
  <2>1. n \in Nat /\ m \in Nat
    OBVIOUS
  <2> HIDE DEF n, m
  <2>2. n <= m
    BY DEF Tilded, n, m
  <2>3. n \in 1..n /\ n \in 1..m
    <3>1. n % 2 = 1
      BY DEF n
    <3> QED BY <2>1, <2>2, <3>1
  <2> QED BY <2>1, <2>2, <2>3 DEF Tilded, n
<1>2. ASSUME m <= Len(g), Same(q, g, m - 1), n < m \/ g[n] = q[n] PROVE Tilded(p, g)
  <2> HIDE DEF g, n, m
  <2>1. g[n] = q[n]
    BY <1>1, <1>2 DEF Same
  <2>2. Same(p, g, n - 1)
    BY <1>1, <1>2 DEF Same
  <2>3. n <= Len(g)
    <3>1. Len(g) \in Int
      <4>1. g \in Seq(Cell)
        BY GrowIs DEF g
      <4> QED BY <4>1
    <3> QED BY <1>1, <1>2, <3>1
  <2> QED BY <1>1, <2>1, <2>2, <2>3 DEF Tilded, n
<1>3. CASE Digit(c)
  <2>1. CASE m % 2 = 1
    <3>1. Len(g) = m + 1 /\ Same(q, g, m)
      BY <1>3, <2>1, GrowDigit
    <3> HIDE DEF g, n, m
    <3> QED BY <1>1, <1>2, <3>1 DEF Same
  <2>2. CASE m % 2 = 0
    <3>1. Len(g) = m /\ Same(q, g, m - 1)
      <4>1. m # 0
        <5> HIDE DEF n, m
        <5> QED BY <1>1
      <4> QED BY <1>3, <2>2, <4>1, GrowDigit
    <3> HIDE DEF g, n, m
    <3>2. n < m
      BY <1>1, <2>2
    <3> QED BY <1>1, <1>2, <3>1, <3>2
  <2> HIDE DEF m
  <2> QED BY <1>1, <2>1, <2>2
<1>4. CASE ~Digit(c)
  <2>1. CASE m % 2 = 1
    <3>1. Len(g) = m /\ Same(q, g, m - 1) /\ g[m] = TextPart(Append(q[m].str, c))
      BY <1>4, <2>1, GrowText
    <3>2. CASE n < m
      <4> HIDE DEF g, n, m
      <4> QED BY <1>1, <1>2, <3>1, <3>2
    <3>3. CASE n = m
      <4> DEFINE a == p[n].str
                 b == q[n].str
      <4>1. p[n] \in Cell /\ q[n] \in Cell
        <5> HIDE DEF n
        <5>1. n \in 1..Len(p) /\ n \in 1..Len(q)
          BY <1>1 DEF n, m
        <5> QED BY <5>1
      <4>2. a \in Seq(TextChar) /\ b \in Seq(TextChar)
        <5> HIDE DEF n
        <5> QED BY <4>1 DEF Cell
      <4>3. g[n].str = Append(b, c) /\ g[n].val = -1
        BY <3>1, <3>3 DEF TextPart
      <4>4. Same(p, g, n - 1)
        <5> HIDE DEF g, n, m
        <5> QED BY <1>1, <3>1, <3>3 DEF Same
      <4>5. Len(a) < Len(b) /\ (\A i \in 1..Len(a) : b[i] = a[i]) /\ b[Len(a) + 1] = "~"
        BY <1>1
      <4>6. n <= Len(g)
        <5> HIDE DEF g, n, m
        <5> QED BY <1>1, <3>1, <3>3
      <4> HIDE DEF g, a, b
      <4>7. c \in TextChar
        BY <1>4, Characters
      <4>8. Len(Append(b, c)) = Len(b) + 1 /\ \A i \in 1..Len(b) : Append(b, c)[i] = b[i]
        BY <4>2, <4>7
      <4>9. Len(a) \in Nat /\ Len(b) \in Nat
        BY <4>2
      <4>10. /\ Len(a) < Len(Append(b, c)) /\ Append(b, c)[Len(a) + 1] = "~"
             /\ \A i \in 1..Len(a) : Append(b, c)[i] = a[i]
        BY <4>5, <4>8, <4>9
      <4> QED BY <4>3, <4>4, <4>6, <4>10 DEF Tilded, a
    <3> HIDE DEF n, m
    <3> QED BY <1>1, <3>2, <3>3
  <2>2. CASE m % 2 = 0
    <3>1. Len(g) = m + 1 /\ Same(q, g, m)
      BY <1>4, <2>2, GrowText
    <3> HIDE DEF g, n, m
    <3> QED BY <1>1, <1>2, <3>1 DEF Same
  <2> HIDE DEF m
  <2> QED BY <1>1, <2>1, <2>2
<1> QED BY <1>3, <1>4

LEMMA PartsTilded ==
    ASSUME NEW s \in Seq(Char), s # <<>>, ~Digit(Last(s)), NEW t \in Seq(Char)
    PROVE  Tilded(Parts(s), Parts(Around(s, "~", t)))
<1> DEFINE p == Parts(s)
           T == {u \in Seq(Char) : Tilded(p, Parts(Around(s, "~", u)))}
           h == Append(s, "~")
<1>1. p \in Seq(Cell) /\ Len(p) % 2 = 1
  BY PartsType, EndsInText
<1>2. h \in Seq(Char) /\ \A u : Around(s, "~", u) = h \o u
  BY SignsAre DEF Around
<1>3. <<>> \in T
  <2> DEFINE L == Len(p)
             g == Grow(p, "~")
  <2>1. Around(s, "~", <<>>) = h
    <3>1. Around(s, "~", <<>>) = h \o <<>>
      BY <1>2
    <3> HIDE DEF h
    <3> QED BY <1>2, <3>1
  <2>2. Parts(h) = g
    BY SignsAre, PartsAppend
  <2>3. Len(g) = L /\ Same(p, g, L - 1) /\ g[L] = TextPart(Append(p[L].str, "~"))
    BY <1>1, SignsAre, GrowText
  <2>4. p[L].str \in Seq(TextChar) /\ "~" \in TextChar /\ L \in Nat
    <3>1. L \in 1..Len(p) /\ L \in Nat
      <4> HIDE DEF p
      <4> QED BY <1>1
    <3>2. p[L] \in Cell
      <4> HIDE DEF p
      <4> QED BY <1>1, <3>1
    <3> QED BY <3>1, <3>2 DEF Cell, TextChar
  <2> DEFINE a == p[L].str
  <2>5. g[L].str = Append(a, "~") /\ g[L].val = -1
    BY <2>3 DEF TextPart
  <2>6. /\ Len(a) < Len(Append(a, "~")) /\ Append(a, "~")[Len(a) + 1] = "~"
        /\ \A i \in 1..Len(a) : Append(a, "~")[i] = a[i]
    <3> HIDE DEF a
    <3> QED BY <2>4 DEF a
  <2>7. Tilded(p, g)
    <3> HIDE DEF p, g
    <3>1. L <= Len(g)
      BY <2>3, <2>4
    <3> QED BY <2>3, <2>5, <2>6, <3>1 DEF Tilded
  <2> HIDE DEF p, g, h
  <2>8. Tilded(p, Parts(Around(s, "~", <<>>)))
    BY <2>1, <2>2, <2>7
  <2>9. <<>> \in Seq(Char)
    OBVIOUS
  <2> QED BY <2>8, <2>9
<1>4. ASSUME NEW u \in Seq(Char), NEW c \in Char, u \in T PROVE Append(u, c) \in T
  <2> DEFINE w == Around(s, "~", u)
  <2>1. w \in Seq(Char)
    BY SignsAre, AroundIs
  <2>2. Around(s, "~", Append(u, c)) = Append(w, c)
    BY SignsAre, AroundAppend
  <2>3. Parts(Append(w, c)) = Grow(Parts(w), c) /\ Parts(w) \in Seq(Cell)
    BY <2>1, PartsAppend, PartsType
  <2>4. Tilded(p, Parts(w))
    BY <1>4
  <2>5. Tilded(p, Grow(Parts(w), c))
    <3> HIDE DEF p, w
    <3> QED BY <1>1, <2>3, <2>4, TildedGrows
  <2>6. Append(u, c) \in Seq(Char)
    OBVIOUS
  <2>7. Tilded(p, Parts(Around(s, "~", Append(u, c))))
    BY <2>2, <2>3, <2>5
  <2> HIDE DEF p
  <2> QED BY <2>6, <2>7
<1>5. Seq(Char) \subseteq T
  <2> HIDE DEF T
  <2>1. \A u \in Seq(Char), c \in Char : u \in T => Append(u, c) \in T
    BY <1>4
  <2> QED BY <1>3, <2>1, StringByString
<1> QED BY <1>5

LEMMA PartSelf ==
    ASSUME NEW a \in Part
    PROVE  PartCompare(a, a) = 0
<1>1. ASSUME NEW s \in Seq(TextChar) PROVE TextCompare(s, s) = 0
  <2>1. Shorter(s, s) = Len(s) /\ Len(s) \in Nat
    BY DEF Shorter
  <2>2. {i \in 1..Shorter(s, s) : Rank(s, i) # Rank(s, i)} = {}
    OBVIOUS
  <2>3. Len(s) + 1 \in Nat \ {0} /\ Rank(s, Len(s) + 1) \in Int
    BY <2>1, RankIsInt
  <2>4. TextCompare(s, s) = Sign(Rank(s, Len(s) + 1) - Rank(s, Len(s) + 1))
    BY <2>1, <2>2 DEF TextCompare
  <2>5. \A n \in Int : Sign(n - n) = 0
    BY DEF Sign
  <2> QED BY <2>3, <2>4, <2>5
<1>2. a.str \in Seq(TextChar) /\ a.val \in Int
  BY DEF Part
<1>3. Sign(a.val - a.val) = 0
  BY <1>2 DEF Sign
<1> QED BY <1>1, <1>2, <1>3 DEF PartCompare

LEMMA ListIs ==
    ASSUME NEW p \in PartList
    PROVE  /\ Len(p) \in Nat /\ DOMAIN p = 1..Len(p)
           /\ \A i \in 1..Len(p) : p[i] \in Part /\ (p[i].val = -1 <=> i % 2 = 1)
<1>1. p \in Seq(Part) /\ \A i \in DOMAIN p : p[i].val = -1 <=> i % 2 = 1
  BY DEF PartList, Part
<1>2. \A i \in 1..Len(p) : p[i] \in Part
  BY <1>1
<1> QED BY <1>1, <1>2

(* The first difference decides.                                           *)
LEMMA DifferAt ==
    ASSUME NEW p \in PartList, NEW q \in PartList, NEW n \in Nat \ {0},
           n <= Len(p), n <= Len(q), \A i \in 1..n - 1 : PartCompare(p[i], q[i]) = 0,
           PartCompare(p[n], q[n]) # 0
    PROVE  PartsCompare(p, q) = PartCompare(p[n], q[n])
<1> DEFINE m == Shorter(p, q)
           unlike == {i \in 1..m : PartCompare(p[i], q[i]) # 0}
<1>1. m \in Nat /\ n <= m
  BY ListIs DEF Shorter
<1> HIDE DEF m
<1>2. n \in unlike
  BY <1>1
<1>3. Least(unlike) \in unlike /\ \A j \in unlike : Least(unlike) <= j
  <2>1. unlike \in SUBSET Nat
    BY <1>1
  <2> HIDE DEF unlike
  <2> QED BY <1>2, <2>1, LeastIs
<1>4. Least(unlike) = n
  <2>1. PICK k : k = Least(unlike)
    OBVIOUS
  <2>2. k \in 1..m /\ k <= n /\ PartCompare(p[k], q[k]) # 0
    BY <1>2, <1>3, <2>1
  <2>3. k = n
    BY <1>1, <2>2
  <2> QED BY <2>1, <2>3
<1>5. PartsCompare(p, q) = PartCompare(p[Least(unlike)], q[Least(unlike)])
  BY <1>2 DEF PartsCompare, m
<1> QED BY <1>4, <1>5

LEMMA ListSelf ==
    ASSUME NEW p \in PartList
    PROVE  PartsCompare(p, p) = 0
<1>1. Shorter(p, p) = Len(p) /\ Len(p) \in Nat
  BY ListIs DEF Shorter
<1>2. {i \in 1..Len(p) : PartCompare(p[i], p[i]) # 0} = {}
  BY ListIs, PartSelf
<1>3. ~Longer(p, Len(p))
  BY <1>1 DEF Longer
<1> QED BY <1>1, <1>2, <1>3 DEF PartsCompare

LEMMA TextTilded ==
    ASSUME NEW a \in Seq(TextChar), NEW b \in Seq(TextChar), Len(a) < Len(b),
           \A i \in 1..Len(a) : b[i] = a[i], b[Len(a) + 1] = "~"
    PROVE  TextCompare(a, b) = 1
<1> DEFINE n == Len(a)
<1>1. Shorter(a, b) = n /\ n \in Nat /\ Len(b) \in Nat
  BY DEF Shorter
<1>2. {i \in 1..n : Rank(a, i) # Rank(b, i)} = {}
  <2> SUFFICES ASSUME NEW i \in 1..n PROVE Rank(a, i) = Rank(b, i)
    OBVIOUS
  <2>1. ~(i > Len(a)) /\ ~(i > Len(b)) /\ a[i] = b[i]
    BY <1>1
  <2> QED BY <2>1 DEF Rank
<1>3. Rank(a, n + 1) = 1
  BY <1>1 DEF Rank
<1>4. Rank(b, n + 1) = 0
  <2>1. ~(n + 1 > Len(b)) /\ b[n + 1] = "~"
    BY <1>1
  <2> QED BY <2>1 DEF Rank
<1>5. TextCompare(a, b) = Sign(Rank(a, n + 1) - Rank(b, n + 1))
  BY <1>1, <1>2 DEF TextCompare
<1>6. Sign(1 - 0) = 1
  BY DEF Sign
<1> QED BY <1>3, <1>4, <1>5, <1>6

LEMMA TildedCompare ==
    ASSUME NEW p \in PartList, NEW q \in PartList, Len(p) % 2 = 1, Tilded(p, q)
    PROVE  PartsCompare(p, q) = 1
<1> DEFINE n == Len(p)
<1>1. n \in Nat \ {0} /\ Len(q) \in Nat /\ n <= Len(q) /\ n \in 1..n
  <2>1. n \in Nat /\ Len(q) \in Nat
    BY ListIs
  <2>2. n <= Len(q)
    BY DEF Tilded
  <2> HIDE DEF n
  <2>3. n % 2 = 1
    BY DEF n
  <2> QED BY <2>1, <2>2, <2>3
<1>2. p[n] \in Part /\ q[n] \in Part /\ p[n].val = -1 /\ q[n].val = -1
  <2>1. n \in 1..Len(q) /\ n \in 1..Len(p) /\ n % 2 = 1
    BY <1>1
  <2> HIDE DEF n
  <2> QED BY <2>1, ListIs
<1>3. PartCompare(p[n], q[n]) = 1
  <2>1. p[n].str \in Seq(TextChar) /\ q[n].str \in Seq(TextChar)
    BY <1>2 DEF Part
  <2>2. TextCompare(p[n].str, q[n].str) = 1
    BY <2>1, TextTilded DEF Tilded
  <2> QED BY <1>2, <2>2 DEF PartCompare
<1>4. \A i \in 1..n - 1 : PartCompare(p[i], q[i]) = 0
  <2> TAKE i \in 1..n - 1
  <2>1. q[i] = p[i]
    BY DEF Tilded, Same
  <2>2. i \in 1..n
    BY <1>1
  <2>3. p[i] \in Part
    BY <2>2, ListIs
  <2> QED BY <2>1, <2>3, PartSelf
<1> HIDE DEF n
<1>5. n <= Len(p)
  BY <1>1 DEF n
<1> QED BY <1>1, <1>3, <1>4, <1>5, DifferAt

(* What is added after a "~" does not change the epoch.                    *)
LEMMA SameEpoch ==
    ASSUME NEW s \in Seq(Char), NEW t \in Seq(Char), Valid(s), Valid(Around(s, "~", t))
    PROVE  LET w == Around(s, "~", t)
           IN  Epoch(w) = Epoch(s) /\ Rest(w) = Around(Rest(s), "~", t)
<1> DEFINE w == Around(s, "~", t)
<1>1. w \in Seq(Char) /\ Image(w) = Image(s) \cup {"~"} \cup Image(t)
  BY SignsAre, AroundIs, AroundImage
<1>2. CASE ":" \in Image(s)
  <2> DEFINE e == Epoch(s)
             r == Rest(s)
  <2>1. e \in Seq(Char) /\ r \in Seq(Char) /\ s = Around(e, ":", r) /\ ":" \notin Image(e)
    BY <1>2, EpochSplit
  <2> HIDE DEF e, r
  <2>2. w = Around(e, ":", Around(r, "~", t)) /\ Around(r, "~", t) \in Seq(Char)
    BY <2>1, SignsAre, AroundTwice, AroundIs
  <2> HIDE DEF w
  <2>3. Epoch(w) = e /\ Rest(w) = Around(r, "~", t)
    BY <2>1, <2>2, EpochOf
  <2> QED BY <2>3 DEF e, r, w
<1>3. CASE ":" \notin Image(s)
  <2>1. Epoch(s) = <<>> /\ Rest(s) = s
    BY <1>3, EpochSplit
  <2>2. ":" \notin Image(w)
    <3> SUFFICES ASSUME ":" \in Image(w) PROVE FALSE
      OBVIOUS
    <3> DEFINE k == Least(Where(w, ":"))
    <3> HIDE DEF w
    <3>1. Where(w, ":") # {}
      BY <1>1, WhereIs
    <3>2. k \in 1..Len(w) /\ w[k] = ":"
      BY <1>1, <3>1, FirstPlace
    <3>3. Epoch(w) = SubSeq(w, 1, k - 1) /\ Image(Epoch(w)) \subseteq Image(Digits)
      BY <3>1 DEF Epoch, Valid, w
    <3> HIDE DEF k
    <3>4. IsAround(w, s, "~", t)
      BY SignsAre, AroundIs DEF w
    <3>5. /\ Len(w) = Len(s) + 1 + Len(t) /\ Len(s) \in Nat /\ Len(t) \in Nat
          /\ \A i \in 1..Len(s) : w[i] = s[i]
          /\ w[Len(s) + 1] = "~"
      BY <3>4 DEF IsAround
    <3>6. k > Len(s) + 1
      <4>1. k # Len(s) + 1
        BY <3>2, <3>5
      <4>2. k \notin 1..Len(s)
        BY <1>3, <3>2, <3>5 DEF Image
      <4> QED BY <3>2, <3>5, <4>1, <4>2
    <3>7. Len(s) + 1 \in 1..k - 1
      BY <3>2, <3>5, <3>6
    <3>8. /\ SubSeq(w, 1, k - 1) \in Seq(Char) /\ Len(SubSeq(w, 1, k - 1)) = k - 1
          /\ \A i \in 1..k - 1 : SubSeq(w, 1, k - 1)[i] = w[i]
      BY <1>1, <3>2, SplitAt
    <3>9. "~" \in Image(SubSeq(w, 1, k - 1))
      <4>1. SubSeq(w, 1, k - 1)[Len(s) + 1] = "~" /\ Len(s) + 1 \in DOMAIN SubSeq(w, 1, k - 1)
        BY <3>5, <3>7, <3>8
      <4> QED BY <4>1 DEF Image
    <3> QED BY <3>3, <3>9, SignsAre DEF Digit
  <2>3. Epoch(w) = <<>> /\ Rest(w) = w
    BY <1>1, <2>2, EpochSplit
  <2> QED BY <2>1, <2>3
<1> QED BY <1>2, <1>3

LEMMA SameBeginning ==
    ASSUME NEW s \in Seq(Char), NEW t \in Seq(Char), Valid(s), Valid(Around(s, "~", t)),
           ~Digit(Last(s)), Where(s, "-") \in {{}, Where(Around(s, "~", t), "-")}
    PROVE  LET w == Around(s, "~", t)
           IN  \/ \E u \in Seq(Char) : /\ Upstream(w) = Around(Upstream(s), "~", u)
                                       /\ Upstream(s) # <<>> /\ ~Digit(Last(Upstream(s)))
               \/ /\ Upstream(w) = Upstream(s)
                  /\ Revision(w) = Around(Revision(s), "~", t)
                  /\ Revision(s) # <<>> /\ ~Digit(Last(Revision(s)))
<1> DEFINE w == Around(s, "~", t)
           r == Rest(s)
<1>1. Rest(w) = Around(r, "~", t)
  BY SameEpoch
<1>2. r \in Seq(Char) /\ Image(r) \subseteq Image(s)
  <2>1. CASE ":" \notin Image(s)
    BY <2>1, EpochSplit
  <2>2. CASE ":" \in Image(s)
    <3>1. Epoch(s) \in Seq(Char) /\ r \in Seq(Char) /\ s = Around(Epoch(s), ":", r)
      BY <2>2, EpochSplit
    <3>2. Image(Around(Epoch(s), ":", r)) = Image(Epoch(s)) \cup {":"} \cup Image(r)
      <4> HIDE DEF r
      <4> QED BY <3>1, SignsAre, AroundImage
    <3> QED BY <3>1, <3>2
  <2> QED BY <2>1, <2>2
<1>3. r # <<>> /\ Last(r) = Last(s)
  <2>1. r # <<>>
    <3> SUFFICES ASSUME r = <<>> PROVE FALSE
      OBVIOUS
    <3>1. "-" \notin Image(r)
      BY DEF Image
    <3>2. Upstream(s) = r
      BY <3>1, RevisionSplit
    <3> QED BY <3>2 DEF Valid
  <2>2. CASE ":" \notin Image(s)
    BY <2>1, <2>2, EpochSplit
  <2>3. CASE ":" \in Image(s)
    <3>1. Epoch(s) \in Seq(Char) /\ s = Around(Epoch(s), ":", r)
      BY <2>3, EpochSplit
    <3>2. Last(Around(Epoch(s), ":", r)) = Last(r)
      <4> HIDE DEF r
      <4> QED BY <1>2, <2>1, <3>1, SignsAre, AroundLast
    <3> QED BY <2>1, <3>1, <3>2
  <2> QED BY <2>1, <2>2, <2>3
<1>4. CASE Where(s, "-") = {}
  <2>1. "-" \notin Image(r)
    BY <1>2, <1>4, WhereIs
  <2>2. Upstream(s) = r
    BY <2>1, RevisionSplit
  <2>3. \E u \in Seq(Char) : Upstream(w) = Around(r, "~", u)
    <3>1. CASE "-" \notin Image(t)
      <4>1. Image(Around(r, "~", t)) = Image(r) \cup {"~"} \cup Image(t)
        <5> HIDE DEF r
        <5> QED BY <1>2, SignsAre, AroundImage
      <4>2. "-" \notin Image(Rest(w)) /\ w \in Seq(Char)
        BY <1>1, <2>1, <3>1, <4>1, SignsAre, AroundIs
      <4> HIDE DEF w
      <4>3. Upstream(w) = Rest(w)
        BY <4>2, RevisionSplit
      <4> QED BY <1>1, <4>3
    <3>2. CASE "-" \in Image(t)
      <4>1. Where(t, "-") # {}
        BY <3>2, WhereIs
      <4> DEFINE k == Most(Where(t, "-"))
                 t1 == SubSeq(t, 1, k - 1)
                 t2 == SubSeq(t, k + 1, Len(t))
      <4>2. k \in 1..Len(t) /\ t[k] = "-" /\ "-" \notin Image(t2)
        BY <4>1, LastPlace
      <4>3. t1 \in Seq(Char) /\ t2 \in Seq(Char) /\ t = Around(t1, "-", t2)
        <5> HIDE DEF k
        <5> QED BY <4>2, SplitAt
      <4> HIDE DEF t1, t2, r, w, k
      <4>4. Rest(w) = Around(Around(r, "~", t1), "-", t2) /\ Around(r, "~", t1) \in Seq(Char)
        <5>1. Around(Around(r, "~", t1), "-", t2) = Around(r, "~", Around(t1, "-", t2))
          BY <1>2, <4>3, SignsAre, AroundTwice
        <5>2. Around(r, "~", t1) \in Seq(Char)
          BY <1>2, <4>3, SignsAre, AroundIs
        <5> QED BY <1>1, <4>3, <5>1, <5>2
      <4>5. Upstream(w) = Around(r, "~", t1)
        BY <4>2, <4>3, <4>4, RevisionOf
      <4> QED BY <4>3, <4>5
    <3> QED BY <3>1, <3>2
  <2> HIDE DEF r, w
  <2> QED BY <1>3, <2>2, <2>3 DEF w
<1>5. CASE Where(s, "-") # {} /\ Where(s, "-") = Where(w, "-")
  <2>1. "-" \in Image(r)
    <3>1. "-" \in Image(s)
      BY <1>5, WhereIs
    <3>2. CASE ":" \notin Image(s)
      BY <3>1, <3>2, EpochSplit
    <3>3. CASE ":" \in Image(s)
      <4>1. Epoch(s) \in Seq(Char) /\ s = Around(Epoch(s), ":", r)
        BY <3>3, EpochSplit
      <4>2. Image(s) = Image(Epoch(s)) \cup {":"} \cup Image(r)
        <5> HIDE DEF r
        <5> QED BY <1>2, <4>1, SignsAre, AroundImage
      <4>3. Where(s, ":") # {}
        BY <3>3, WhereIs
      <4>4. "-" \notin Image(Epoch(s))
        BY <4>3, SignsAre DEF Valid, Digit
      <4> QED BY <3>1, <4>2, <4>4
    <3> QED BY <3>2, <3>3
  <2>2. "-" \notin Image(t)
    <3> SUFFICES ASSUME NEW i \in DOMAIN t, t[i] = "-" PROVE FALSE
      BY DEF Image
    <3> HIDE DEF w
    <3>1. w \in Seq(Char) /\ IsAround(w, s, "~", t)
      BY SignsAre, AroundIs DEF w
    <3>2. /\ Len(w) = Len(s) + 1 + Len(t) /\ Len(s) \in Nat /\ Len(t) \in Nat
          /\ w[Len(s) + 1 + i] = t[i] /\ i \in 1..Len(t)
      <4>1. /\ Len(w) = Len(s) + 1 + Len(t) /\ Len(s) \in Nat /\ Len(t) \in Nat
            /\ \A j \in 1..Len(t) : w[Len(s) + 1 + j] = t[j]
        BY <3>1 DEF IsAround
      <4>2. i \in 1..Len(t)
        OBVIOUS
      <4> QED BY <4>1, <4>2
    <3>3. Len(s) + 1 + i \in 1..Len(w)
      BY <3>2
    <3>4. Len(s) + 1 + i \in Where(w, "-")
      BY <3>1, <3>2, <3>3 DEF Where
    <3>5. Len(s) + 1 + i \in 1..Len(s)
      BY <1>5, <3>4, WhereIs
    <3> QED BY <3>2, <3>5
  <2> DEFINE u == Upstream(s)
             v == Revision(s)
  <2>3. u \in Seq(Char) /\ v \in Seq(Char) /\ r = Around(u, "-", v) /\ "-" \notin Image(v)
    BY <2>1, RevisionSplit
  <2>4. v # <<>>
    <3>1. Where(Rest(s), "-") # {}
      BY <1>2, <2>1, WhereIs
    <3> QED BY <3>1 DEF Valid
  <2>5. Last(r) = Last(v)
    <3> HIDE DEF u, v, r
    <3> QED BY <2>3, <2>4, SignsAre, AroundLast
  <2> HIDE DEF u, v, r, w
  <2>6. Around(v, "~", t) \in Seq(Char) /\ "-" \notin Image(Around(v, "~", t))
    <3>1. Image(Around(v, "~", t)) = Image(v) \cup {"~"} \cup Image(t)
      BY <2>3, SignsAre, AroundImage
    <3>2. Around(v, "~", t) \in Seq(Char)
      BY <2>3, SignsAre, AroundIs
    <3> QED BY <2>2, <2>3, <3>1, <3>2
  <2>7. Rest(w) = Around(u, "-", Around(v, "~", t))
    BY <1>1, <2>3, SignsAre, AroundTwice
  <2>8. Upstream(w) = u /\ Revision(w) = Around(v, "~", t)
    BY <2>3, <2>6, <2>7, RevisionOf
  <2> QED BY <1>3, <2>4, <2>5, <2>8 DEF u, v, w
<1> QED BY <1>4, <1>5

(* Whatever the versions, if no number comes out negative: one with a "~"  *)
(* after a letter comes before the version that ends there (cmp).          *)
THEOREM TildeComesFirst ==
    ASSUME NumbersFit
    PROVE  VersionSpec => []TildeFirst
<1> DEFINE Inv == /\ left \in Input /\ right \in Input
                  /\ Compared => /\ Valid(left) /\ Valid(right)
                                 /\ result = Order(left, right)
<1>1. VersionInit => Inv
  BY DEF VersionInit, Compared, NotCompared
<1>2. Inv /\ [VersionNext]_versionvars => Inv'
  BY DEF VersionNext, versioncmp, Throws, versionvars, Compared, Invalid, Order
<1>3. Inv => TildeFirst
  <2> SUFFICES ASSUME Inv, Compared, Len(left) < Len(right),
                      left = SubSeq(right, 1, Len(left)), right[Len(left) + 1] = "~",
                      ~Digit(Last(left)), Where(left, "-") \in {{}, Where(right, "-")}
               PROVE  Order(left, right) = 1
    BY DEF TildeFirst
  <2>1. left \in Seq(Char) /\ right \in Seq(Char)
    BY InputAssumption
  <2>2. PICK t \in Seq(Char) : right = Around(left, "~", t)
    <3> DEFINE k == Len(left) + 1
    <3>1. k \in 1..Len(right) /\ k - 1 = Len(left)
      BY <2>1
    <3>2. /\ SubSeq(right, k + 1, Len(right)) \in Seq(Char)
          /\ right = Around(SubSeq(right, 1, k - 1), right[k], SubSeq(right, k + 1, Len(right)))
      <4> HIDE DEF k
      <4> QED BY <2>1, <3>1, SplitAt
    <3>3. SubSeq(right, 1, k - 1) = left /\ right[k] = "~"
      BY <3>1
    <3> HIDE DEF k
    <3> QED BY <3>2, <3>3
  <2>3. /\ Parsed(left).version = Parts(Upstream(left))
        /\ Parsed(left).revision = Parts(Revision(left))
        /\ Parsed(left).epoch = EpochValue(left)
        /\ Parts(Upstream(left)) \in PartList /\ Parts(Revision(left)) \in PartList
    BY ParsedIs
  <2>4. /\ Parsed(right).version = Parts(Upstream(right))
        /\ Parsed(right).revision = Parts(Revision(right))
        /\ Parsed(right).epoch = EpochValue(right)
        /\ Parts(Upstream(right)) \in PartList /\ Parts(Revision(right)) \in PartList
    BY ParsedIs
  <2>5. EpochValue(left) = EpochValue(right)
    BY <2>1, <2>2, SameEpoch DEF EpochValue
  <2>6. \/ \E u \in Seq(Char) : /\ Upstream(right) = Around(Upstream(left), "~", u)
                                /\ Upstream(left) # <<>> /\ ~Digit(Last(Upstream(left)))
        \/ /\ Upstream(right) = Upstream(left)
           /\ Revision(right) = Around(Revision(left), "~", t)
           /\ Revision(left) # <<>> /\ ~Digit(Last(Revision(left)))
    BY <2>1, <2>2, SameBeginning
  <2>7. Upstream(left) \in Seq(Char) /\ Revision(left) \in Seq(Char)
    BY <2>1, RevisionSplit
  <2>8. CASE \E u \in Seq(Char) : /\ Upstream(right) = Around(Upstream(left), "~", u)
                                  /\ Upstream(left) # <<>> /\ ~Digit(Last(Upstream(left)))
    <3>1. PICK u \in Seq(Char) : /\ Upstream(right) = Around(Upstream(left), "~", u)
                                 /\ Upstream(left) # <<>> /\ ~Digit(Last(Upstream(left)))
      BY <2>8
    <3>2. Tilded(Parts(Upstream(left)), Parts(Upstream(right)))
      BY <2>7, <3>1, PartsTilded
    <3>3. Len(Parts(Upstream(left))) % 2 = 1
      BY <2>7, <3>1, EndsInText
    <3>4. PartsCompare(Parts(Upstream(left)), Parts(Upstream(right))) = 1
      BY <2>3, <2>4, <3>2, <3>3, TildedCompare
    <3> QED BY <2>3, <2>4, <2>5, <3>4 DEF Order, Compare
  <2>9. CASE /\ Upstream(right) = Upstream(left)
             /\ Revision(right) = Around(Revision(left), "~", t)
             /\ Revision(left) # <<>> /\ ~Digit(Last(Revision(left)))
    <3>1. PartsCompare(Parts(Upstream(left)), Parts(Upstream(right))) = 0
      BY <2>3, <2>9, ListSelf
    <3>2. Tilded(Parts(Revision(left)), Parts(Revision(right)))
      BY <2>7, <2>9, PartsTilded
    <3>3. Len(Parts(Revision(left))) % 2 = 1
      BY <2>7, <2>9, EndsInText
    <3>4. PartsCompare(Parts(Revision(left)), Parts(Revision(right))) = 1
      BY <2>3, <2>4, <3>2, <3>3, TildedCompare
    <3> QED BY <2>3, <2>4, <2>5, <3>1, <3>4 DEF Order, Compare
  <2> QED BY <2>6, <2>8, <2>9
<1> QED
  BY <1>1, <1>2, <1>3, PTL DEF VersionSpec

-----------------------------------------------------------------------------
(* Releases: numbers and dots.                                             *)

(* The parts of a release: an empty string, then a number, a dot, a number *)
(* and so on.                                                              *)
Dots(p) == \A i \in 1..Len(p) : i % 2 = 1 => p[i].str = IF i = 1 THEN <<>> ELSE <<".">>
DotsUpTo(s, n) ==
    LET p == Parts(SubSeq(s, 1, n))
    IN  /\ Dots(p) /\ 2 <= Len(p) /\ Len(p) <= n + 1
        /\ Len(p) % 2 = 0 <=> Digit(s[n])

LEMMA DotsStep ==
    ASSUME NEW s \in Seq(Char), Release(s), NEW n \in Nat \ {0}, n < Len(s), DotsUpTo(s, n)
    PROVE  DotsUpTo(s, n + 1)
<1> DEFINE t == SubSeq(s, 1, n)
           c == s[n + 1]
           p == Parts(t)
           g == Grow(p, c)
           L == Len(p)
<1>1. t \in Seq(Char) /\ c \in Char /\ SubSeq(s, 1, n + 1) = Append(t, c)
  OBVIOUS
<1>2. Parts(SubSeq(s, 1, n + 1)) = g /\ p \in Seq(Cell)
  <2> HIDE DEF t, c
  <2> QED BY <1>1, PartsAppend, PartsType
<1>3. Dots(p) /\ 2 <= L /\ L <= n + 1 /\ (L % 2 = 0 <=> Digit(s[n])) /\ L \in Nat
  BY <1>2 DEF DotsUpTo
<1> SUFFICES Dots(g) /\ 2 <= Len(g) /\ Len(g) <= n + 2 /\ (Len(g) % 2 = 0 <=> Digit(c))
  <2> HIDE DEF g
  <2>1. n + 1 + 1 = n + 2 /\ c = s[n + 1]
    OBVIOUS
  <2> HIDE DEF c
  <2> QED BY <1>2, <2>1 DEF DotsUpTo
<1>4. \/ Digit(c)
      \/ /\ ~Digit(c) /\ c = "." /\ Digit(s[n])
  <2>1. n \in DOMAIN s /\ n + 1 \in DOMAIN s
    OBVIOUS
  <2>2. Digit(c) \/ c = "."
    BY <2>1 DEF Release
  <2>3. Digit(s[n]) \/ Digit(s[n + 1])
    BY <2>1 DEF Release
  <2> QED BY <2>2, <2>3
<1> HIDE DEF t, c, p
<1>5. CASE Digit(c) /\ L % 2 = 1
  <2>1. Len(g) = L + 1 /\ Same(p, g, L) /\ g[L + 1] = NumberPart(Value(c))
    BY <1>1, <1>2, <1>5, GrowDigit
  <2> HIDE DEF g, L
  <2>2. Dots(g)
    <3> SUFFICES ASSUME NEW i \in 1..L + 1, i % 2 = 1
                 PROVE  g[i].str = IF i = 1 THEN <<>> ELSE <<".">>
      BY <2>1 DEF Dots
    <3>1. i \in 1..L
      BY <1>3, <1>5
    <3> QED BY <1>3, <2>1, <3>1 DEF Same, Dots, L
  <2>3. (L + 1) % 2 = 0
    BY <1>3, <1>5
  <2> QED BY <1>3, <1>5, <2>1, <2>2, <2>3
<1>6. CASE Digit(c) /\ L % 2 # 1
  <2>0. L # 0 /\ L % 2 = 0
    <3> HIDE DEF L
    <3> QED BY <1>3, <1>6
  <2>1. /\ Len(g) = L /\ Same(p, g, L - 1)
    BY <1>1, <1>2, <1>6, <2>0, GrowDigit
  <2> HIDE DEF g, L
  <2>2. Dots(g)
    <3> SUFFICES ASSUME NEW i \in 1..L, i % 2 = 1
                 PROVE  g[i].str = IF i = 1 THEN <<>> ELSE <<".">>
      BY <2>1 DEF Dots
    <3>1. i \in 1..L - 1
      BY <1>3, <2>0
    <3> QED BY <1>3, <2>1, <3>1 DEF Same, Dots, L
  <2> QED BY <1>3, <1>6, <2>0, <2>1, <2>2
<1>7. CASE ~Digit(c)
  <2>0. L % 2 = 0 /\ c = "."
    BY <1>3, <1>4, <1>7
  <2>1. Len(g) = L + 1 /\ Same(p, g, L) /\ g[L + 1] = TextPart(<<c>>)
    BY <1>1, <1>2, <1>7, <2>0, GrowText
  <2> HIDE DEF g, L
  <2>2. Dots(g)
    <3> SUFFICES ASSUME NEW i \in 1..L + 1, i % 2 = 1
                 PROVE  g[i].str = IF i = 1 THEN <<>> ELSE <<".">>
      BY <2>1 DEF Dots
    <3>1. CASE i \in 1..L
      BY <1>3, <2>1, <3>1 DEF Same, Dots, L
    <3>2. CASE i = L + 1
      <4>1. g[i].str = <<".">>
        BY <2>0, <2>1, <3>2 DEF TextPart
      <4> QED BY <1>3, <3>2, <4>1
    <3> QED BY <1>3, <3>1, <3>2
  <2>3. (L + 1) % 2 # 0
    BY <1>3, <2>0
  <2> QED BY <1>3, <1>7, <2>1, <2>2, <2>3
<1> QED BY <1>5, <1>6, <1>7

LEMMA DotsFirst ==
    ASSUME NEW s \in Seq(Char), s # <<>>, Digit(s[1])
    PROVE  DotsUpTo(s, 1)
<1> DEFINE c == s[1]
           g == Grow(<<>>, c)
<1>1. <<>> \in Seq(Char) /\ c \in Char /\ SubSeq(s, 1, 1) = Append(<<>>, c)
  <2>1. Len(s) \in Nat /\ 1 \in 1..Len(s) /\ 1 \in DOMAIN s
    OBVIOUS
  <2>2. c \in Char
    BY <2>1
  <2>3. SubSeq(s, 1, 1) = <<c>>
    <3> DEFINE u == SubSeq(s, 1, 1)
    <3>1. u \in Seq(Char) /\ Len(u) = 1 /\ u[1] = c
      BY <2>1
    <3> HIDE DEF u, c
    <3>2. u = <<c>>
      BY <3>1
    <3> QED BY <3>2 DEF u
  <2> QED BY <2>2, <2>3
<1>2. Parts(SubSeq(s, 1, 1)) = g
  BY <1>1, PartsAppend, PartsEmpty
<1>3. g = <<TextPart(<<>>), NumberPart(Value(c))>>
  BY DEF Grow, AddDigit
<1>4. Len(g) = 2 /\ g[1] = TextPart(<<>>)
  BY <1>3
<1> HIDE DEF g
<1>5. Dots(g)
  <2> SUFFICES ASSUME NEW i \in 1..2, i % 2 = 1 PROVE g[i].str = IF i = 1 THEN <<>> ELSE <<".">>
    BY <1>4 DEF Dots
  <2>1. i = 1
    OBVIOUS
  <2> QED BY <1>4, <2>1 DEF TextPart
<1>6. Len(g) % 2 = 0 <=> Digit(s[1])
  BY <1>4
<1>7. 2 <= Len(g) /\ Len(g) <= 1 + 1
  BY <1>4
<1> HIDE DEF c
<1> QED
  <2>1. Dots(Parts(SubSeq(s, 1, 1)))
    BY <1>2, <1>5
  <2>2. Len(Parts(SubSeq(s, 1, 1))) = Len(g)
    BY <1>2
  <2> QED BY <1>6, <1>7, <2>1, <2>2 DEF DotsUpTo

LEMMA ReleaseParts ==
    ASSUME NEW s \in Seq(Char), Valid(s), Release(s)
    PROVE  /\ Epoch(s) = <<>> /\ Upstream(s) = s /\ Revision(s) = <<>>
           /\ Dots(Parts(s)) /\ 2 <= Len(Parts(s)) /\ Len(Parts(s)) <= Len(s) + 1
<1>1. ":" \notin Image(s) /\ "-" \notin Image(s)
  <2>1. \A i \in DOMAIN s : s[i] # ":" /\ s[i] # "-"
    BY SignsAre DEF Release
  <2> QED BY <2>1 DEF Image
<1>2. Epoch(s) = <<>> /\ Rest(s) = s
  BY <1>1, EpochSplit
<1>3. Upstream(s) = s /\ Revision(s) = <<>>
  BY <1>1, <1>2, RevisionSplit
<1>4. s # <<>> /\ Digit(s[1])
  BY <1>3 DEF Valid
<1> DEFINE T == {m \in Nat : DotsUpTo(s, m + 1)}
           N == Len(s) - 1
<1>5. N \in Nat /\ N + 1 = Len(s) /\ N < Len(s)
  BY <1>4
<1>6. 0 \in T
  <2>1. DotsUpTo(s, 0 + 1)
    BY <1>4, DotsFirst
  <2> QED BY <2>1
<1>7. \A m \in Nat : m < N /\ m \in T => m + 1 \in T
  <2> SUFFICES ASSUME NEW m \in Nat, m < N, DotsUpTo(s, m + 1) PROVE DotsUpTo(s, m + 1 + 1)
    OBVIOUS
  <2>1. m + 1 \in Nat \ {0} /\ m + 1 < Len(s)
    BY <1>5
  <2> QED BY <2>1, DotsStep
<1>8. N \in T
  <2>1. N \in 0..N
    BY <1>5
  <2> HIDE DEF T, N
  <2> QED BY <1>5, <1>6, <1>7, <2>1, UpTo
<1>9. DotsUpTo(s, Len(s))
  <2>1. DotsUpTo(s, N + 1)
    BY <1>8
  <2> HIDE DEF N
  <2> QED BY <1>5, <2>1
<1>10. SubSeq(s, 1, Len(s)) = s
  OBVIOUS
<1> QED BY <1>2, <1>3, <1>9, <1>10 DEF DotsUpTo

-----------------------------------------------------------------------------
(* The numbers of a release decide.                                        *)
NumberOf(p, k) == IF 2 * k <= Len(p) THEN p[2 * k].val ELSE 0
Releases == {p \in PartList : Dots(p)}

LEMMA ReleaseList ==
    ASSUME NEW p \in Releases
    PROVE  /\ p \in PartList /\ Len(p) \in Nat
           /\ \A k \in Nat \ {0} : NumberOf(p, k) \in Nat
           /\ \A i \in 1..Len(p) : i % 2 = 0 => p[i].val \in Nat
           /\ \A i \in 1..Len(p) : i % 2 = 1 =>
                p[i] = [str |-> IF i = 1 THEN <<>> ELSE <<".">>, val |-> -1]
<1>1. p \in PartList /\ Dots(p)
  BY DEF Releases
<1>2. /\ Len(p) \in Nat
      /\ \A i \in 1..Len(p) : p[i] \in Part /\ (p[i].val = -1 <=> i % 2 = 1)
  BY <1>1, ListIs
<1>3. \A i \in 1..Len(p) : i % 2 = 0 => p[i].val \in Nat
  <2> SUFFICES ASSUME NEW i \in 1..Len(p), i % 2 = 0 PROVE p[i].val \in Nat
    OBVIOUS
  <2>1. p[i] \in Part /\ p[i].val # -1
    BY <1>2
  <2> QED BY <2>1 DEF Part
<1>4. \A k \in Nat \ {0} : NumberOf(p, k) \in Nat
  <2> SUFFICES ASSUME NEW k \in Nat \ {0}, 2 * k <= Len(p) PROVE p[2 * k].val \in Nat
    BY DEF NumberOf
  <2>1. 2 * k \in 1..Len(p) /\ (2 * k) % 2 = 0
    BY <1>2
  <2> QED BY <1>3, <2>1
<1>5. \A i \in 1..Len(p) : i % 2 = 1 =>
            p[i] = [str |-> IF i = 1 THEN <<>> ELSE <<".">>, val |-> -1]
  <2> SUFFICES ASSUME NEW i \in 1..Len(p), i % 2 = 1
               PROVE  p[i] = [str |-> IF i = 1 THEN <<>> ELSE <<".">>, val |-> -1]
    OBVIOUS
  <2>1. p[i] = [str |-> p[i].str, val |-> p[i].val]
    BY <1>2 DEF Part
  <2>2. p[i].val = -1 /\ p[i].str = IF i = 1 THEN <<>> ELSE <<".">>
    BY <1>1, <1>2 DEF Dots
  <2> QED BY <2>1, <2>2
<1> QED BY <1>1, <1>2, <1>3, <1>4, <1>5

LEMMA SameNumbers ==
    ASSUME NEW a \in Releases, NEW b \in Releases, NEW i \in Nat \ {0},
           i <= Len(a), i <= Len(b), \A k \in Nat \ {0} : 2 * k = i => NumberOf(a, k) = NumberOf(b, k)
    PROVE  PartCompare(a[i], b[i]) = 0
<1>1. i \in 1..Len(a) /\ i \in 1..Len(b)
  BY ReleaseList
<1>2. CASE i % 2 = 1
  <2>1. a[i] = b[i] /\ a[i] \in Part
    BY <1>1, <1>2, ReleaseList, ListIs
  <2> QED BY <2>1, PartSelf
<1>3. CASE i % 2 = 0
  <2>1. PICK k \in Nat \ {0} : 2 * k = i
    <3>1. i \div 2 \in Nat \ {0} /\ 2 * (i \div 2) = i
      BY <1>3
    <3> QED BY <3>1
  <2>2. a[i].val = b[i].val
    BY <1>1, <2>1 DEF NumberOf
  <2>3. a[i].val \in Nat
    BY <1>1, <1>3, ReleaseList
  <2>4. Sign(a[i].val - b[i].val) = 0
    BY <2>2, <2>3 DEF Sign
  <2> QED BY <2>2, <2>3, <2>4 DEF PartCompare
<1> QED BY <1>2, <1>3

(* The first number that differs.                                          *)
LEMMA FirstNumber ==
    ASSUME NEW a \in Releases, NEW b \in Releases, NEW j \in Nat \ {0},
           \A k \in Nat \ {0} : k < j => NumberOf(a, k) = NumberOf(b, k),
           NumberOf(a, j) # NumberOf(b, j), 2 * j <= Len(a)
    PROVE  PartsCompare(a, b) = Sign(NumberOf(a, j) - NumberOf(b, j))
<1>0. /\ Len(a) \in Nat /\ Len(b) \in Nat /\ a \in PartList /\ b \in PartList
      /\ NumberOf(a, j) \in Nat /\ NumberOf(b, j) \in Nat
  BY ReleaseList
<1>1. \A i \in Nat \ {0} : i < 2 * j /\ i <= Len(a) /\ i <= Len(b) => PartCompare(a[i], b[i]) = 0
  <2> SUFFICES ASSUME NEW i \in Nat \ {0}, i < 2 * j, i <= Len(a), i <= Len(b)
               PROVE  PartCompare(a[i], b[i]) = 0
    OBVIOUS
  <2>1. \A k \in Nat \ {0} : 2 * k = i => k < j
    OBVIOUS
  <2> QED BY <2>1, SameNumbers
<1>2. a[2 * j].val = NumberOf(a, j) /\ a[2 * j].val \in Nat
  BY <1>0 DEF NumberOf
<1>3. CASE 2 * j <= Len(b)
  <2>1. b[2 * j].val = NumberOf(b, j)
    BY <1>3 DEF NumberOf
  <2>2. PartCompare(a[2 * j], b[2 * j]) = Sign(NumberOf(a, j) - NumberOf(b, j))
    BY <1>2, <2>1 DEF PartCompare
  <2>3. Sign(NumberOf(a, j) - NumberOf(b, j)) # 0
    BY <1>0 DEF Sign
  <2>4. 2 * j \in Nat \ {0} /\ \A i \in 1..2 * j - 1 : PartCompare(a[i], b[i]) = 0
    <3>1. 2 * j \in Nat \ {0}
      OBVIOUS
    <3>2. ASSUME NEW i \in 1..2 * j - 1
          PROVE  i \in Nat \ {0} /\ i < 2 * j /\ i <= Len(a) /\ i <= Len(b)
      BY <1>0, <1>3
    <3> QED BY <1>1, <3>1, <3>2
  <2>5. PartsCompare(a, b) = PartCompare(a[2 * j], b[2 * j])
    BY <1>0, <1>3, <2>2, <2>3, <2>4, DifferAt
  <2> QED BY <2>2, <2>5
<1>4. CASE ~(2 * j <= Len(b))
  <2> DEFINE m == Shorter(a, b)
  <2>1. m = Len(b) /\ m < 2 * j
    BY <1>0, <1>4 DEF Shorter
  <2>2. {i \in 1..m : PartCompare(a[i], b[i]) # 0} = {}
    <3> SUFFICES ASSUME NEW i \in 1..m PROVE PartCompare(a[i], b[i]) = 0
      OBVIOUS
    <3> HIDE DEF m
    <3>1. i \in Nat \ {0} /\ i < 2 * j /\ i <= Len(a) /\ i <= Len(b)
      BY <1>0, <2>1
    <3> QED BY <1>1, <3>1
  <2>3. NumberOf(b, j) = 0
    BY <1>4 DEF NumberOf
  <2>4. ~IsZero(a[2 * j]) /\ 2 * j \in m + 1..Len(a)
    <3>1. a[2 * j].val # 0 /\ a[2 * j].val # -1
      BY <1>0, <1>2, <2>3
    <3>2. ~IsZero(a[2 * j])
      BY <3>1 DEF IsZero
    <3> HIDE DEF m
    <3> QED BY <1>0, <2>1, <3>2
  <2>5. Longer(a, m)
    BY <2>4 DEF Longer
  <2>6. PartsCompare(a, b) = 1
    BY <2>2, <2>5 DEF PartsCompare
  <2>7. Sign(NumberOf(a, j) - NumberOf(b, j)) = 1
    BY <1>0, <2>3 DEF Sign
  <2> QED BY <2>6, <2>7
<1> QED BY <1>3, <1>4

LEMMA NoLonger ==
    ASSUME NEW a \in Releases, NEW b \in Releases,
           \A k \in Nat \ {0} : NumberOf(a, k) = NumberOf(b, k)
    PROVE  ~Longer(a, Shorter(a, b))
<1> DEFINE m == Shorter(a, b)
<1>0. Len(a) \in Nat /\ Len(b) \in Nat
  BY ReleaseList
<1> SUFFICES ASSUME NEW i \in m + 1..Len(a), ~IsZero(a[i]) PROVE FALSE
  BY DEF Longer
<1>1. i \in 1..Len(a) /\ i > Len(b) /\ i \in Nat \ {0}
  BY <1>0 DEF Shorter
<1>2. CASE i % 2 = 1
  <2>1. a[i] = [str |-> IF i = 1 THEN <<>> ELSE <<".">>, val |-> -1]
    BY <1>1, <1>2, ReleaseList
  <2>2. a[i].val = -1 /\ a[i].str \in {<<>>, <<".">>}
    BY <2>1
  <2> QED BY <2>2 DEF IsZero
<1>3. CASE i % 2 = 0
  <2>1. PICK k \in Nat \ {0} : 2 * k = i
    <3>1. i \div 2 \in Nat \ {0} /\ 2 * (i \div 2) = i
      BY <1>1, <1>3
    <3> QED BY <3>1
  <2>2. NumberOf(a, k) = a[i].val /\ NumberOf(b, k) = 0
    BY <1>0, <1>1, <2>1 DEF NumberOf
  <2>3. a[i].val = 0
    BY <2>2
  <2> QED BY <2>3 DEF IsZero
<1> QED BY <1>1, <1>2, <1>3

LEMMA EqualNumbers ==
    ASSUME NEW a \in Releases, NEW b \in Releases,
           \A k \in Nat \ {0} : NumberOf(a, k) = NumberOf(b, k)
    PROVE  PartsCompare(a, b) = 0
<1> DEFINE m == Shorter(a, b)
<1>0. Len(a) \in Nat /\ Len(b) \in Nat
  BY ReleaseList
<1>1. {i \in 1..m : PartCompare(a[i], b[i]) # 0} = {}
  <2> SUFFICES ASSUME NEW i \in 1..m PROVE PartCompare(a[i], b[i]) = 0
    OBVIOUS
  <2>1. i \in Nat \ {0} /\ i <= Len(a) /\ i <= Len(b)
    BY <1>0 DEF Shorter
  <2> QED BY <2>1, SameNumbers
<1>2. ~Longer(a, m)
  BY NoLonger
<1>3. ~Longer(b, m)
  <2>1. m = Shorter(b, a)
    BY <1>0 DEF Shorter
  <2>2. \A k \in Nat \ {0} : NumberOf(b, k) = NumberOf(a, k)
    OBVIOUS
  <2>3. ~Longer(b, Shorter(b, a))
    BY <2>2, NoLonger
  <2> QED BY <2>1, <2>3
<1> QED BY <1>1, <1>2, <1>3 DEF PartsCompare

LEMMA ReleasesInOrder ==
    ASSUME NEW s \in Seq(Char), NEW t \in Seq(Char),
           Parts(s) \in Releases, Parts(t) \in Releases,
           Len(Parts(s)) <= Len(s) + 1, Len(Parts(t)) <= Len(t) + 1, s # <<>>, t # <<>>
    PROVE  LET n == Len(s) + Len(t)
           IN  PartsCompare(Parts(s), Parts(t)) = Lexicographic(Numbers(s, n), Numbers(t, n))
<1> DEFINE n == Len(s) + Len(t)
           a == Parts(s)
           b == Parts(t)
           f == Numbers(s, n)
           g == Numbers(t, n)
<1>1. n \in Nat /\ Len(a) \in Nat /\ Len(b) \in Nat /\ Len(s) \in Nat \ {0} /\ Len(t) \in Nat \ {0}
  BY ReleaseList
<1>2. f = [k \in 1..n |-> NumberOf(a, k)] /\ g = [k \in 1..n |-> NumberOf(b, k)]
  BY DEF Numbers, NumberOf
<1>3. \A k \in Nat \ {0} : k \notin 1..n => NumberOf(a, k) = 0 /\ NumberOf(b, k) = 0
  <2> SUFFICES ASSUME NEW k \in Nat \ {0}, k > n
               PROVE  ~(2 * k <= Len(a)) /\ ~(2 * k <= Len(b))
    BY <1>1 DEF NumberOf
  <2>1. 2 * k > Len(s) + 1 /\ 2 * k > Len(t) + 1
    BY <1>1
  <2> HIDE DEF a, b
  <2> QED BY <1>1, <2>1 DEF a, b
<1>4. a \in Releases /\ b \in Releases
  OBVIOUS
<1> HIDE DEF n, a, b, f, g
<1>5. CASE f = g
  <2>1. \A k \in Nat \ {0} : NumberOf(a, k) = NumberOf(b, k)
    <3> TAKE k \in Nat \ {0}
    <3>1. CASE k \in 1..n
      <4>1. f[k] = g[k]
        BY <1>5
      <4> QED BY <1>2, <3>1, <4>1
    <3>2. CASE k \notin 1..n
      BY <1>3, <3>2
    <3> QED BY <3>1, <3>2
  <2>2. PartsCompare(a, b) = 0
    BY <1>4, <2>1, EqualNumbers
  <2> QED BY <1>5, <2>2 DEF Lexicographic, a, b, f, g, n
<1>6. CASE f # g
  <2> DEFINE D == {k \in DOMAIN f : f[k] # g[k]}
             j == Least(D)
  <2>1. DOMAIN f = 1..n /\ \A k \in 1..n : f[k] = NumberOf(a, k) /\ g[k] = NumberOf(b, k)
    BY <1>2
  <2>2. D # {}
    <3> SUFFICES ASSUME D = {} PROVE FALSE
      OBVIOUS
    <3>1. \A k \in 1..n : NumberOf(a, k) = NumberOf(b, k)
      BY <2>1
    <3> QED BY <1>2, <1>6, <3>1
  <2>3. D \in SUBSET Nat
    BY <2>1
  <2>4. j \in D /\ \A k \in D : j <= k
    <3> HIDE DEF D
    <3> QED BY <2>2, <2>3, LeastIs
  <2>5. Lexicographic(f, g) = Sign(f[j] - g[j])
    BY <1>6 DEF Lexicographic
  <2>6. j \in 1..n /\ NumberOf(a, j) # NumberOf(b, j) /\ f[j] = NumberOf(a, j) /\ g[j] = NumberOf(b, j)
    <3>1. j \in DOMAIN f /\ f[j] # g[j]
      <4> HIDE DEF j
      <4> QED BY <2>4
    <3> HIDE DEF j
    <3> QED BY <2>1, <3>1
  <2>7. \A k \in Nat \ {0} : k < j => NumberOf(a, k) = NumberOf(b, k)
    <3> SUFFICES ASSUME NEW k \in Nat \ {0}, k < j PROVE NumberOf(a, k) = NumberOf(b, k)
      OBVIOUS
    <3> HIDE DEF j
    <3>1. k \in 1..n
      BY <1>1, <2>6
    <3>2. k \notin D
      <4> HIDE DEF D
      <4>1. j \in Nat
        BY <2>6
      <4> QED BY <2>4, <4>1
    <3> QED BY <2>1, <3>1, <3>2
  <2> HIDE DEF j, D
  <2>8. j \in Nat \ {0} /\ NumberOf(a, j) \in Nat /\ NumberOf(b, j) \in Nat
    <3>1. j \in Nat \ {0}
      BY <1>1, <2>6
    <3> QED BY <1>4, <3>1, ReleaseList
  <2>9. PartsCompare(a, b) = Sign(NumberOf(a, j) - NumberOf(b, j))
    <3>1. CASE 2 * j <= Len(a)
      BY <1>4, <2>6, <2>7, <2>8, <3>1, FirstNumber
    <3>2. CASE ~(2 * j <= Len(a))
      <4>1. 2 * j <= Len(b)
        BY <2>6, <3>2 DEF NumberOf
      <4>2. PartsCompare(b, a) = Sign(NumberOf(b, j) - NumberOf(a, j))
        <5>1. \A k \in Nat \ {0} : k < j => NumberOf(b, k) = NumberOf(a, k)
          BY <2>7
        <5> QED BY <1>4, <2>6, <2>8, <4>1, <5>1, FirstNumber
      <4>3. Opposite(PartsCompare(b, a), PartsCompare(a, b))
        BY <1>4, ReleaseList, PartsOpposite
      <4>4. Sign(NumberOf(a, j) - NumberOf(b, j)) = -Sign(NumberOf(b, j) - NumberOf(a, j))
        BY <2>8 DEF Sign
      <4> QED BY <4>2, <4>3, <4>4 DEF Opposite
    <3> QED BY <3>1, <3>2
  <2> QED BY <2>5, <2>6, <2>9 DEF a, b, f, g, n
<1> QED BY <1>5, <1>6

(* Releases, numbers with dots between them, are in the order of their     *)
(* numbers, and versions with a "~" come first, as Debian has it, however  *)
(* long they are (compare_parts, cmp).                                     *)
THEOREM OrderIsDebians ==
    ASSUME NumbersFit
    PROVE  VersionSpec => []DebianOrder
<1> DEFINE Inv == /\ left \in Input /\ right \in Input
                  /\ Compared => /\ Valid(left) /\ Valid(right)
                                 /\ result = Order(left, right)
<1>1. VersionInit => Inv
  BY DEF VersionInit, Compared, NotCompared
<1>2. Inv /\ [VersionNext]_versionvars => Inv'
  BY DEF VersionNext, versioncmp, Throws, versionvars, Compared, Invalid, Order
<1>3. Inv => ReleaseOrder
  <2> SUFFICES ASSUME Inv, Compared, Release(left), Release(right)
               PROVE  LET n == Len(left) + Len(right)
                      IN  Order(left, right) = Lexicographic(Numbers(left, n), Numbers(right, n))
    BY DEF ReleaseOrder
  <2>1. left \in Seq(Char) /\ right \in Seq(Char)
    BY InputAssumption
  <2>2. /\ Epoch(left) = <<>> /\ Upstream(left) = left /\ Revision(left) = <<>>
        /\ Dots(Parts(left)) /\ Len(Parts(left)) <= Len(left) + 1 /\ left # <<>>
    <3>1. 2 <= Len(Parts(left))
      BY <2>1, ReleaseParts
    <3>2. left # <<>>
      BY <3>1, PartsEmpty
    <3> QED BY <2>1, <3>2, ReleaseParts
  <2>3. /\ Epoch(right) = <<>> /\ Upstream(right) = right /\ Revision(right) = <<>>
        /\ Dots(Parts(right)) /\ Len(Parts(right)) <= Len(right) + 1 /\ right # <<>>
    <3>1. 2 <= Len(Parts(right))
      BY <2>1, ReleaseParts
    <3>2. right # <<>>
      BY <3>1, PartsEmpty
    <3> QED BY <2>1, <3>2, ReleaseParts
  <2>4. /\ Parsed(left).version = Parts(left) /\ Parsed(left).revision = <<>>
        /\ Parsed(left).epoch = EpochValue(left) /\ Parts(left) \in PartList
    BY <2>2, ParsedIs, PartsEmpty
  <2>5. /\ Parsed(right).version = Parts(right) /\ Parsed(right).revision = <<>>
        /\ Parsed(right).epoch = EpochValue(right) /\ Parts(right) \in PartList
        /\ <<>> \in PartList
    BY <2>3, ParsedIs, PartsEmpty
  <2>6. EpochValue(left) = EpochValue(right)
    BY <2>2, <2>3 DEF EpochValue
  <2>7. PartsCompare(<<>>, <<>>) = 0
    BY <2>5, ListSelf
  <2>8. LET n == Len(left) + Len(right)
        IN  PartsCompare(Parts(left), Parts(right))
              = Lexicographic(Numbers(left, n), Numbers(right, n))
    BY <2>1, <2>2, <2>3, <2>4, <2>5, ReleasesInOrder DEF Releases
  <2>9. Order(left, right) = PartsCompare(Parts(left), Parts(right))
    BY <2>4, <2>5, <2>6, <2>7 DEF Order, Compare
  <2> QED BY <2>8, <2>9
<1>4. VersionSpec => []TildeFirst
  BY TildeComesFirst
<1> QED
  BY <1>1, <1>2, <1>3, <1>4, PTL DEF VersionSpec, DebianOrder

-----------------------------------------------------------------------------
(* Written back and read again: numbers, texts, the parts one by one.       *)

(* The digits a number is written with.                                    *)
LEMMA DigitIs ==
    ASSUME NEW d \in 0..9
    PROVE  Digits[1 + d] \in Char /\ Digit(Digits[1 + d]) /\ Value(Digits[1 + d]) = d
<1> DEFINE c == Digits[1 + d]
<1>1. 1 + d \in DOMAIN Digits
  BY DEF Digits
<1>2. Digit(c)
  BY <1>1 DEF Digit, Image
<1>3. c \in Char
  BY <1>2 DEF Digit, Char
<1>4. \A i \in 1..10, j \in 1..10 : Digits[i] = Digits[j] => i = j
  BY DEF Digits
<1> HIDE DEF c
<1>5. Value(c) \in 0..9 /\ c = Digits[1 + Value(c)]
  BY <1>2, <1>3, Characters
<1>6. 1 + d = 1 + Value(c)
  <2>1. 1 + d \in 1..10 /\ 1 + Value(c) \in 1..10 /\ Digits[1 + d] = Digits[1 + Value(c)]
    BY <1>5 DEF c
  <2> QED BY <1>4, <2>1
<1>7. Value(c) = d
  BY <1>5, <1>6
<1> QED BY <1>2, <1>3, <1>7 DEF c

(* The numbers up to n in digits: each is made from that of its tenth.     *)
DigitsOf(f, k) == (IF k < 10 THEN <<>> ELSE f[k \div 10]) \o <<Digits[1 + (k % 10)]>>

LEMMA DecimalMade ==
    ASSUME NEW n \in Nat
    PROVE  \E f \in [0..n -> Seq(Char)] :
              Decimal(n) = f[n] /\ \A k \in 0..n : f[k] = DigitsOf(f, k)
<1> DEFINE step == [m \in 1..n |-> [x \in Seq(Char) |->
                        (IF m < 10 THEN <<>> ELSE x) \o <<Digits[1 + (m % 10)]>>]]
           prev == [m \in 1..n |-> m \div 10]
           first == <<Digits[1]>>
           values(d) == [k \in 0..n |-> (IF k < 10 THEN <<>> ELSE d[k \div 10]) \o <<Digits[1 + (k % 10)]>>]
           all == CHOOSE d : d = values(d)
<1>1. \A k \in Nat : k % 10 \in 0..9 /\ Digits[1 + (k % 10)] \in Char
  <2> TAKE k \in Nat
  <2>1. k % 10 \in 0..9
    OBVIOUS
  <2> QED BY <2>1, DigitIs
<1>2. first \in Seq(Char)
  <2>1. Digits[1 + 0] \in Char
    BY DigitIs
  <2> QED BY <2>1
<1>3. step \in [1..n -> [Seq(Char) -> Seq(Char)]]
  <2>1. ASSUME NEW m \in 1..n, NEW x \in Seq(Char)
        PROVE  (IF m < 10 THEN <<>> ELSE x) \o <<Digits[1 + (m % 10)]>> \in Seq(Char)
    <3>1. Digits[1 + (m % 10)] \in Char
      BY <1>1
    <3> HIDE DEF step
    <3> QED BY <3>1
  <2> QED BY <2>1
<1>4. prev \in [1..n -> Nat] /\ \A m \in 1..n : prev[m] < m
  <2>1. \A m \in 1..n : m \div 10 \in Nat /\ m \div 10 < m
    OBVIOUS
  <2> QED BY <2>1
<1>5. PICK f \in [0..n -> Seq(Char)] :
          f[0] = first /\ \A m \in 1..n : f[m] = step[m][f[prev[m]]]
  <2> HIDE DEF step, prev, first
  <2>1. Recursive(n, Seq(Char), first, prev, step)
    BY <1>2, <1>3, <1>4 DEF Recursive
  <2> QED BY <2>1, Recursion
<1>6. \A k \in 0..n : f[k] = values(f)[k]
  <2> TAKE k \in 0..n
  <2>1. CASE k = 0
    <3>1. values(f)[k] = <<>> \o <<Digits[1 + (0 % 10)]>>
      BY <2>1
    <3>2. 1 + (0 % 10) = 1
      OBVIOUS
    <3>3. values(f)[k] = <<Digits[1]>>
      <4> HIDE DEF values
      <4> QED BY <3>1, <3>2
    <3> HIDE DEF values
    <3> QED BY <1>5, <2>1, <3>3
  <2>2. CASE k # 0
    <3>1. k \in 1..n /\ prev[k] = k \div 10 /\ k \div 10 \in 0..n
      BY <2>2
    <3>2. f[k \div 10] \in Seq(Char)
      BY <3>1
    <3>3. step[k] = [x \in Seq(Char) |-> (IF k < 10 THEN <<>> ELSE x) \o <<Digits[1 + (k % 10)]>>]
      BY <3>1
    <3>4. f[k] = step[k][f[k \div 10]]
      <4> HIDE DEF step, prev
      <4> QED BY <1>5, <3>1
    <3>5. f[k] = (IF k < 10 THEN <<>> ELSE f[k \div 10]) \o <<Digits[1 + (k % 10)]>>
      <4> HIDE DEF step
      <4> QED BY <3>2, <3>3, <3>4
    <3> QED BY <3>5
  <2> QED BY <2>1, <2>2
<1>7. f = values(f)
  <2>1. values(f) = [k \in 0..n |-> values(f)[k]] /\ f = [k \in 0..n |-> f[k]]
    OBVIOUS
  <2> HIDE DEF values
  <2> QED BY <1>6, <2>1
<1>8. all = values(all)
  <2> HIDE DEF values
  <2> QED BY <1>7
<1>9. Decimal(n) = all[n]
  BY DEF Decimal
<1>10. all = [k \in 0..n |-> all[k]]
  <2>1. \A d : values(d) = [k \in 0..n |-> values(d)[k]]
    OBVIOUS
  <2> HIDE DEF values, all
  <2> QED BY <1>8, <2>1
<1>11. \A k \in 0..n : all[k] = DigitsOf(all, k)
  <2>1. \A d : \A k \in 0..n : values(d)[k] = DigitsOf(d, k)
    BY DEF DigitsOf
  <2> HIDE DEF values, all
  <2> QED BY <1>8, <2>1
<1> HIDE DEF all
<1>12. \A k \in Nat : k \in 0..n => all[k] \in Seq(Char)
  <2> DEFINE T == {k \in Nat : k \in 0..n => all[k] \in Seq(Char)}
  <2>1. ASSUME NEW k \in Nat, \A j \in Nat : j < k => j \in T PROVE k \in T
    <3> SUFFICES ASSUME k \in 0..n PROVE all[k] \in Seq(Char)
      OBVIOUS
    <3>1. all[k] = (IF k < 10 THEN <<>> ELSE all[k \div 10]) \o <<Digits[1 + (k % 10)]>>
      BY <1>11 DEF DigitsOf
    <3>2. Digits[1 + (k % 10)] \in Char
      BY <1>1
    <3>3. k >= 10 => all[k \div 10] \in Seq(Char)
      <4>1. k >= 10 => k \div 10 \in Nat /\ k \div 10 < k /\ k \div 10 \in 0..n
        OBVIOUS
      <4> QED BY <2>1, <4>1
    <3> QED BY <3>1, <3>2, <3>3
  <2>2. Nat \subseteq T
    <3> HIDE DEF T
    <3> QED BY <2>1, Descent
  <2> QED BY <2>2
<1>13. all \in [0..n -> Seq(Char)]
  BY <1>10, <1>12
<1> QED BY <1>9, <1>11, <1>13

LEMMA SmallDigit == \A n \in 0..9 : n % 10 = n
OBVIOUS

LEMMA DecimalIs ==
    ASSUME NEW n \in Nat
    PROVE  /\ Decimal(n) \in Seq(Char)
           /\ n < 10 => Decimal(n) = <<Digits[1 + n]>>
           /\ n >= 10 => Decimal(n) = Append(Decimal(n \div 10), Digits[1 + (n % 10)])
<1>1. PICK f \in [0..n -> Seq(Char)] :
          Decimal(n) = f[n] /\ \A k \in 0..n : f[k] = DigitsOf(f, k)
  BY DecimalMade
<1>2. Decimal(n) = (IF n < 10 THEN <<>> ELSE f[n \div 10]) \o <<Digits[1 + (n % 10)]>>
  BY <1>1 DEF DigitsOf
<1>3. Decimal(n) \in Seq(Char)
  BY <1>1
<1>4. ASSUME n < 10 PROVE Decimal(n) = <<Digits[1 + n]>>
  <2>1. n % 10 = n
    <3>1. n \in 0..9
      BY <1>4
    <3> QED BY <3>1, SmallDigit
  <2>2. Decimal(n) = <<>> \o <<Digits[1 + n]>>
    BY <1>2, <1>4, <2>1
  <2> QED BY <2>2
<1>5. ASSUME n >= 10 PROVE Decimal(n) = Append(Decimal(n \div 10), Digits[1 + (n % 10)])
  <2> DEFINE m == n \div 10
  <2>1. m \in Nat /\ m < n /\ m \in 0..n
    BY <1>5
  <2>2. PICK g \in [0..m -> Seq(Char)] :
            Decimal(m) = g[m] /\ \A k \in 0..m : g[k] = DigitsOf(g, k)
    BY <2>1, DecimalMade
  <2> DEFINE T == {k \in Nat : k <= m => f[k] = g[k]}
  <2>3. ASSUME NEW k \in Nat, \A j \in Nat : j < k => j \in T PROVE k \in T
    <3> SUFFICES ASSUME k <= m PROVE f[k] = g[k]
      OBVIOUS
    <3> HIDE DEF m
    <3>1. k \in 0..n /\ k \in 0..m
      BY <2>1
    <3>2. f[k] = DigitsOf(f, k) /\ g[k] = DigitsOf(g, k)
      BY <1>1, <2>2, <3>1
    <3>3. k >= 10 => f[k \div 10] = g[k \div 10]
      <4> SUFFICES ASSUME k >= 10 PROVE f[k \div 10] = g[k \div 10]
        OBVIOUS
      <4>1. k \div 10 \in Nat /\ k \div 10 < k /\ k \div 10 <= m
        BY <2>1
      <4>2. k \div 10 \in T
        <5> HIDE DEF T
        <5> QED BY <2>3, <4>1
      <4> QED BY <4>1, <4>2
    <3>4. CASE k < 10
      BY <3>2, <3>4 DEF DigitsOf
    <3>5. CASE k >= 10
      <4>1. ~(k < 10)
        BY <3>5
      <4> QED BY <3>2, <3>3, <3>5, <4>1 DEF DigitsOf
    <3> QED BY <3>4, <3>5
  <2>4. f[m] = g[m]
    <3>1. Nat \subseteq T
      <4> HIDE DEF T
      <4> QED BY <2>3, Descent
    <3> HIDE DEF m
    <3> QED BY <2>1, <3>1
  <2>5. Decimal(n) = Decimal(m) \o <<Digits[1 + (n % 10)]>>
    <3>1. ~(n < 10)
      BY <1>5
    <3>2. Decimal(n) = f[m] \o <<Digits[1 + (n % 10)]>>
      BY <1>2, <3>1
    <3> HIDE DEF m
    <3> QED BY <2>2, <2>4, <3>2
  <2>6. Digits[1 + (n % 10)] \in Char
    <3>1. n % 10 \in 0..9
      OBVIOUS
    <3> QED BY <3>1, DigitIs
  <2>7. Decimal(m) \in Seq(Char)
    BY <2>1, <2>2
  <2> HIDE DEF m
  <2>8. Decimal(n) = Append(Decimal(m), Digits[1 + (n % 10)])
    BY <2>5, <2>6, <2>7
  <2> QED BY <2>8 DEF m
<1> QED BY <1>3, <1>4, <1>5

(* What is read after a number that is written, or after a text.           *)
Extended(p, n) == IF p = <<>> THEN <<TextPart(<<>>), NumberPart(n)>> ELSE Append(p, NumberPart(n))

LEMMA AppendEnds ==
    ASSUME NEW S, NEW p \in Seq(S), NEW x \in S
    PROVE  Front(Append(p, x)) = p /\ Last(Append(p, x)) = x
           /\ Len(Append(p, x)) = Len(p) + 1 /\ Append(p, x) # <<>>
<1> DEFINE q == Append(p, x)
<1>1. q \in Seq(S) /\ Len(q) = Len(p) + 1 /\ q[Len(p) + 1] = x /\ \A i \in 1..Len(p) : q[i] = p[i]
  OBVIOUS
<1>2. Len(p) \in Nat /\ Len(q) - 1 = Len(p)
  BY <1>1
<1> HIDE DEF q
<1>3. SubSeq(q, 1, Len(p)) = p
  <2> DEFINE f == SubSeq(q, 1, Len(p))
  <2>1. f \in Seq(S) /\ Len(f) = Len(p) /\ \A i \in 1..Len(p) : f[i] = q[i]
    BY <1>1, <1>2
  <2> HIDE DEF f
  <2>2. f = p
    BY <1>1, <2>1
  <2> QED BY <2>2 DEF f
<1>4. Front(q) = p /\ Last(q) = x
  BY <1>1, <1>2, <1>3 DEF Front, Last
<1>5. q # <<>>
  BY <1>1, <1>2
<1> QED BY <1>1, <1>4, <1>5 DEF q

LEMMA ExtendedIs ==
    ASSUME NEW p \in Seq(Cell), NEW n \in Int, p = <<>> \/ Len(p) % 2 = 1
    PROVE  /\ Extended(p, n) \in Seq(Cell) /\ Len(Extended(p, n)) % 2 = 0
           /\ Extended(p, n) # <<>>
           /\ Last(Extended(p, n)) = NumberPart(n)
           /\ \A k : Append(Front(Extended(p, n)), NumberPart(k)) = Extended(p, k)
<1> DEFINE x == NumberPart(n)
           e == TextPart(<<>>)
<1>1. x \in Cell /\ e \in Cell
  <2>1. <<>> \in Seq(TextChar)
    OBVIOUS
  <2> QED BY <2>1 DEF NumberPart, TextPart, Cell
<1>2. CASE p = <<>>
  <2>1. <<e>> \in Seq(Cell) /\ Len(<<e>>) = 1
    BY <1>1
  <2>2. \A k : <<e, NumberPart(k)>> = Append(<<e>>, NumberPart(k))
    OBVIOUS
  <2>3. Extended(p, n) = Append(<<e>>, x) /\ \A k : Extended(p, k) = Append(<<e>>, NumberPart(k))
    BY <1>2, <2>2 DEF Extended
  <2> HIDE DEF x, e
  <2> DEFINE b == <<e>>
             q == Append(b, x)
  <2> HIDE DEF b
  <2>4. Front(q) = b /\ Last(q) = x /\ Len(q) = Len(b) + 1 /\ q # <<>> /\ q \in Seq(Cell)
    <3>1. b \in Seq(Cell)
      BY <2>1 DEF b
    <3> HIDE DEF x
    <3> QED BY <1>1, <3>1, AppendEnds
  <2>5. Len(b) + 1 = 2 /\ 2 % 2 = 0
    BY <2>1 DEF b
  <2>6. Extended(p, n) = q /\ \A k : Extended(p, k) = Append(b, NumberPart(k))
    BY <2>3 DEF b
  <2> HIDE DEF q
  <2> QED BY <2>4, <2>5, <2>6 DEF x
<1>3. CASE p # <<>>
  <2>1. Extended(p, n) = Append(p, x) /\ \A k : Extended(p, k) = Append(p, NumberPart(k))
    BY <1>3 DEF Extended
  <2> HIDE DEF x, e
  <2>2. Front(Append(p, x)) = p /\ Last(Append(p, x)) = x
        /\ Len(Append(p, x)) = Len(p) + 1 /\ Append(p, x) # <<>> /\ Append(p, x) \in Seq(Cell)
    BY <1>1, AppendEnds
  <2>3. (Len(p) + 1) % 2 = 0
    BY <1>3
  <2> QED BY <2>1, <2>2, <2>3 DEF x
<1> QED BY <1>2, <1>3

(* string_to_parts() reads a number as it is written.                      *)
LEMMA NumberRead ==
    ASSUME NEW t \in Seq(Char), Parts(t) = <<>> \/ Len(Parts(t)) % 2 = 1,
           NEW v \in Nat, v \in 0..9 \/ v <= MaxInt
    PROVE  Parts(t \o Decimal(v)) = Extended(Parts(t), v)
<1> DEFINE p == Parts(t)
           T == {n \in Nat : n \in 0..9 \/ n <= MaxInt => Parts(t \o Decimal(n)) = Extended(p, n)}
<1>0. p \in Seq(Cell)
  BY PartsType
<1>1. ASSUME NEW n \in Nat, \A k \in Nat : k < n => k \in T PROVE n \in T
  <2> SUFFICES ASSUME n \in 0..9 \/ n <= MaxInt PROVE Parts(t \o Decimal(n)) = Extended(p, n)
    OBVIOUS
  <2>1. CASE n < 10
    <3> DEFINE c == Digits[1 + n]
    <3>1. c \in Char /\ Digit(c) /\ Value(c) = n
      <4>1. n \in 0..9
        BY <2>1
      <4> QED BY <4>1, DigitIs
    <3>2. Decimal(n) = <<c>>
      BY <2>1, DecimalIs
    <3> HIDE DEF c
    <3>3. t \o Decimal(n) = Append(t, c)
      BY <3>1, <3>2
    <3>4. Parts(t \o Decimal(n)) = AddDigit(p, Len(p) % 2 = 1, n)
      BY <3>1, <3>3, PartsAppend DEF Grow
    <3> HIDE DEF p
    <3>5. AddDigit(p, Len(p) % 2 = 1, n) = Extended(p, n)
      BY DEF AddDigit, Extended, p
    <3> QED BY <3>4, <3>5
  <2>2. CASE n >= 10
    <3> DEFINE m == n \div 10
               c == Digits[1 + (n % 10)]
    <3>1. m \in Nat /\ m < n /\ m * 10 + (n % 10) = n /\ n % 10 \in 0..9 /\ n <= MaxInt /\ m <= MaxInt
      BY <2>2, MaxIntAssumption
    <3>2. c \in Char /\ Digit(c) /\ Value(c) = n % 10
      BY <3>1, DigitIs
    <3>3. Decimal(n) = Append(Decimal(m), c) /\ Decimal(m) \in Seq(Char)
      BY <2>2, <3>1, DecimalIs
    <3>4. Parts(t \o Decimal(m)) = Extended(p, m)
      <4> HIDE DEF m, p
      <4>1. m \in T
        <5> HIDE DEF T
        <5> QED BY <1>1, <3>1
      <4> QED BY <3>1, <4>1
    <3> HIDE DEF m, c
    <3>5. t \o Decimal(n) = Append(t \o Decimal(m), c) /\ t \o Decimal(m) \in Seq(Char)
      BY <3>2, <3>3
    <3>6. Parts(t \o Decimal(n)) = Grow(Extended(p, m), c)
      BY <3>2, <3>4, <3>5, PartsAppend
    <3> HIDE DEF p
    <3>7. /\ Len(Extended(p, m)) % 2 = 0 /\ Extended(p, m) # <<>>
          /\ Last(Extended(p, m)) = NumberPart(m)
          /\ \A k : Append(Front(Extended(p, m)), NumberPart(k)) = Extended(p, k)
      <4>1. p = <<>> \/ Len(p) % 2 = 1
        BY DEF p
      <4>2. m \in Int
        BY <3>1
      <4> QED BY <1>0, <4>1, <4>2, ExtendedIs
    <3>8. Grow(Extended(p, m), c) = Extended(p, Wrap(NumberPart(m).val * 10 + (n % 10)))
      <4> DEFINE q == Extended(p, m)
      <4>1. q # <<>> /\ ~(Len(q) % 2 = 1) /\ Last(q) = NumberPart(m)
        BY <3>7
      <4> HIDE DEF q
      <4>2. Grow(q, c) = Append(Front(q), NumberPart(Wrap(NumberPart(m).val * 10 + (n % 10))))
        BY <3>2, <4>1 DEF Grow, AddDigit
      <4> QED BY <3>7, <4>2 DEF q
    <3>9. NumberPart(m).val = m
      BY DEF NumberPart
    <3>10. Wrap(m * 10 + (n % 10)) = n
      <4>1. n \in 0..MaxInt /\ n \in Int
        BY <3>1, MaxIntAssumption
      <4>2. Wrap(n) = n
        BY <4>1, WrapIs
      <4>3. m * 10 + (n % 10) = n
        BY <3>1
      <4> QED BY <4>2, <4>3
    <3> QED BY <3>6, <3>8, <3>9, <3>10
  <2> QED BY <2>1, <2>2
<1>2. Nat \subseteq T
  <2> HIDE DEF T
  <2> QED BY <1>1, Descent
<1> HIDE DEF p
<1>3. v \in T
  <2> HIDE DEF T
  <2> QED BY <1>2
<1> QED BY <1>3 DEF p

LEMMA TextIsNoDigit ==
    ASSUME NEW c \in TextChar
    PROVE  c \in Char /\ ~Digit(c)
BY DEF TextChar, Char, Digit, Image, Letters, Signs, Digits

(* string_to_parts() reads a text after a number, or at the beginning.     *)
LEMMA TextRead ==
    ASSUME NEW t \in Seq(Char), Len(Parts(t)) % 2 = 0, NEW x \in Seq(TextChar), x # <<>>
    PROVE  Parts(t \o x) = Append(Parts(t), TextPart(x))
<1> DEFINE p == Parts(t)
           T == {y \in Seq(TextChar) : y # <<>> => Parts(t \o y) = Append(p, TextPart(y))}
<1>0. p \in Seq(Cell)
  BY PartsType
<1>1. <<>> \in T
  OBVIOUS
<1>2. ASSUME NEW y \in Seq(TextChar), NEW c \in TextChar, y \in T PROVE Append(y, c) \in T
  <2>0. c \in Char /\ ~Digit(c) /\ y \in Seq(Char)
    <3>1. c \in Char /\ ~Digit(c)
      BY TextIsNoDigit
    <3>2. TextChar \subseteq Char
      BY TextIsNoDigit
    <3> QED BY <3>1, <3>2
  <2>1. Append(y, c) \in Seq(TextChar) /\ t \o Append(y, c) = Append(t \o y, c) /\ t \o y \in Seq(Char)
    BY <2>0
  <2>2. Parts(t \o Append(y, c)) = Grow(Parts(t \o y), c)
    BY <2>0, <2>1, PartsAppend
  <2>3. CASE y = <<>>
    <3>1. t \o y = t /\ Append(y, c) = <<c>>
      BY <2>3
    <3>2. Grow(p, c) = Append(p, TextPart(<<c>>))
      <4>1. ~(Len(p) % 2 = 1)
        OBVIOUS
      <4> HIDE DEF p
      <4> QED BY <2>0, <4>1 DEF Grow, AddChar
    <3> HIDE DEF p
    <3> QED BY <2>1, <2>2, <3>1, <3>2 DEF p
  <2>4. CASE y # <<>>
    <3> HIDE DEF p
    <3>1. Parts(t \o y) = Append(p, TextPart(y)) /\ TextPart(y) \in Cell
      BY <2>4, <1>2 DEF TextPart, Cell
    <3>2. /\ Front(Append(p, TextPart(y))) = p /\ Last(Append(p, TextPart(y))) = TextPart(y)
          /\ Len(Append(p, TextPart(y))) = Len(p) + 1
      BY <1>0, <3>1, AppendEnds
    <3>3. (Len(p) + 1) % 2 = 1
      BY <1>0 DEF p
    <3>4. TextPart(y).str = y
      BY DEF TextPart
    <3>5. Grow(Append(p, TextPart(y)), c) = Append(p, TextPart(Append(y, c)))
      BY <2>0, <3>2, <3>3, <3>4 DEF Grow, AddChar
    <3> QED BY <2>1, <2>2, <3>1, <3>5
  <2> QED BY <2>3, <2>4
<1>3. Seq(TextChar) \subseteq T
  <2> HIDE DEF T
  <2>1. \A y \in Seq(TextChar), c \in TextChar : y \in T => Append(y, c) \in T
    BY <1>2
  <2> QED BY <1>1, <2>1, StringByString
<1> HIDE DEF p
<1>4. x \in T
  <2> HIDE DEF T
  <2> QED BY <1>3
<1> QED BY <1>4 DEF p

(* What is left out of what is written is zero.                            *)
LEMMA TrimmedIs ==
    ASSUME NEW p \in Seq(Cell)
    PROVE  \E k \in 0..Len(p) :
              /\ Trimmed(p) = SubSeq(p, 1, k) /\ Trimmed(p) \in Seq(Cell) /\ Len(Trimmed(p)) = k
              /\ \A i \in 1..k : Trimmed(p)[i] = p[i]
              /\ \A i \in k + 1..Len(p) : i > 2 /\ IsZero(p[i])
<1> DEFINE kept == {n \in 0..Len(p) : \A i \in n + 1..Len(p) : i > 2 /\ IsZero(p[i])}
           k == Least(kept)
<1>1. Len(p) \in Nat
  OBVIOUS
<1>2. Len(p) \in kept /\ kept \in SUBSET Nat
  <2>1. Len(p) \in 0..Len(p) /\ Len(p) + 1..Len(p) = {}
    BY <1>1
  <2> QED BY <2>1
<1>3. k \in kept
  <2> HIDE DEF kept
  <2> QED BY <1>2, LeastIs
<1>4. Trimmed(p) = SubSeq(p, 1, k)
  BY DEF Trimmed
<1>5. k \in 0..Len(p) /\ \A i \in k + 1..Len(p) : i > 2 /\ IsZero(p[i])
  <2> HIDE DEF k
  <2> QED BY <1>3
<1> HIDE DEF k, kept
<1>6. SubSeq(p, 1, k) \in Seq(Cell) /\ Len(SubSeq(p, 1, k)) = k /\ \A i \in 1..k : SubSeq(p, 1, k)[i] = p[i]
  BY <1>1, <1>5
<1> QED BY <1>4, <1>5, <1>6

LEMMA TrimmedSame ==
    ASSUME NEW p \in PartList, p \in Shaped
    PROVE  PartsCompare(p, Trimmed(p)) = 0
<1>1. p \in Seq(Cell) /\ Len(p) \in Nat /\ \A i \in 1..Len(p) : p[i] \in Part
  BY ListIs DEF Shaped
<1>2. PICK k \in 0..Len(p) :
        /\ Len(Trimmed(p)) = k /\ \A i \in 1..k : Trimmed(p)[i] = p[i]
        /\ \A i \in k + 1..Len(p) : IsZero(p[i])
  BY <1>1, TrimmedIs
<1> DEFINE t == Trimmed(p)
<1>3. Shorter(p, t) = k
  BY <1>1, <1>2 DEF Shorter
<1>4. {i \in 1..k : PartCompare(p[i], t[i]) # 0} = {}
  <2> SUFFICES ASSUME NEW i \in 1..k PROVE PartCompare(p[i], t[i]) = 0
    OBVIOUS
  <2>1. t[i] = p[i] /\ p[i] \in Part
    BY <1>1, <1>2
  <2> QED BY <2>1, PartSelf
<1>5. ~Longer(p, k)
  BY <1>2 DEF Longer
<1>6. ~Longer(t, k)
  BY <1>2 DEF Longer
<1> HIDE DEF t
<1> QED BY <1>3, <1>4, <1>5, <1>6 DEF PartsCompare, t

(* How a part is written.                                                  *)
TextOf(a) == IF a.val = -1 THEN a.str ELSE Decimal(a.val)

LEMMA TrimmedParts ==
    ASSUME NEW p \in PartList, p \in Shaped
    PROVE  LET t == Trimmed(p)
           IN  /\ t \in Seq(Cell) /\ Len(t) \in Nat
               /\ \A i \in 1..Len(t) : i % 2 = 1 =>
                    t[i].val = -1 /\ t[i].str \in Seq(TextChar) /\ (i > 1 => t[i].str # <<>>)
                    /\ t[i] = TextPart(t[i].str)
               /\ \A i \in 1..Len(t) : i % 2 # 1 =>
                    t[i].val \in Nat /\ (t[i].val \in 0..9 \/ t[i].val <= MaxInt)
                    /\ t[i] = NumberPart(t[i].val)
               /\ \A i \in 1..Len(t) : TextOf(t[i]) \in Seq(Char)
               /\ Len(t) = 1 => t[1].str # <<>>
               /\ t = <<>> => p = <<>>
<1>1. /\ p \in Seq(Cell) /\ Len(p) \in Nat /\ DOMAIN p = 1..Len(p)
      /\ \A i \in 1..Len(p) : IF i % 2 = 1 THEN OddPart(p, i) ELSE EvenPart(p, i)
      /\ Len(p) = 1 => p[1].str # <<>>
  BY DEF Shaped
<1>2. \A i \in 1..Len(p) : p[i] \in Part /\ p[i] \in Cell /\ (p[i].val = -1 <=> i % 2 = 1)
  BY <1>1, ListIs
<1>3. PICK k \in 0..Len(p) :
        /\ Trimmed(p) \in Seq(Cell) /\ Len(Trimmed(p)) = k /\ \A i \in 1..k : Trimmed(p)[i] = p[i]
        /\ \A i \in k + 1..Len(p) : i > 2
  BY <1>1, TrimmedIs
<1> DEFINE t == Trimmed(p)
<1>4. ASSUME NEW i \in 1..k, i % 2 = 1
      PROVE  t[i].val = -1 /\ t[i].str \in Seq(TextChar) /\ (i > 1 => t[i].str # <<>>)
             /\ t[i] = TextPart(t[i].str)
  <2>1. i \in 1..Len(p) /\ t[i] = p[i]
    BY <1>3
  <2> HIDE DEF t
  <2>2. OddPart(p, i) /\ p[i] \in Cell
    BY <1>1, <1>2, <1>4, <2>1
  <2>3. p[i].val = -1 /\ p[i].str \in Seq(TextChar) /\ (i > 1 => p[i].str # <<>>)
    BY <2>2 DEF OddPart, Cell
  <2>4. p[i] = [str |-> p[i].str, val |-> p[i].val]
    BY <2>2 DEF Cell
  <2> QED BY <2>1, <2>3, <2>4 DEF TextPart
<1>5. ASSUME NEW i \in 1..k, i % 2 # 1
      PROVE  t[i].val \in Nat /\ (t[i].val \in 0..9 \/ t[i].val <= MaxInt)
             /\ t[i] = NumberPart(t[i].val)
  <2>1. i \in 1..Len(p) /\ t[i] = p[i]
    BY <1>3
  <2> HIDE DEF t
  <2>2. EvenPart(p, i) /\ p[i] \in Cell /\ p[i] \in Part /\ p[i].val # -1
    BY <1>1, <1>2, <1>5, <2>1
  <2>3. p[i].val \in Nat /\ (p[i].val \in 0..9 \/ p[i].val <= MaxInt) /\ p[i].str = <<>>
    BY <2>2 DEF EvenPart, Part
  <2>4. p[i] = [str |-> p[i].str, val |-> p[i].val]
    BY <2>2 DEF Cell
  <2> QED BY <2>1, <2>3, <2>4 DEF NumberPart
<1>6. ASSUME NEW i \in 1..k PROVE TextOf(t[i]) \in Seq(Char)
  <2> HIDE DEF t
  <2>1. CASE i % 2 = 1
    <3>1. t[i].val = -1 /\ t[i].str \in Seq(TextChar)
      BY <1>4, <2>1
    <3>2. TextChar \subseteq Char
      BY TextIsNoDigit
    <3> QED BY <3>1, <3>2 DEF TextOf
  <2>2. CASE i % 2 # 1
    <3>1. t[i].val \in Nat
      BY <1>5, <2>2
    <3>2. TextOf(t[i]) = Decimal(t[i].val)
      BY <3>1 DEF TextOf
    <3> QED BY <3>1, <3>2, DecimalIs
  <2> QED BY <2>1, <2>2
<1>7. Len(t) = 1 => t[1].str # <<>>
  <2> SUFFICES ASSUME k = 1 PROVE t[1].str # <<>>
    BY <1>3
  <2>1. Len(p) = 1
    <3>1. ~(2 \in k + 1..Len(p))
      BY <1>3
    <3> QED BY <1>1, <3>1
  <2>2. t[1] = p[1]
    BY <1>3
  <2> QED BY <1>1, <2>1, <2>2
<1>8. t = <<>> => p = <<>>
  <2> SUFFICES ASSUME k = 0 PROVE p = <<>>
    BY <1>3
  <2>1. ~(1 \in k + 1..Len(p))
    BY <1>3
  <2> QED BY <1>1, <2>1
<1> HIDE DEF t
<1>9. t \in Seq(Cell) /\ Len(t) = k /\ k \in Nat
  BY <1>1, <1>3 DEF t
<1> QED BY <1>4, <1>5, <1>6, <1>7, <1>8, <1>9 DEF t

(* parts_to_string() adds one part after the other.                        *)
Writes(f, t) ==
    /\ f \in [0..Len(t) -> Seq(Char)] /\ f[0] = <<>>
    /\ \A n \in 1..Len(t) : f[n] = f[n - 1] \o TextOf(t[n])

LEMMA WrittenMade ==
    ASSUME NEW p, NEW t, t = Trimmed(p), Len(t) \in Nat,
           \A i \in 1..Len(t) : TextOf(t[i]) \in Seq(Char)
    PROVE  \E f : Writes(f, t) /\ Written(p) = f[Len(t)]
<1> DEFINE N == Len(t)
           step == [m \in 1..N |-> [s \in Seq(Char) |-> s \o TextOf(t[m])]]
           prev == [m \in 1..N |-> m - 1]
           values(d) == [n \in 0..N |->
                            IF n = 0 THEN <<>>
                            ELSE d[n - 1] \o IF t[n].val = -1 THEN t[n].str ELSE Decimal(t[n].val)]
           all == CHOOSE d : d = values(d)
<1>1. N \in Nat /\ <<>> \in Seq(Char)
  OBVIOUS
<1>2. step \in [1..N -> [Seq(Char) -> Seq(Char)]]
  <2>1. ASSUME NEW m \in 1..N, NEW s \in Seq(Char) PROVE s \o TextOf(t[m]) \in Seq(Char)
    OBVIOUS
  <2> QED BY <2>1
<1>3. prev \in [1..N -> Nat] /\ \A m \in 1..N : prev[m] < m
  BY <1>1
<1>4. PICK f \in [0..N -> Seq(Char)] :
          f[0] = <<>> /\ \A m \in 1..N : f[m] = step[m][f[prev[m]]]
  <2> HIDE DEF N, step, prev
  <2>1. Recursive(N, Seq(Char), <<>>, prev, step)
    BY <1>1, <1>2, <1>3 DEF Recursive
  <2> QED BY <2>1, Recursion
<1>5. \A m \in 1..N : f[m] = f[m - 1] \o TextOf(t[m])
  <2> TAKE m \in 1..N
  <2>1. m - 1 \in 0..N /\ prev[m] = m - 1
    BY <1>1
  <2>2. f[m - 1] \in Seq(Char)
    BY <1>4, <2>1
  <2>3. step[m] = [s \in Seq(Char) |-> s \o TextOf(t[m])]
    OBVIOUS
  <2>4. f[m] = step[m][f[m - 1]]
    <3> HIDE DEF step, prev
    <3> QED BY <1>4, <2>1
  <2> QED BY <2>2, <2>3, <2>4
<1>6. f = values(f)
  <2>1. \A n \in 0..N : f[n] = values(f)[n]
    <3> TAKE n \in 0..N
    <3>1. CASE n = 0
      BY <1>4, <3>1
    <3>2. CASE n # 0
      <4>1. n \in 1..N
        BY <1>1, <3>2
      <4> QED BY <1>5, <3>2, <4>1 DEF TextOf
    <3> QED BY <3>1, <3>2
  <2>2. values(f) = [n \in 0..N |-> values(f)[n]] /\ f = [n \in 0..N |-> f[n]]
    BY <1>4
  <2> HIDE DEF values
  <2> QED BY <2>1, <2>2
<1>7. all = values(all)
  <2> HIDE DEF values
  <2> QED BY <1>6
<1>8. Written(p) = all[N]
  BY DEF Written
<1>9. /\ all[0] = <<>> /\ \A m \in 1..N : all[m] = all[m - 1] \o TextOf(t[m])
      /\ all = [n \in 0..N |-> all[n]]
  <2>1. \A n \in 0..N : all[n] = values(all)[n]
    <3> HIDE DEF values, all
    <3> QED BY <1>7
  <2>2. all = [n \in 0..N |-> all[n]]
    <3>1. \A d : values(d) = [n \in 0..N |-> values(d)[n]]
      OBVIOUS
    <3> HIDE DEF values, all
    <3> QED BY <1>7, <3>1
  <2> HIDE DEF all
  <2>3. values(all)[0] = <<>>
    BY <1>1
  <2>4. \A m \in 1..N : values(all)[m] = all[m - 1] \o TextOf(t[m])
    <3> TAKE m \in 1..N
    <3>1. m \in 0..N /\ m # 0
      BY <1>1
    <3>2. values(all)[m] = all[m - 1] \o IF t[m].val = -1 THEN t[m].str ELSE Decimal(t[m].val)
      BY <3>1
    <3> HIDE DEF values
    <3> QED BY <3>2 DEF TextOf
  <2>5. all[0] = <<>>
    <3>1. 0 \in 0..N
      BY <1>1
    <3> HIDE DEF values
    <3> QED BY <2>1, <2>3, <3>1
  <2>6. \A m \in 1..N : all[m] = all[m - 1] \o TextOf(t[m])
    <3> TAKE m \in 1..N
    <3>1. m \in 0..N
      OBVIOUS
    <3> HIDE DEF values
    <3> QED BY <2>1, <2>4, <3>1
  <2> QED BY <2>2, <2>5, <2>6
<1> HIDE DEF all
<1>10. \A n \in 0..N : all[n] \in Seq(Char)
  <2> DEFINE T == {n \in 0..N : all[n] \in Seq(Char)}
  <2>1. 0 \in T
    <3>1. 0 \in 0..N /\ all[0] \in Seq(Char)
      BY <1>1, <1>9
    <3> QED BY <3>1
  <2>2. \A n \in Nat : n < N /\ n \in T => n + 1 \in T
    <3> SUFFICES ASSUME NEW n \in Nat, n < N, n \in T PROVE n + 1 \in T
      OBVIOUS
    <3>1. n + 1 \in 1..N /\ n + 1 \in 0..N /\ (n + 1) - 1 = n /\ TextOf(t[n + 1]) \in Seq(Char)
      BY <1>1
    <3>2. all[n + 1] = all[n] \o TextOf(t[n + 1])
      BY <1>9, <3>1
    <3>3. all[n] \in Seq(Char)
      OBVIOUS
    <3>4. all[n] \o TextOf(t[n + 1]) \in Seq(Char)
      BY <3>1, <3>3
    <3> QED BY <3>1, <3>2, <3>4
  <2>3. \A n \in 0..N : n \in T
    <3> HIDE DEF T, N
    <3> QED BY <1>1, <2>1, <2>2, UpTo
  <2> QED BY <2>3
<1>11. all \in [0..N -> Seq(Char)]
  BY <1>9, <1>10
<1>12. Writes(all, t)
  BY <1>9, <1>11 DEF Writes
<1> QED BY <1>8, <1>12

LEMMA NextBeginning ==
    ASSUME NEW S, NEW t \in Seq(S), NEW n \in Nat, n < Len(t)
    PROVE  /\ SubSeq(t, 1, 0) = <<>> /\ SubSeq(t, 1, Len(t)) = t
           /\ SubSeq(t, 1, n) \in Seq(S) /\ Len(SubSeq(t, 1, n)) = n
           /\ SubSeq(t, 1, n + 1) = Append(SubSeq(t, 1, n), t[n + 1])
OBVIOUS

(* string_to_parts() reads what parts_to_string() writes.                  *)
LEMMA WrittenRead ==
    ASSUME NEW p \in PartList, p \in Shaped
    PROVE  Written(p) \in Seq(Char) /\ Parts(Written(p)) = Trimmed(p)
<1> DEFINE t == Trimmed(p)
           N == Len(t)
<1>1. /\ t \in Seq(Cell) /\ N \in Nat
      /\ \A i \in 1..N : i % 2 = 1 =>
            t[i].val = -1 /\ t[i].str \in Seq(TextChar) /\ (i > 1 => t[i].str # <<>>)
            /\ t[i] = TextPart(t[i].str)
      /\ \A i \in 1..N : i % 2 # 1 =>
            t[i].val \in Nat /\ (t[i].val \in 0..9 \/ t[i].val <= MaxInt)
            /\ t[i] = NumberPart(t[i].val)
      /\ \A i \in 1..N : TextOf(t[i]) \in Seq(Char)
      /\ N = 1 => t[1].str # <<>>
  BY TrimmedParts
<1>2. PICK f : Writes(f, t) /\ Written(p) = f[N]
  <2> HIDE DEF t
  <2>1. t = Trimmed(p)
    BY DEF t
  <2> QED BY <1>1, <2>1, WrittenMade
<1>3. /\ f \in [0..N -> Seq(Char)] /\ f[0] = <<>>
      /\ \A n \in 1..N : f[n] = f[n - 1] \o TextOf(t[n])
  BY <1>2 DEF Writes
<1> HIDE DEF t
<1> DEFINE P(n) == SubSeq(t, 1, n)
           Read(n) == Parts(f[n]) = IF n = 1 /\ t[1].str = <<>> THEN <<>> ELSE P(n)
           T == {n \in 0..N : Read(n)}
<1>4. 0 \in T
  <2>1. P(0) = <<>> /\ 0 \in 0..N
    BY <1>1
  <2>2. Parts(f[0]) = P(0)
    BY <1>3, <2>1, PartsEmpty
  <2> HIDE DEF P
  <2> QED BY <2>1, <2>2
<1>5. ASSUME NEW n \in Nat, n < N, n \in T PROVE n + 1 \in T
  <2> DEFINE a == t[n + 1]
             s == f[n]
  <2>1. n + 1 \in 1..N /\ n + 1 \in 0..N /\ (n + 1) - 1 = n /\ n \in 0..N
    BY <1>1, <1>5
  <2>2. s \in Seq(Char) /\ f[n + 1] = s \o TextOf(a) /\ Read(n)
    BY <1>5, <1>3, <2>1
  <2>3. P(n) \in Seq(Cell) /\ Len(P(n)) = n /\ P(n + 1) = Append(P(n), a) /\ P(0) = <<>>
    BY <1>1, <1>5, NextBeginning
  <2> SUFFICES Read(n + 1)
    BY <2>1
  <2> HIDE DEF P, s
  <2>4. CASE (n + 1) % 2 = 1
    <3>1. n # 1 /\ n % 2 = 0
      BY <2>4
    <3>2. Parts(s) = P(n) /\ Len(Parts(s)) % 2 = 0
      BY <2>2, <2>3, <3>1 DEF s
    <3>3. /\ a.val = -1 /\ a.str \in Seq(TextChar) /\ (n + 1 > 1 => a.str # <<>>)
          /\ a = TextPart(a.str)
      BY <1>1, <2>1, <2>4
    <3>4. TextOf(a) = a.str
      BY <3>3 DEF TextOf
    <3>5. CASE n + 1 = 1 /\ a.str = <<>>
      <4>1. n = 0 /\ s = <<>> /\ t[1].str = <<>>
        BY <1>3, <3>5 DEF s
      <4>2. f[n + 1] = <<>>
        <5> HIDE DEF a
        <5>1. TextOf(a) = <<>>
          BY <3>4, <3>5
        <5> QED BY <2>2, <4>1, <5>1
      <4> QED BY <3>5, <4>1, <4>2, PartsEmpty
    <3>6. CASE ~(n + 1 = 1 /\ a.str = <<>>)
      <4>1. a.str # <<>>
        BY <2>1, <3>3, <3>6
      <4> HIDE DEF a
      <4>2. Parts(s \o a.str) = Append(Parts(s), TextPart(a.str))
        BY <2>2, <3>2, <3>3, <4>1, TextRead
      <4>3. Parts(f[n + 1]) = P(n + 1)
        BY <2>2, <2>3, <3>2, <3>3, <3>4, <4>2
      <4>4. ~(n + 1 = 1 /\ t[1].str = <<>>)
        BY <3>6 DEF a
      <4> QED BY <4>3, <4>4
    <3> QED BY <3>5, <3>6
  <2>5. CASE (n + 1) % 2 # 1
    <3>1. n + 1 # 1 /\ n % 2 = 1
      BY <2>5
    <3>2. /\ a.val \in Nat /\ (a.val \in 0..9 \/ a.val <= MaxInt)
          /\ a = NumberPart(a.val) /\ a.val # -1
      <4>1. /\ a.val \in Nat /\ (a.val \in 0..9 \/ a.val <= MaxInt)
            /\ a = NumberPart(a.val)
        BY <1>1, <2>1, <2>5
      <4>2. \A v \in Nat : v # -1
        OBVIOUS
      <4> QED BY <4>1, <4>2
    <3>3. TextOf(a) = Decimal(a.val)
      BY <3>2 DEF TextOf
    <3>4. CASE n = 1 /\ t[1].str = <<>>
      <4>1. Parts(s) = <<>>
        BY <2>2, <3>4 DEF s
      <4>2. P(1) = Append(P(0), t[1])
        <5>1. 0 \in Nat /\ 0 < Len(t)
          BY <1>1, <1>5
        <5>2. SubSeq(t, 1, 0 + 1) = Append(SubSeq(t, 1, 0), t[0 + 1])
          BY <1>1, <5>1, NextBeginning
        <5> QED BY <5>2 DEF P
      <4>3. t[1] = TextPart(<<>>)
        <5>1. 1 \in 1..N /\ 1 % 2 = 1
          BY <1>1, <1>5, <3>4
        <5>2. t[1] = TextPart(t[1].str)
          BY <1>1, <5>1
        <5> QED BY <3>4, <5>2
      <4> HIDE DEF a
      <4>4. Parts(s \o Decimal(a.val)) = Extended(Parts(s), a.val)
        BY <2>2, <3>2, <4>1, NumberRead
      <4>5. Extended(Parts(s), a.val) = <<TextPart(<<>>), a>>
        BY <3>2, <4>1 DEF Extended
      <4>6. P(n + 1) = <<TextPart(<<>>), a>>
        <5>1. P(n + 1) = Append(Append(<<>>, TextPart(<<>>)), a)
          BY <2>3, <3>4, <4>2, <4>3
        <5> QED BY <5>1
      <4>7. Parts(f[n + 1]) = P(n + 1)
        BY <2>2, <3>3, <4>4, <4>5, <4>6
      <4> QED BY <3>1, <4>7
    <3>5. CASE ~(n = 1 /\ t[1].str = <<>>)
      <4>1. Parts(s) = P(n) /\ Len(Parts(s)) % 2 = 1 /\ P(n) # <<>>
        <5>1. Parts(s) = P(n)
          BY <2>2, <3>5 DEF s
        <5>2. P(n) # <<>>
          BY <2>3, <3>1
        <5> QED BY <2>3, <3>1, <5>1, <5>2
      <4> HIDE DEF a
      <4>2. Parts(s \o Decimal(a.val)) = Extended(Parts(s), a.val)
        BY <2>2, <3>2, <4>1, NumberRead
      <4>3. Extended(Parts(s), a.val) = Append(P(n), a)
        BY <3>2, <4>1 DEF Extended
      <4>4. Parts(f[n + 1]) = P(n + 1)
        BY <2>2, <2>3, <3>3, <4>2, <4>3
      <4> QED BY <3>1, <4>4
    <3> QED BY <3>4, <3>5
  <2> QED BY <2>4, <2>5
<1>6. N \in T
  <2> HIDE DEF T, N
  <2>1. \A n \in Nat : n < N /\ n \in T => n + 1 \in T
    BY <1>5
  <2>2. N \in 0..N
    BY <1>1
  <2> QED BY <1>1, <1>4, <2>1, <2>2, UpTo
<1>7. Parts(f[N]) = P(N)
  <2>1. ~(N = 1 /\ t[1].str = <<>>)
    BY <1>1
  <2> HIDE DEF P, N
  <2> QED BY <1>6, <2>1
<1>8. P(N) = t /\ f[N] \in Seq(Char)
  BY <1>1, <1>3
<1> QED BY <1>2, <1>7, <1>8 DEF t

-----------------------------------------------------------------------------
(* The canonical string, its epoch, its parts and its revision.            *)

LEMMA ConcatImage ==
    ASSUME NEW S, NEW a \in Seq(S), NEW b \in Seq(S)
    PROVE  Image(a \o b) = Image(a) \cup Image(b)
<1> DEFINE s == a \o b
           m == Len(a)
           n == Len(b)
<1>1. /\ m \in Nat /\ n \in Nat /\ DOMAIN a = 1..m /\ DOMAIN b = 1..n /\ DOMAIN s = 1..m + n
      /\ \A i \in 1..m : s[i] = a[i]
      /\ \A i \in 1..n : s[m + i] = b[i]
  OBVIOUS
<1> HIDE DEF s, m, n
<1>2. ASSUME NEW i \in 1..m + n PROVE s[i] \in Image(a) \cup Image(b)
  <2>1. CASE i <= m
    <3>1. i \in 1..m
      BY <1>1, <2>1
    <3> QED BY <1>1, <3>1 DEF Image
  <2>2. CASE i > m
    <3>1. i - m \in 1..n /\ m + (i - m) = i
      BY <1>1, <2>2
    <3>2. s[i] = b[i - m]
      BY <1>1, <3>1
    <3> QED BY <1>1, <3>1, <3>2 DEF Image
  <2> QED BY <1>1, <2>1, <2>2
<1>3. ASSUME NEW i \in 1..m PROVE a[i] \in Image(s)
  <2>1. i \in 1..m + n /\ s[i] = a[i]
    BY <1>1
  <2> QED BY <1>1, <2>1 DEF Image
<1>4. ASSUME NEW i \in 1..n PROVE b[i] \in Image(s)
  <2>1. m + i \in 1..m + n
    BY <1>1
  <2>2. s[m + i] = b[i]
    BY <1>1
  <2> QED BY <1>1, <2>1, <2>2 DEF Image
<1>5. Image(s) \subseteq Image(a) \cup Image(b)
  BY <1>1, <1>2 DEF Image
<1>6. Image(a) \subseteq Image(s) /\ Image(b) \subseteq Image(s)
  BY <1>1, <1>3, <1>4 DEF Image
<1> QED BY <1>5, <1>6 DEF s

LEMMA DecimalHolds ==
    ASSUME NEW v \in Nat
    PROVE  Image(Decimal(v)) \subseteq Image(Digits) /\ Decimal(v) # <<>>
<1> DEFINE Holds(n) == Image(Decimal(n)) \subseteq Image(Digits) /\ Decimal(n) # <<>>
           T == {n \in Nat : Holds(n)}
<1>1. ASSUME NEW n \in Nat, \A k \in Nat : k < n => k \in T PROVE n \in T
  <2>1. CASE n < 10
    <3>1. Decimal(n) = <<Digits[1 + n]>> /\ n \in 0..9
      BY <2>1, DecimalIs
    <3>2. Digits[1 + n] \in Image(Digits)
      BY <3>1, DigitIs DEF Digit
    <3> DEFINE c == Digits[1 + n]
    <3> HIDE DEF c
    <3>3. Image(<<c>>) = {c} /\ <<c>> # <<>>
      BY DEF Image
    <3>4. Decimal(n) = <<c>> /\ c \in Image(Digits)
      BY <3>1, <3>2 DEF c
    <3>5. Holds(n)
      BY <3>3, <3>4
    <3> HIDE DEF Holds
    <3> QED BY <3>5
  <2>2. CASE n >= 10
    <3> DEFINE d == Decimal(n \div 10)
               c == Digits[1 + (n % 10)]
    <3>1. n \div 10 \in Nat /\ n \div 10 < n /\ n % 10 \in 0..9
      BY <2>2
    <3>2. Decimal(n) = Append(d, c) /\ d \in Seq(Char)
      BY <2>2, <3>1, DecimalIs
    <3>3. Holds(n \div 10)
      <4>1. n \div 10 \in T
        <5> HIDE DEF T
        <5> QED BY <1>1, <3>1
      <4> QED BY <4>1
    <3>4. c \in Image(Digits) /\ c \in Char
      BY <3>1, DigitIs DEF Digit
    <3>5. Image(d) \subseteq Image(Digits)
      BY <3>3
    <3> HIDE DEF c, d
    <3>6. Image(Append(d, c)) = Image(d) \cup {c} /\ Append(d, c) # <<>>
      BY <3>2, <3>4, ImageAppend, AppendEnds
    <3> QED BY <3>2, <3>4, <3>5, <3>6
  <2> QED BY <2>1, <2>2
<1>2. Nat \subseteq T
  <2> HIDE DEF T
  <2> QED BY <1>1, Descent
<1> QED BY <1>2

LEMMA DecimalDigits ==
    ASSUME NEW v \in Nat
    PROVE  \A i \in 1..Len(Decimal(v)) : Digit(Decimal(v)[i])
<1>1. Decimal(v) \in Seq(Char) /\ Image(Decimal(v)) \subseteq Image(Digits)
  BY DecimalIs, DecimalHolds
<1> DEFINE d == Decimal(v)
<1> HIDE DEF d
<1>2. \A i \in 1..Len(d) : d[i] \in Image(d)
  BY <1>1 DEF Image, d
<1> QED BY <1>1, <1>2 DEF d, Digit

(* What is written has the characters of the version, and digits.          *)
LEMMA WrittenHolds ==
    ASSUME NEW p \in PartList, p \in Shaped, NEW c, c \notin Image(Digits),
           \A i \in DOMAIN p : c \notin Image(p[i].str)
    PROVE  c \notin Image(Written(p))
<1> DEFINE t == Trimmed(p)
           N == Len(t)
<1>1. /\ N \in Nat
      /\ \A i \in 1..N : i % 2 = 1 => t[i].val = -1
      /\ \A i \in 1..N : i % 2 # 1 => t[i].val \in Nat
      /\ \A i \in 1..N : TextOf(t[i]) \in Seq(Char)
  BY TrimmedParts
<1>2. \A i \in 1..N : c \notin Image(t[i].str)
  <2>1. p \in Seq(Cell)
    BY DEF Shaped
  <2>2. PICK k \in 0..Len(p) : N = k /\ \A i \in 1..k : t[i] = p[i]
    BY <2>1, TrimmedIs
  <2>3. \A i \in 1..N : i \in DOMAIN p
    BY <2>1, <2>2
  <2> QED BY <2>2, <2>3
<1>3. PICK f : Writes(f, t) /\ Written(p) = f[N]
  <2> HIDE DEF t
  <2>1. t = Trimmed(p)
    BY DEF t
  <2> QED BY <1>1, <2>1, WrittenMade
<1> HIDE DEF t
<1>4. /\ f \in [0..N -> Seq(Char)] /\ f[0] = <<>>
      /\ \A n \in 1..N : f[n] = f[n - 1] \o TextOf(t[n])
  BY <1>3 DEF Writes
<1>5. \A i \in 1..N : c \notin Image(TextOf(t[i]))
  <2> TAKE i \in 1..N
  <2>1. CASE i % 2 = 1
    BY <1>1, <1>2, <2>1 DEF TextOf
  <2>2. CASE i % 2 # 1
    <3>1. t[i].val \in Nat
      BY <1>1, <2>2
    <3>2. TextOf(t[i]) = Decimal(t[i].val)
      BY <3>1 DEF TextOf
    <3> QED BY <3>1, <3>2, DecimalHolds
  <2> QED BY <2>1, <2>2
<1> DEFINE T == {n \in 0..N : c \notin Image(f[n])}
<1>6. 0 \in T
  <2>1. Image(<<>>) = {}
    BY DEF Image
  <2> QED BY <1>1, <1>4, <2>1
<1>7. ASSUME NEW n \in Nat, n < N, n \in T PROVE n + 1 \in T
  <2>1. n + 1 \in 1..N /\ n + 1 \in 0..N /\ (n + 1) - 1 = n /\ n \in 0..N
    BY <1>1, <1>7
  <2>2. f[n] \in Seq(Char) /\ f[n + 1] = f[n] \o TextOf(t[n + 1]) /\ TextOf(t[n + 1]) \in Seq(Char)
    BY <1>1, <1>4, <2>1
  <2>3. Image(f[n + 1]) = Image(f[n]) \cup Image(TextOf(t[n + 1]))
    BY <2>2, ConcatImage
  <2>4. c \notin Image(f[n]) /\ c \notin Image(TextOf(t[n + 1]))
    BY <1>5, <1>7, <2>1
  <2> QED BY <2>1, <2>3, <2>4
<1>8. N \in T
  <2> HIDE DEF T, N
  <2>1. \A n \in Nat : n < N /\ n \in T => n + 1 \in T
    BY <1>7
  <2>2. N \in 0..N
    BY <1>1
  <2> QED BY <1>1, <1>6, <2>1, <2>2, UpTo
<1> QED BY <1>3, <1>8

(* The first part is empty if the string begins with a digit.              *)
LEMMA FirstIsText ==
    ASSUME NEW z \in Seq(Char), z # <<>>
    PROVE  Parts(z) # <<>> /\ (Digit(z[1]) <=> Parts(z)[1].str = <<>>)
<1> DEFINE First(s) == Parts(s) # <<>> /\ (Digit(s[1]) <=> Parts(s)[1].str = <<>>)
           T == {s \in Seq(Char) : s # <<>> => First(s)}
<1>1. <<>> \in T
  OBVIOUS
<1>2. ASSUME NEW s \in Seq(Char), NEW c \in Char, s \in T PROVE Append(s, c) \in T
  <2> DEFINE p == Parts(s)
             g == Grow(p, c)
             L == Len(p)
  <2>1. Parts(Append(s, c)) = g /\ Append(s, c) \in Seq(Char)
    BY PartsAppend
  <2>2. p \in Seq(Cell) /\ L \in Nat /\ g \in Seq(Cell) /\ g # <<>>
    BY PartsType, GrowIs
  <2>3. CASE s = <<>>
    <3>1. p = <<>> /\ Append(s, c)[1] = c
      BY <2>3, PartsEmpty
    <3>2. CASE Digit(c)
      <4>1. g = <<TextPart(<<>>), NumberPart(Value(c))>>
        BY <3>1, <3>2 DEF Grow, AddDigit
      <4>2. g[1].str = <<>>
        <5> HIDE DEF g
        <5> QED BY <4>1 DEF TextPart
      <4> HIDE DEF g
      <4> QED BY <2>1, <2>2, <3>1, <3>2, <4>2
    <3>3. CASE ~Digit(c)
      <4>1. g = <<TextPart(<<c>>)>>
        <5>1. ~(Len(p) % 2 = 1)
          BY <3>1
        <5>2. Grow(p, c) = Append(p, TextPart(<<c>>))
          BY <3>3, <5>1 DEF Grow, AddChar
        <5> QED BY <3>1, <5>2
      <4>2. g[1].str = <<c>> /\ <<c>> # <<>>
        <5> HIDE DEF g
        <5> QED BY <4>1 DEF TextPart
      <4> HIDE DEF g
      <4> QED BY <2>1, <2>2, <3>1, <3>3, <4>2
    <3> QED BY <3>2, <3>3
  <2>4. CASE s # <<>>
    <3>1. First(s) /\ Append(s, c)[1] = s[1]
      BY <1>2, <2>4
    <3>2. L # 0
      BY <2>2, <3>1
    <3>3. g[1].str = <<>> <=> p[1].str = <<>>
      <4>1. CASE L % 2 = 1 /\ L # 1
        <5>1. Same(p, g, L - 1)
          <6>1. Digit(c) => Same(p, g, L)
            BY <2>2, <4>1, GrowDigit
          <6>2. ~Digit(c) => Same(p, g, L - 1)
            BY <2>2, <4>1, GrowText
          <6> HIDE DEF g, p
          <6> QED BY <6>1, <6>2, <2>2 DEF Same
        <5>2. 1 \in 1..L - 1
          <6> HIDE DEF L
          <6>1. L \in Nat /\ L # 0 /\ L # 1
            BY <2>2, <3>2, <4>1
          <6> QED BY <6>1
        <5> HIDE DEF g, p
        <5> QED BY <5>1, <5>2 DEF Same
      <4>2. CASE L = 1
        <5>0. L % 2 = 1
          BY <4>2
        <5>1. CASE Digit(c)
          <6>1. Same(p, g, L)
            BY <2>2, <5>0, <5>1, GrowDigit
          <6>2. 1 \in 1..L
            BY <4>2
          <6> HIDE DEF g, p
          <6> QED BY <6>1, <6>2 DEF Same
        <5>2. CASE ~Digit(c)
          <6>1. g[1] = TextPart(Append(p[1].str, c))
            <7>1. g[L] = TextPart(Append(p[L].str, c))
              BY <2>2, <5>0, <5>2, GrowText
            <7> QED BY <4>2, <7>1
          <6>2. p[1].str # <<>> /\ p[1] \in Cell
            BY <2>2, <4>2, PartsShaped DEF Shaped
          <6>3. p[1].str \in Seq(TextChar) /\ c \in TextChar
            BY <5>2, <6>2, Characters DEF Cell
          <6> HIDE DEF g, p
          <6>4. g[1].str = Append(p[1].str, c)
            BY <6>1 DEF TextPart
          <6>5. Append(p[1].str, c) # <<>>
            BY <6>3, AppendEnds
          <6> QED BY <6>2, <6>4, <6>5
        <5> QED BY <5>1, <5>2
      <4>3. CASE L % 2 = 0
        <5>1. Same(p, g, L - 1)
          <6>1. Digit(c) => Same(p, g, L - 1)
            BY <2>2, <3>2, <4>3, GrowDigit
          <6>2. ~Digit(c) => Same(p, g, L)
            BY <2>2, <4>3, GrowText
          <6> HIDE DEF g, p
          <6> QED BY <6>1, <6>2, <2>2 DEF Same
        <5>2. 1 \in 1..L - 1
          BY <2>2, <3>2, <4>3
        <5> HIDE DEF g, p
        <5> QED BY <5>1, <5>2 DEF Same
      <4> QED BY <2>2, <4>1, <4>2, <4>3
    <3> HIDE DEF g
    <3> QED BY <2>1, <2>2, <3>1, <3>3
  <2> QED BY <2>3, <2>4
<1>3. Seq(Char) \subseteq T
  <2> HIDE DEF T
  <2>1. \A s \in Seq(Char), c \in Char : s \in T => Append(s, c) \in T
    BY <1>2
  <2> QED BY <1>1, <2>1, StringByString
<1> QED BY <1>3

(* The value of an epoch that is written.                                  *)
LEMMA ValuesAppend ==
    ASSUME NEW d \in Seq(Char), \A i \in 1..Len(d) : Digit(d[i]), NEW c \in Char, Digit(c)
    PROVE  LET e == Append(d, c)
           IN  /\ \A k \in 0..Len(d) : Values(e)[k] = Values(d)[k]
               /\ Values(e)[Len(d) + 1] = Wrap(Values(d)[Len(d)] * 10 + Value(c))
<1> DEFINE e == Append(d, c)
           N == Len(d)
           v == Values(e)
           w == Values(d)
<1>1. /\ e \in Seq(Char) /\ Len(e) = N + 1 /\ N \in Nat /\ e[N + 1] = c
      /\ \A i \in 1..N : e[i] = d[i]
  OBVIOUS
<1>2. \A i \in 1..Len(e) : Digit(e[i])
  <2> TAKE i \in 1..Len(e)
  <2> HIDE DEF e, N
  <2>1. i \in 1..N \/ i = N + 1
    BY <1>1
  <2> QED BY <1>1, <2>1 DEF N
<1>3. w[0] = 0 /\ \A n \in 1..N : w[n] = Wrap(w[n - 1] * 10 + Value(d[n]))
  BY ValuesMade
<1>4. v[0] = 0 /\ \A n \in 1..N + 1 : v[n] = Wrap(v[n - 1] * 10 + Value(e[n]))
  <2>1. v[0] = 0 /\ \A n \in 1..Len(e) : v[n] = Wrap(v[n - 1] * 10 + Value(e[n]))
    <3> HIDE DEF e
    <3> QED BY <1>1, <1>2, ValuesMade
  <2> HIDE DEF e, v, N
  <2> QED BY <1>1, <2>1
<1> HIDE DEF e, v, w, N
<1> DEFINE T == {k \in 0..N : v[k] = w[k]}
<1>5. 0 \in T
  BY <1>1, <1>3, <1>4
<1>6. ASSUME NEW n \in Nat, n < N, n \in T PROVE n + 1 \in T
  <2>1. n + 1 \in 1..N /\ n + 1 \in 1..N + 1 /\ n + 1 \in 0..N /\ (n + 1) - 1 = n
    BY <1>1, <1>6
  <2>2. v[n + 1] = Wrap(v[n] * 10 + Value(e[n + 1])) /\ w[n + 1] = Wrap(w[n] * 10 + Value(d[n + 1]))
    BY <1>3, <1>4, <2>1
  <2>3. v[n] = w[n] /\ e[n + 1] = d[n + 1]
    BY <1>1, <1>6, <2>1
  <2> QED BY <2>1, <2>2, <2>3
<1>7. \A k \in 0..N : k \in T
  <2> HIDE DEF T
  <2>1. \A n \in Nat : n < N /\ n \in T => n + 1 \in T
    BY <1>6
  <2> QED BY <1>1, <1>5, <2>1, UpTo
<1>8. v[N + 1] = Wrap(w[N] * 10 + Value(c))
  <2>1. N + 1 \in 1..N + 1 /\ (N + 1) - 1 = N /\ N \in 0..N
    BY <1>1
  <2>2. v[N] = w[N]
    BY <1>7, <2>1
  <2>3. v[N + 1] = Wrap(v[N] * 10 + Value(e[N + 1]))
    BY <1>4, <2>1
  <2> QED BY <1>1, <2>2, <2>3
<1> QED BY <1>7, <1>8 DEF e, v, w, N

LEMMA DecimalValue ==
    ASSUME NEW z \in Nat, z <= MaxInt
    PROVE  Values(Decimal(z))[Len(Decimal(z))] = z /\ ~Overflows(Decimal(z))
<1> DEFINE Good(d, n) == Values(d)[Len(d)] = n /\ \A k \in 1..Len(d) : ~(Values(d)[k] < Values(d)[k - 1])
           T == {n \in Nat : n <= MaxInt => Good(Decimal(n), n)}
<1>1. ASSUME NEW n \in Nat, \A k \in Nat : k < n => k \in T PROVE n \in T
  <2> SUFFICES ASSUME n <= MaxInt PROVE Good(Decimal(n), n)
    OBVIOUS
  <2>0. Wrap(n) = n
    <3>1. n \in 0..MaxInt
      BY MaxIntAssumption
    <3> QED BY <3>1, WrapIs
  <2>1. CASE n < 10
    <3> DEFINE c == Digits[1 + n]
    <3>1. c \in Char /\ Digit(c) /\ Value(c) = n
      <4>1. n \in 0..9
        BY <2>1
      <4> QED BY <4>1, DigitIs
    <3>2. Decimal(n) = <<c>>
      BY <2>1, DecimalIs
    <3> HIDE DEF c
    <3>3. Values(<<c>>)[0] = 0 /\ Values(<<c>>)[1] = Wrap(Values(<<c>>)[0] * 10 + Value(c))
      <4> DEFINE e == <<c>>
      <4>1. e \in Seq(Char) /\ Len(e) = 1 /\ e[1] = c
        BY <3>1
      <4> HIDE DEF e
      <4>2. Values(e)[0] = 0 /\ \A m \in 1..1 : Values(e)[m] = Wrap(Values(e)[m - 1] * 10 + Value(e[m]))
        BY <3>1, <4>1, ValuesMade
      <4>3. Values(e)[1] = Wrap(Values(e)[1 - 1] * 10 + Value(e[1]))
        BY <4>2
      <4> QED BY <4>1, <4>2, <4>3 DEF e
    <3>4. Values(<<c>>)[1] = n
      <4>1. 0 * 10 + n = n
        OBVIOUS
      <4> QED BY <2>0, <3>1, <3>3, <4>1
    <3>5. Len(<<c>>) = 1
      OBVIOUS
    <3> DEFINE e == <<c>>
    <3> HIDE DEF e
    <3>6. Good(e, n)
      <4>1. Values(e)[Len(e)] = n
        BY <3>4, <3>5 DEF e
      <4>2. ASSUME NEW k \in 1..Len(e) PROVE ~(Values(e)[k] < Values(e)[k - 1])
        <5>1. k = 1 /\ k - 1 = 0
          BY <3>5 DEF e
        <5>2. Values(e)[k] = n /\ Values(e)[k - 1] = 0
          BY <3>3, <3>4, <5>1 DEF e
        <5> QED BY <5>2
      <4> QED BY <4>1, <4>2
    <3> HIDE DEF Good
    <3> QED BY <3>2, <3>6 DEF e
  <2>2. CASE n >= 10
    <3> DEFINE m == n \div 10
               d == Decimal(m)
               c == Digits[1 + (n % 10)]
    <3>1. m \in Nat /\ m < n /\ m * 10 + (n % 10) = n /\ n % 10 \in 0..9 /\ m <= MaxInt
      BY <2>2, MaxIntAssumption
    <3>2. c \in Char /\ Digit(c) /\ Value(c) = n % 10
      BY <3>1, DigitIs
    <3>3. Decimal(n) = Append(d, c) /\ d \in Seq(Char) /\ \A i \in 1..Len(d) : Digit(d[i])
      <4>1. Decimal(n) = Append(d, c)
        BY <2>2, DecimalIs
      <4> HIDE DEF m
      <4> QED BY <3>1, <4>1, DecimalIs, DecimalDigits
    <3>4. Good(d, m)
      <4>1. m \in T
        <5> HIDE DEF T, m
        <5> QED BY <1>1, <3>1
      <4> HIDE DEF Good, m, d
      <4> QED BY <3>1, <4>1 DEF d
    <3> HIDE DEF m, c, d
    <3> DEFINE e == Append(d, c)
               N == Len(d)
    <3>5. /\ \A k \in 0..N : Values(e)[k] = Values(d)[k]
          /\ Values(e)[N + 1] = Wrap(Values(d)[N] * 10 + Value(c))
      BY <3>2, <3>3, ValuesAppend
    <3>6. Len(e) = N + 1 /\ N \in Nat
      BY <3>2, <3>3
    <3> HIDE DEF e
    <3>7. Values(d)[N] = m
      BY <3>4
    <3>8. Values(e)[N + 1] = n
      BY <2>0, <3>1, <3>2, <3>5, <3>7
    <3>9. ASSUME NEW k \in 1..Len(e) PROVE ~(Values(e)[k] < Values(e)[k - 1])
      <4> HIDE DEF N
      <4>1. CASE k = N + 1
        <5>1. k - 1 = N /\ N \in 0..N
          BY <3>6, <4>1
        <5>2. Values(e)[k - 1] = m /\ Values(e)[k] = n
          BY <3>5, <3>7, <3>8, <4>1, <5>1
        <5> QED BY <3>1, <5>2
      <4>2. CASE k # N + 1
        <5>1. k \in 1..N /\ k \in 0..N /\ k - 1 \in 0..N
          BY <3>6, <4>2
        <5>2. ~(Values(d)[k] < Values(d)[k - 1])
          BY <3>4, <5>1 DEF N
        <5>3. Values(e)[k] = Values(d)[k] /\ Values(e)[k - 1] = Values(d)[k - 1]
          BY <3>5, <5>1
        <5> QED BY <5>2, <5>3
      <4> QED BY <4>1, <4>2
    <3>10. Good(e, n)
      BY <3>6, <3>8, <3>9
    <3> HIDE DEF Good
    <3> QED BY <3>3, <3>10 DEF e
  <2> QED BY <2>1, <2>2
<1>2. Nat \subseteq T
  <2> HIDE DEF T
  <2> QED BY <1>1, Descent
<1> DEFINE d == Decimal(z)
<1>3. Good(d, z)
  <2> HIDE DEF Good
  <2> QED BY <1>2
<1>4. d \in Seq(Char)
  BY DecimalIs
<1> HIDE DEF d
<1>5. ~Overflows(d)
  <2>1. DOMAIN d = 1..Len(d)
    BY <1>4
  <2> QED BY <1>3, <2>1 DEF Overflows
<1> QED BY <1>3, <1>5 DEF d

LEMMA NoRevisionSame ==
    ASSUME NEW q \in PartList, NoRevision(q)
    PROVE  PartsCompare(q, <<>>) = 0
<1>1. Len(q) \in Nat
  BY ListIs
<1>2. Shorter(q, <<>>) = 0
  BY <1>1 DEF Shorter
<1>3. \A i \in 0 + 1..Len(q) : IsZero(q[i])
  <2>1. CASE q = <<>>
    BY <2>1
  <2>2. CASE Len(q) = 2 /\ IsZero(q[1]) /\ IsZero(q[2])
    <3> TAKE i \in 0 + 1..Len(q)
    <3>1. i = 1 \/ i = 2
      BY <2>2
    <3> QED BY <2>2, <3>1
  <2> QED BY <2>1, <2>2 DEF NoRevision
<1>4. ~Longer(q, 0)
  BY <1>3 DEF Longer
<1>5. ~Longer(<<>>, 0)
  BY DEF Longer
<1>6. {i \in 1..0 : PartCompare(q[i], <<>>[i]) # 0} = {}
  OBVIOUS
<1> QED BY <1>2, <1>4, <1>5, <1>6 DEF PartsCompare

LEMMA EpochWritten ==
    ASSUME NEW n \in Nat, n <= MaxInt, NEW r \in Seq(Char), NEW s,
           \/ s = Around(Decimal(n), ":", r)
           \/ s = r /\ ":" \notin Image(r) /\ n = 0
    PROVE  /\ s \in Seq(Char) /\ Rest(s) = r /\ EpochValue(s) = n
           /\ Where(s, ":") # {} =>
                Epoch(s) # <<>> /\ Image(Epoch(s)) \subseteq Image(Digits) /\ ~Overflows(Epoch(s))
<1>1. CASE s = Around(Decimal(n), ":", r)
  <2>1. Decimal(n) \in Seq(Char) /\ Decimal(n) # <<>> /\ Image(Decimal(n)) \subseteq Image(Digits)
    BY DecimalIs, DecimalHolds
  <2>2. ":" \notin Image(Decimal(n))
    BY <2>1, SignsAre DEF Digit
  <2>3. Epoch(s) = Decimal(n) /\ Rest(s) = r
    BY <1>1, <2>1, <2>2, EpochOf
  <2>4. s \in Seq(Char)
    BY <1>1, <2>1, SignsAre, AroundIs
  <2>5. EpochValue(s) = n /\ ~Overflows(Epoch(s))
    BY <2>3, DecimalValue DEF EpochValue
  <2> QED BY <2>1, <2>3, <2>4, <2>5
<1>2. CASE s = r /\ ":" \notin Image(r) /\ n = 0
  <2>1. Epoch(s) = <<>> /\ Rest(s) = r
    BY <1>2, EpochSplit
  <2>2. Where(s, ":") = {}
    BY <1>2, WhereIs
  <2>3. Values(<<>>)[0] = 0
    <3>1. <<>> \in Seq(Char) /\ Len(<<>>) = 0 /\ \A i \in 1..Len(<<>>) : Digit(<<>>[i])
      OBVIOUS
    <3> QED BY <3>1, ValuesMade
  <2>4. EpochValue(s) = 0
    <3>1. Len(<<>>) = 0
      OBVIOUS
    <3> QED BY <2>1, <2>3, <3>1 DEF EpochValue
  <2> QED BY <1>2, <2>1, <2>2, <2>4
<1> QED BY <1>1, <1>2

LEMMA WrittenBack ==
    ASSUME NumbersFit, NEW s \in Input, Valid(s), Plain(s)
    PROVE  Valid(ToString(Parsed(s))) /\ Order(s, ToString(Parsed(s))) = 0
<1> DEFINE p == Parts(Upstream(s))
           q == Parts(Revision(s))
           e == EpochValue(s)
           A == Written(p)
           B == Written(q)
           R == IF NoRevision(q) THEN <<>> ELSE <<"-">> \o B
           body == A \o R
           far == e > 0 \/ ":" \in Image(A)
           S == ToString(Parsed(s))
<1>1. /\ Parsed(s).epoch = e /\ e \in Nat /\ e <= MaxInt
      /\ Parsed(s).version = p /\ p \in Shaped /\ p \in PartList
      /\ Parsed(s).revision = q /\ q \in Shaped /\ q \in PartList
  BY ParsedIs
<1>2. s \in Seq(Char) /\ Upstream(s) \in Seq(Char) /\ Revision(s) \in Seq(Char)
  BY InputAssumption, RevisionSplit
<1>3. A \in Seq(Char) /\ Parts(A) = Trimmed(p) /\ B \in Seq(Char) /\ Parts(B) = Trimmed(q)
  BY <1>1, WrittenRead
<1>4. "-" \notin Image(A) /\ "-" \notin Image(B) /\ ":" \notin Image(B)
  <2>1. "-" \notin Image(Digits) /\ ":" \notin Image(Digits)
    BY SignsAre DEF Digit
  <2>2. "-" \notin Image(Upstream(s))
    BY <1>2, WhereIs DEF Plain
  <2>3. ":" \notin Image(Revision(s))
    BY DEF Valid
  <2>4. "-" \notin Image(Revision(s))
    <3>1. Image(<<>>) = {}
      BY DEF Image
    <3> QED BY <1>2, <3>1, RevisionSplit
  <2>5. \A i \in DOMAIN p : Image(p[i].str) \subseteq Image(Upstream(s))
    BY <1>2, PartsHold
  <2>6. \A i \in DOMAIN q : Image(q[i].str) \subseteq Image(Revision(s))
    BY <1>2, PartsHold
  <2> HIDE DEF p, q
  <2>7. "-" \notin Image(A)
    BY <1>1, <2>1, <2>2, <2>5, WrittenHolds
  <2>8. "-" \notin Image(B) /\ ":" \notin Image(B)
    BY <1>1, <2>1, <2>3, <2>4, <2>6, WrittenHolds
  <2> QED BY <2>7, <2>8
<1>5. A # <<>> /\ Digit(A[1])
  <2>1. Upstream(s) # <<>> /\ Digit(Upstream(s)[1])
    BY DEF Valid
  <2>2. p # <<>> /\ p[1].str = <<>>
    BY <1>2, <2>1, FirstIsText
  <2> HIDE DEF p
  <2>3. Trimmed(p) # <<>> /\ Trimmed(p)[1] = p[1]
    <3>1. p \in Seq(Cell)
      BY <1>1 DEF Shaped
    <3>2. PICK k \in 0..Len(p) :
            /\ Trimmed(p) \in Seq(Cell) /\ Len(Trimmed(p)) = k /\ \A i \in 1..k : Trimmed(p)[i] = p[i]
      BY <3>1, TrimmedIs
    <3>3. Trimmed(p) # <<>>
      BY <1>1, <2>2, TrimmedParts
    <3>4. 1 \in 1..k
      BY <3>2, <3>3
    <3> QED BY <3>2, <3>3, <3>4
  <2>4. A # <<>>
    BY <1>3, <2>3, PartsEmpty
  <2>5. Digit(A[1]) <=> Parts(A)[1].str = <<>>
    BY <1>3, <2>4, FirstIsText
  <2> QED BY <1>3, <2>2, <2>3, <2>4, <2>5
<1>6. ~NoRevision(q) => B # <<>>
  <2> SUFFICES ASSUME ~NoRevision(q) PROVE B # <<>>
    OBVIOUS
  <2> HIDE DEF q
  <2>1. q # <<>>
    BY DEF NoRevision
  <2>2. Trimmed(q) # <<>>
    BY <1>1, <2>1, TrimmedParts
  <2> QED BY <1>3, <2>2, PartsEmpty
<1>7. S = (IF far THEN Append(Decimal(e), ":") ELSE <<>>) \o A \o R
  <2> HIDE DEF e, p, q
  <2> QED BY <1>1 DEF ToString
<1> HIDE DEF e, p, q, A, B, S
<1>8. "-" \in Char /\ ":" \in Char
  BY SignsAre
<1>9. R \in Seq(Char) /\ body \in Seq(Char)
  BY <1>3, <1>8
<1>10. NoRevision(q) => body = A
  BY <1>3
<1>11. ~NoRevision(q) => body = Around(A, "-", B)
  <2> SUFFICES ASSUME ~NoRevision(q) PROVE A \o (<<"-">> \o B) = (A \o <<"-">>) \o B
    BY DEF Around
  <2>1. <<"-">> \in Seq(Char)
    BY <1>8
  <2> QED BY <1>3, <2>1, ConcatAssociative
<1>12. ":" \in Image(body) <=> ":" \in Image(A)
  <2>1. CASE NoRevision(q)
    <3> HIDE DEF body
    <3> QED BY <1>10, <2>1
  <2>2. CASE ~NoRevision(q)
    <3>1. Image(Around(A, "-", B)) = Image(A) \cup {"-"} \cup Image(B)
      BY <1>3, <1>8, AroundImage
    <3> HIDE DEF body
    <3> QED BY <1>4, <1>11, <2>2, <3>1
  <2> QED BY <2>1, <2>2
<1> HIDE DEF R
<1>13. \/ S = Around(Decimal(e), ":", body)
       \/ S = body /\ ":" \notin Image(body) /\ e = 0
  <2>1. CASE far
    <3> DEFINE d == Decimal(e)
    <3>1. d \in Seq(Char) /\ <<":">> \in Seq(Char)
      BY <1>1, <1>8, DecimalIs
    <3> HIDE DEF d, far
    <3>2. S = Append(d, ":") \o A \o R
      BY <1>7, <2>1 DEF d
    <3>3. Append(d, ":") = d \o <<":">> /\ d \o <<":">> \in Seq(Char)
      BY <3>1
    <3>4. (d \o <<":">>) \o A \o R = (d \o <<":">>) \o (A \o R)
      <4> DEFINE x == d \o <<":">>
      <4>1. x \in Seq(Char) /\ A \in Seq(Char) /\ R \in Seq(Char)
        BY <1>3, <1>9, <3>3
      <4> HIDE DEF x
      <4>2. (x \o A) \o R = x \o (A \o R)
        BY <4>1, ConcatAssociative
      <4> QED BY <4>2 DEF x
    <3> QED BY <3>2, <3>3, <3>4 DEF Around, d
  <2>2. CASE ~far
    <3>1. S = <<>> \o A \o R
      <4> HIDE DEF far
      <4> QED BY <1>7, <2>2
    <3>2. S = A \o R
      BY <1>3, <3>1
    <3>3. e = 0 /\ ":" \notin Image(A)
      BY <1>1, <2>2
    <3> HIDE DEF body
    <3> QED BY <1>12, <3>2, <3>3 DEF body
  <2> HIDE DEF far
  <2> QED BY <2>1, <2>2
<1> HIDE DEF body, far
<1>14. /\ S \in Seq(Char) /\ Rest(S) = body /\ EpochValue(S) = e
       /\ Where(S, ":") # {} =>
            Epoch(S) # <<>> /\ Image(Epoch(S)) \subseteq Image(Digits) /\ ~Overflows(Epoch(S))
  BY <1>1, <1>9, <1>13, EpochWritten
<1>15. Upstream(S) = A /\ Revision(S) = IF NoRevision(q) THEN <<>> ELSE B
  <2>1. CASE NoRevision(q)
    BY <1>4, <1>10, <1>14, <2>1, RevisionSplit
  <2>2. CASE ~NoRevision(q)
    BY <1>3, <1>4, <1>11, <1>14, <2>2, RevisionOf
  <2> QED BY <2>1, <2>2
<1>16. Valid(S)
  <2>1. Where(Rest(S), "-") # {} => Revision(S) # <<>>
    <3>1. CASE NoRevision(q)
      <4>1. Where(A, "-") = {}
        BY <1>3, <1>4, WhereIs
      <4> QED BY <1>10, <1>14, <3>1, <4>1
    <3>2. CASE ~NoRevision(q)
      BY <1>6, <1>15, <3>2
    <3> QED BY <3>1, <3>2
  <2>2. ":" \notin Image(Revision(S))
    <3>1. Image(<<>>) = {}
      BY DEF Image
    <3> QED BY <1>4, <1>15, <3>1
  <2> QED BY <1>5, <1>14, <1>15, <2>1, <2>2 DEF Valid
<1>17. PartsCompare(p, Parts(Upstream(S))) = 0
  BY <1>1, <1>3, <1>15, TrimmedSame
<1>18. PartsCompare(q, Parts(Revision(S))) = 0
  <2>1. CASE NoRevision(q)
    BY <1>1, <1>15, <2>1, NoRevisionSame, PartsEmpty
  <2>2. CASE ~NoRevision(q)
    BY <1>1, <1>3, <1>15, <2>2, TrimmedSame
  <2> QED BY <2>1, <2>2
<1>19. /\ Parsed(S).epoch = e /\ Parsed(S).version = Parts(Upstream(S))
       /\ Parsed(S).revision = Parts(Revision(S))
  BY <1>14 DEF Parsed
<1>20. Order(s, S) = 0
  BY <1>1, <1>17, <1>18, <1>19 DEF Order, Compare
<1> QED BY <1>16, <1>20 DEF S

(* The canonical string of a version without a "-" of its own is a version *)
(* that versioncmp() finds equal to it, however long it is: what           *)
(* parts_to_string() leaves out is what compare_parts() takes as zero, and *)
(* string_to_parts() reads the rest as it was.                             *)
THEOREM CanonicalStringIsSame ==
    ASSUME NumbersFit
    PROVE  VersionSpec => []CanonicalSame
<1> DEFINE Inv == left \in Input /\ (Compared => Valid(left))
<1>1. VersionInit => Inv
  BY DEF VersionInit, Compared, NotCompared
<1>2. Inv /\ [VersionNext]_versionvars => Inv'
  BY DEF VersionNext, versioncmp, Throws, versionvars, Compared, Invalid
<1>3. Inv => CanonicalSame
  BY WrittenBack DEF CanonicalSame
<1> QED
  BY <1>1, <1>2, <1>3, PTL DEF VersionSpec
==============================================================================

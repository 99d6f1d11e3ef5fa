------------------------------ MODULE Repository ------------------------------
(***************************************************************************)
(* The repositories of sources.list: --update copies the index of each     *)
(* to core/indexes and their list to core/update.index, --upgrade and      *)
(* --install <name> read them back and install from what they list.        *)
(*                                                                         *)
(* lock() and unlock() are one step here (see DatabaseLock), and so is a   *)
(* whole unpack (see Package).                                             *)
(***************************************************************************)
EXTENDS Naturals, Sequences, FiniteSetsExt

CONSTANTS
    Process,     \* the processes; one runs one command at a time
    Nobody,      \* has the lock
    Missing,     \* a file that is not there
    Uri,         \* of the repositories
    Package,
    Version,     \* numbers, 0 for a package that is not installed
    Text,        \* the place of each version when they are sorted as text
    Offer,       \* what a repository may publish: sets of package and version
    Listing,     \* what sources.list may hold: sequences of Uri, or Missing
    AtFirst,     \* the versions a package may have at first
    MaxChanges,  \* bound: how often the world changes
    Commands,    \* what the processes run: see CommandNames
    Faults       \* what may fail: see FaultKinds

CommandNames == {"update", "upgrade",
                 "name"}     \* --install <name>
FaultKinds   == {"network",  \* a repository does not answer
                 "disk",     \* an index cannot be written
                 "script",   \* an unpack or a configuration fails
                 "kill"}

ASSUME NobodyAssumption  == Nobody \notin Process
ASSUME VersionAssumption == Version \subseteq Nat \ {0}
ASSUME TextAssumption    == /\ Text \in [Version -> Nat]
                            /\ \A v, w \in Version : Text[v] = Text[w] => v = w
ASSUME OfferAssumption   == Offer \subseteq SUBSET (Package \X Version)
ASSUME ListingAssumption == Listing \subseteq Seq(Uri) \cup {Missing} /\ Missing \notin Seq(Uri)
ASSUME BoundAssumption   == AtFirst \subseteq Version \cup {0} /\ MaxChanges \in Nat
ASSUME KindAssumption    == Commands \subseteq CommandNames /\ Faults \subseteq FaultKinds

VARIABLES
    sources,    \* core/sources.list
    offers,     \* what each repository publishes
    list,       \* core/update.index
    indexes,    \* core/indexes, by the number in the name of a file
    version,    \* of the package installed
    configured, \* the packages that are Installed; the others were only unpacked
    hold,       \* those with X-Selection: Hold
    lock,       \* who has the lock
    pc, cmd,
    f_update_index, \* the list a process has in memory
    f_packages,     \* and the packages it has read from the indexes
    f_installed,    \* what its manager holds of the installed packages
    srcs,           \* the sources, those it still has to update
    unread,         \* the sources whose index it still has to read
    files,          \* the .deb files it still has to install
    fetched,    \* history: the indexes the last update has read
    torn,       \* history: that update did not come to its end
    changes     \* history: how often the world changed

disk    == <<list, indexes>>
target  == <<version, configured>>
memory  == <<f_update_index, f_packages, f_installed, srcs, unread, files>>
history == <<fetched, torn>>
vars == <<sources, offers, disk, target, hold, lock, pc, cmd, memory, history, changes>>

(* A package at a repository: what is at <uri>/<package>_<version>.deb.    *)
Deb == [uri : Uri, package : Package, version : Version]

Empty == [u \in {} |-> Missing]

Pc == {"idle", "lock", "clear", "sources", "update", "list", "read", "relock",
       "validate", "install", "configure"}

(* What update.index holds: the number of the index of each source, and    *)
(* whether it ever answered.                                               *)
IndexList(l) ==
    DOMAIN l \subseteq Uri /\ l \in [DOMAIN l -> [index : Nat, success : BOOLEAN]]

TypeOK ==
    /\ sources \in Listing /\ offers \in [Uri -> Offer]
    /\ list # Missing => IndexList(list)
    /\ \A i \in DOMAIN indexes : indexes[i] \in Offer
    /\ version \in [Package -> Version \cup {0}]
    /\ configured \subseteq Package /\ hold \subseteq Package
    /\ lock \in Process \cup {Nobody}
    /\ pc \in [Process -> Pc]
    /\ cmd \in [Process -> CommandNames \cup {"none"}]
    /\ DOMAIN f_update_index = Process /\ \A p \in Process : IndexList(f_update_index[p])
    /\ f_packages \in [Process -> SUBSET Deb]
    /\ DOMAIN f_installed = Process
    /\ srcs \in [Process -> Seq(Uri)]
    /\ unread \in [Process -> SUBSET Uri]
    /\ files \in [Process -> SUBSET Deb]
    /\ DOMAIN fetched \subseteq Uri /\ \A u \in DOMAIN fetched : fetched[u] \in Offer
    /\ torn \in BOOLEAN
    /\ changes \in 0..MaxChanges

Init ==
    /\ sources \in Listing
    /\ offers \in [Uri -> Offer]
    /\ list = Missing /\ indexes = Empty
    /\ version \in [Package -> AtFirst]
    /\ configured = {q \in Package : version[q] # 0}
    /\ hold = {} /\ lock = Nobody
    /\ pc = [p \in Process |-> "idle"] /\ cmd = [p \in Process |-> "none"]
    /\ f_update_index = [p \in Process |-> Empty]
    /\ f_packages = [p \in Process |-> {}]
    /\ f_installed = [p \in Process |-> Missing]
    /\ srcs = [p \in Process |-> <<>>]
    /\ unread = [p \in Process |-> {}]
    /\ files = [p \in Process |-> {}]
    /\ fetched = Empty /\ torn = FALSE /\ changes = 0

Fault(kind) == kind \in Faults

Goto(p, label) == pc' = [pc EXCEPT ![p] = label] /\ UNCHANGED cmd

(* The command ends, its manager goes and, with it, the lock it has.       *)
Exit(p) ==
    /\ pc' = [pc EXCEPT ![p] = "idle"] /\ cmd' = [cmd EXCEPT ![p] = "none"]
    /\ lock' = IF lock = p THEN Nobody ELSE lock
    /\ f_update_index' = [f_update_index EXCEPT ![p] = Empty]
    /\ f_packages' = [f_packages EXCEPT ![p] = {}]
    /\ f_installed' = [f_installed EXCEPT ![p] = Missing]
    /\ srcs' = [srcs EXCEPT ![p] = <<>>]
    /\ unread' = [unread EXCEPT ![p] = {}]
    /\ files' = [files EXCEPT ![p] = {}]

-----------------------------------------------------------------------------
(* init_installer() reads the list for a name before the lock is taken.    *)
Start(p, c) ==
    /\ pc[p] = "idle" /\ c \in Commands
    /\ pc' = [pc EXCEPT ![p] = IF c = "name" THEN "list" ELSE "lock"] /\ cmd' = [cmd EXCEPT ![p] = c]
    /\ UNCHANGED <<sources, offers, disk, target, hold, lock, memory, history, changes>>

Lock(p) ==
    /\ pc[p] \in {"lock", "relock"} /\ lock = Nobody
    /\ lock' = p
    /\ Goto(p, CASE pc[p] = "relock" -> "validate"
                 [] cmd[p] = "update" -> "clear"
                 [] OTHER -> "list")
    /\ UNCHANGED <<sources, offers, disk, target, hold, memory, history, changes>>

Locked(p) ==
    /\ pc[p] \in {"lock", "relock"} /\ lock # Nobody
    /\ Exit(p)
    /\ UNCHANGED <<sources, offers, disk, target, hold, history, changes>>

-----------------------------------------------------------------------------
(* update()                                                                *)

ClearIndexes(p) ==
    /\ pc[p] = "clear"
    /\ indexes' = Empty
    /\ fetched' = Empty /\ torn' = TRUE
    /\ Goto(p, "sources")
    /\ UNCHANGED <<sources, offers, list, target, hold, lock, memory, changes>>

ReadSources(p) ==
    /\ pc[p] = "sources" /\ sources # Missing
    /\ srcs' = [srcs EXCEPT ![p] = sources]
    /\ Goto(p, "update")
    /\ UNCHANGED <<sources, offers, disk, target, hold, lock, f_update_index, f_packages,
                   f_installed, unread, files, history, changes>>

NoSources(p) ==
    /\ pc[p] = "sources" /\ sources = Missing
    /\ Exit(p)
    /\ UNCHANGED <<sources, offers, disk, target, hold, history, changes>>

(* update_index(): the entry of a source is found by its URI or added with *)
(* the next number, and remembers whether a read ever succeeded.           *)
IndexesRead(entries) ==                 \* mutation: those that answered
    {entries[u].index : u \in {w \in DOMAIN entries : entries[w].success}}
Indexes(entries) == {entries[u].index : u \in DOMAIN entries}
MaxIndex(entries) == Max({0} \cup Indexes(entries))
WithEntry(entries, uri, ok) ==
    [u \in DOMAIN entries \cup {uri} |->
        IF u # uri THEN entries[u]
        ELSE IF u \in DOMAIN entries
             THEN [entries[u] EXCEPT !.success = @ \/ ok]
             ELSE [index |-> MaxIndex(entries) + 1, success |-> ok]]

Store(files_, number, content) ==
    [i \in DOMAIN files_ \cup {number} |-> IF i = number THEN content ELSE files_[i]]

UpdateIndex(p) ==
    /\ pc[p] = "update" /\ srcs[p] # <<>>
    /\ LET uri == Head(srcs[p])
            entries == WithEntry(f_update_index[p], uri, TRUE)
       IN  /\ f_update_index' = [f_update_index EXCEPT ![p] = entries]
           /\ indexes' = Store(indexes, entries[uri].index, offers[uri])
           /\ fetched' = Store(fetched, uri, offers[uri])
    /\ srcs' = [srcs EXCEPT ![p] = Tail(@)]
    /\ UNCHANGED <<sources, offers, list, target, hold, lock, pc, cmd, f_packages,
                   f_installed, unread, files, torn, changes>>

(* A warning, and the next one.                                            *)
UpdateFails(p) ==
    /\ pc[p] = "update" /\ srcs[p] # <<>> /\ Fault("network")
    /\ f_update_index' = [f_update_index EXCEPT ![p] = WithEntry(@, Head(srcs[p]), FALSE)]
    /\ srcs' = [srcs EXCEPT ![p] = Tail(@)]
    /\ UNCHANGED <<sources, offers, disk, target, hold, lock, pc, cmd, f_packages,
                   f_installed, unread, files, history, changes>>

IndexNotWritten(p) ==
    /\ pc[p] = "update" /\ Fault("disk")
    /\ Exit(p)
    /\ UNCHANGED <<sources, offers, disk, target, hold, history, changes>>

SaveIndexList(p) ==
    /\ pc[p] = "update" /\ srcs[p] = <<>>
    /\ list' = f_update_index[p]
    /\ torn' = FALSE
    /\ Exit(p)
    /\ UNCHANGED <<sources, offers, indexes, target, hold, fetched, changes>>

-----------------------------------------------------------------------------
(* upgrade_list(): under the lock for --upgrade, without it for a name.    *)

InstalledNow == [version |-> version, configured |-> configured, hold |-> hold]

LoadIndexList(p) ==
    /\ pc[p] = "list" /\ list # Missing
    /\ f_update_index' = [f_update_index EXCEPT ![p] = list]
    /\ f_installed' = [f_installed EXCEPT ![p] = InstalledNow]
    /\ unread' = [unread EXCEPT ![p] = {u \in DOMAIN list : list[u].success}]
    /\ Goto(p, "read")
    /\ UNCHANGED <<sources, offers, disk, target, hold, lock, f_packages, srcs, files,
                   history, changes>>

(* Nothing to upgrade, or a package that does not exist.                   *)
NoIndexList(p) ==
    /\ pc[p] = "list" /\ list = Missing
    /\ Exit(p)
    /\ UNCHANGED <<sources, offers, disk, target, hold, history, changes>>

NextUnread(p) ==
    {u \in unread[p] : \A w \in unread[p] :
        f_update_index[p][u].index <= f_update_index[p][w].index}

(* upgrade_index(): the packages are where the list says that index is of. *)
UpgradeIndex(p) ==
    /\ pc[p] = "read"
    /\ \E u \in NextUnread(p) :
        /\ f_update_index[p][u].index \in DOMAIN indexes
        /\ f_packages' = [f_packages EXCEPT ![p] = @ \cup
              {[uri |-> u, package |-> o[1], version |-> o[2]] :
                  o \in indexes[f_update_index[p][u].index]}]
        /\ unread' = [unread EXCEPT ![p] = @ \ {u}]
    /\ UNCHANGED <<sources, offers, disk, target, hold, lock, pc, cmd, f_update_index,
                   f_installed, srcs, files, history, changes>>

IndexMissing(p) ==
    /\ pc[p] = "read"
    /\ \E u \in NextUnread(p) : f_update_index[p][u].index \notin DOMAIN indexes
    /\ Exit(p)
    /\ UNCHANGED <<sources, offers, disk, target, hold, history, changes>>

(* check_installed_package(): what a .deb is to the package installed.     *)
Standing(d, installed) ==
    LET q == d.package
        v == installed.version[q]
    IN  IF v = 0 \/ q \notin installed.configured THEN "not_installed"
        ELSE IF v = d.version THEN "installed"
        ELSE IF v > d.version THEN "invalid"
        ELSE IF q \in installed.hold THEN "blocked_upgrade" ELSE "need_upgrade"

(* The list is not used again once the files are chosen.                   *)
Forget(p) ==
    /\ f_update_index' = [f_update_index EXCEPT ![p] = Empty]
    /\ f_packages' = [f_packages EXCEPT ![p] = {}]

(* upgrade(): all that need it, of a list made under one lock, which goes  *)
(* before install() takes another.                                         *)
MarkUpgrades(p) ==
    /\ pc[p] = "read" /\ unread[p] = {} /\ cmd[p] = "upgrade"
    /\ LET marked == {d \in f_packages[p] : Standing(d, f_installed[p]) = "need_upgrade"}
       IN  /\ marked # {}
           /\ files' = [files EXCEPT ![p] = marked]
    /\ lock' = Nobody
    /\ Goto(p, "relock") /\ Forget(p)
    /\ UNCHANGED <<sources, offers, disk, target, hold, f_installed, srcs, unread,
                   history, changes>>

(* add_package() by name: the greatest version, as text; of one version in *)
(* several repositories, the one in the last of them.                      *)
Greatest(p, q) ==
    {d \in f_packages[p] :
        /\ d.package = q
        /\ \A e \in f_packages[p] : e.package = q =>
            \/ Text[e.version] < Text[d.version]
            \/ /\ e.version = d.version
               /\ f_update_index[p][e.uri].index <= f_update_index[p][d.uri].index}
PickByName(p) ==
    /\ pc[p] = "read" /\ unread[p] = {} /\ cmd[p] = "name"
    /\ \E q \in Package : \E d \in Greatest(p, q) :
        /\ Standing(d, f_installed[p]) \in {"not_installed", "need_upgrade"}
        /\ files' = [files EXCEPT ![p] = {d}]
    /\ Goto(p, "relock") /\ Forget(p)
    /\ UNCHANGED <<sources, offers, disk, target, hold, lock, f_installed, srcs, unread,
                   history, changes>>

NothingToInstall(p) ==
    /\ pc[p] = "read" /\ unread[p] = {}
    /\ IF cmd[p] = "upgrade"
       THEN \A d \in f_packages[p] : Standing(d, f_installed[p]) # "need_upgrade"
       ELSE \E q \in Package : \A d \in Greatest(p, q) :
                Standing(d, f_installed[p]) \notin {"not_installed", "need_upgrade"}
    /\ Exit(p)
    /\ UNCHANGED <<sources, offers, disk, target, hold, history, changes>>

-----------------------------------------------------------------------------
(* install(): --upgrade with a manager of its own, --install <name> with   *)
(* the one that has read the target already.                               *)

KnownBefore(p) == f_installed[p]        \* mutation: always the first manager
Known(p) == IF cmd[p] = "upgrade" THEN InstalledNow ELSE f_installed[p]

(* validate_installed_package(), and two versions of one package, whose    *)
(* files clash.                                                            *)
Accepted(d, installed) ==
    LET v == installed.version[d.package]
    IN  v # 0 => /\ d.package \in installed.configured
                 /\ v <= d.version
                 /\ v = d.version \/ d.package \notin installed.hold
Acceptable(debs, installed) ==
    /\ \A d \in debs : Accepted(d, installed)
    /\ \A d, e \in debs : d.package = e.package => d = e
Published(debs) == \A d \in debs : <<d.package, d.version>> \in offers[d.uri]

Validate(p) ==
    /\ pc[p] = "validate"
    /\ Published(files[p]) /\ Acceptable(files[p], Known(p))
    /\ f_installed' = [f_installed EXCEPT ![p] = Known(p)]
    /\ Goto(p, "install")
    /\ UNCHANGED <<sources, offers, disk, target, hold, lock, f_update_index, f_packages,
                   srcs, unread, files, history, changes>>

Refused(p) ==
    /\ pc[p] = "validate"
    /\ Fault("network") \/ ~Published(files[p]) \/ ~Acceptable(files[p], Known(p))
    /\ Exit(p)
    /\ UNCHANGED <<sources, offers, disk, target, hold, history, changes>>

(* unpack() and configure() of one package after the other.                *)
Unpack(p) ==
    /\ pc[p] = "install"
    /\ \E d \in files[p] :
        /\ version' = [version EXCEPT ![d.package] = d.version]
        /\ configured' = configured \ {d.package}
    /\ Goto(p, "configure")
    /\ UNCHANGED <<sources, offers, disk, hold, lock, memory, history, changes>>

Unpacked(p) ==
    {d \in files[p] : version[d.package] = d.version /\ d.package \notin configured}

Configure(p) ==
    /\ pc[p] = "configure"
    /\ configured' = configured \cup {d.package : d \in Unpacked(p)}
    /\ files' = [files EXCEPT ![p] = @ \ Unpacked(p)]
    /\ Goto(p, "install")
    /\ UNCHANGED <<sources, offers, disk, version, hold, lock, f_update_index, f_packages,
                   f_installed, srcs, unread, history, changes>>

(* A failed unpack has put the files of an installed version back; one of  *)
(* a first installation, or a configuration, ends with less.               *)
InstallFails(p) ==
    /\ pc[p] \in {"install", "configure"} /\ files[p] # {} /\ Fault("script")
    /\ Exit(p)
    /\ UNCHANGED <<sources, offers, disk, target, hold, history, changes>>

Installed(p) ==
    /\ pc[p] = "install" /\ files[p] = {}
    /\ Exit(p)
    /\ UNCHANGED <<sources, offers, disk, target, hold, history, changes>>

-----------------------------------------------------------------------------
(* The world around.                                                       *)

(* A process dies; an administrator removes the lock it had.               *)
Kill(p) ==
    /\ pc[p] # "idle" /\ Fault("kill")
    /\ Exit(p)
    /\ UNCHANGED <<sources, offers, disk, target, hold, history, changes>>

(* --add-sources, --remove-sources or an editor, none of which takes the   *)
(* lock.                                                                   *)
EditSources ==
    /\ changes < MaxChanges /\ changes' = changes + 1
    /\ sources' \in Listing
    /\ UNCHANGED <<offers, disk, target, hold, lock, pc, cmd, memory, history>>

Publish ==
    /\ changes < MaxChanges /\ changes' = changes + 1
    /\ \E u \in Uri, o \in Offer : offers' = [offers EXCEPT ![u] = o]
    /\ UNCHANGED <<sources, disk, target, hold, lock, pc, cmd, memory, history>>

(* Any other command, which has the lock while it works.                   *)
OtherCommand ==
    /\ changes < MaxChanges /\ changes' = changes + 1
    /\ lock = Nobody
    /\ \E q \in Package, v \in Version \cup {0} :
        /\ version' = [version EXCEPT ![q] = v]
        /\ configured' \in IF v = 0 THEN {configured \ {q}} ELSE {configured \ {q}, configured \cup {q}}
    /\ UNCHANGED <<sources, offers, disk, hold, lock, pc, cmd, memory, history>>

(* --set-selection, which takes no lock.                                   *)
SetSelection ==
    /\ changes < MaxChanges /\ changes' = changes + 1
    /\ \E q \in Package : hold' \in {hold \cup {q}, hold \ {q}}
    /\ UNCHANGED <<sources, offers, disk, target, lock, pc, cmd, memory, history>>

-----------------------------------------------------------------------------
Step(p) ==
    \/ Lock(p) \/ Locked(p)
    \/ ClearIndexes(p) \/ ReadSources(p) \/ NoSources(p)
    \/ UpdateIndex(p) \/ UpdateFails(p) \/ IndexNotWritten(p) \/ SaveIndexList(p)
    \/ LoadIndexList(p) \/ NoIndexList(p) \/ UpgradeIndex(p) \/ IndexMissing(p)
    \/ MarkUpgrades(p) \/ PickByName(p) \/ NothingToInstall(p)
    \/ Validate(p) \/ Refused(p)
    \/ Unpack(p) \/ Configure(p) \/ InstallFails(p) \/ Installed(p)

Next ==
    \/ \E p \in Process : (\E c \in Commands : Start(p, c)) \/ Step(p) \/ Kill(p)
    \/ EditSources \/ Publish \/ OtherCommand \/ SetSelection

Spec == Init /\ [][Next]_vars

-----------------------------------------------------------------------------
(* What must hold.                                                         *)

(* What the indexes say is what the repositories had when they were last   *)
(* updated, each under its own URI and nothing left out: the entry of a    *)
(* source that answered has its file, and what --upgrade has read is the   *)
(* whole (update_index, save_index_list, upgrade_index).                   *)
ListIsPublished ==
    ~torn =>
        /\ list # Missing =>
            /\ DOMAIN fetched = {u \in DOMAIN list : list[u].success}
            /\ \A u \in DOMAIN fetched :
                /\ list[u].index \in DOMAIN indexes
                /\ indexes[list[u].index] = fetched[u]
        /\ \A p \in Process : lock = p /\ pc[p] = "read" /\ unread[p] = {} =>
            f_packages[p] = {d \in Deb : d.uri \in DOMAIN fetched
                                         /\ <<d.package, d.version>> \in fetched[d.uri]}

(* --upgrade only raises versions, and none that was on hold when it was   *)
(* accepted, whatever other commands do between the list it makes and the  *)
(* installation (upgrade, validate_installed_package).                     *)
UpgradeOnlyRaises ==
    [][\A p \in Process : lock = p /\ cmd[p] = "upgrade" =>
        \A q \in Package : version'[q] # version[q] =>
            /\ version'[q] > version[q]
            /\ version[q] # 0 => q \notin f_installed[p].hold]_version

-----------------------------------------------------------------------------
(* What the code says of it and does not hold.                             *)

(* What --upgrade reads is what the repository it names had, even after an *)
(* update that was cut short (update_index).                               *)
ListIsOfItsRepository ==
    \A p \in Process : lock = p /\ pc[p] = "read" /\ unread[p] = {} =>
        \A d \in f_packages[p] :
            /\ d.uri \in DOMAIN fetched
            /\ <<d.package, d.version>> \in fetched[d.uri]

(* --install <name> never lowers a version (validate_installed_package).   *)
NameOnlyRaises ==
    [][\A p \in Process : lock = p /\ cmd[p] = "name" =>
        \A q \in Package : version'[q] >= version[q]]_version

(* It takes the greatest version there is (add_package).                   *)
NameTakesGreatest ==
    [][\A p \in Process : cmd[p] = "name" =>
        \A d \in files'[p] \ files[p], e \in f_packages[p] :
            d.package = e.package => d.version >= e.version]_files

(* What --upgrade marks is accepted when nothing has changed since         *)
(* (upgrade).                                                              *)
UpgradeAccepted ==
    \A p \in Process : pc[p] = "validate" /\ cmd[p] = "upgrade" /\ changes = 0 =>
        Acceptable(files[p], Known(p))

(* That a repository has answered is remembered (update_time).             *)
SuccessRemembered ==
    [][list # Missing =>
        \A u \in DOMAIN list \cap DOMAIN list' :
            list[u].success => list'[u].success]_list
===============================================================================

---------------------------- MODULE Installation ----------------------------
(***************************************************************************)
(* --install of several .deb files: their validation against the database, *)
(* against each other and against the files of the target, the order in    *)
(* which they are unpacked and configured, and what --configure, --remove  *)
(* and --purge do to the same files (wpkgar_install, disk_list_t,          *)
(* package_list, wpkgar_remove).                                           *)
(*                                                                         *)
(* The steps inside one unpack, one configure and one removal are those of *)
(* module Package; here each is one action, that succeeds or is undone.    *)
(* Which dependencies are added to the list is the business of module      *)
(* Dependencies.                                                           *)
(***************************************************************************)
EXTENDS Naturals, Sequences, FiniteSets

CONSTANTS
    Package,   \* names of packages
    Deb,       \* the .deb files: one version of one package each
    Info,      \* for each: name, version, files, conf, needs, essential
    Path,      \* paths of files
    None,
    Edited,    \* bound: the paths the administrator writes
    Absent,    \* no file at that path
    Admin,     \* a file the administrator wrote
    Command,   \* the command lines
    Faults     \* which of FaultKinds may happen

FaultKinds == {"script",  \* a maintainer script or hook, or a file operation, makes
                          \* an unpack, a configure or a removal fail
               "kill"}    \* bound: wpkg is only killed between unpack() and configure()

Name(d)      == Info[d].name
Version(d)   == Info[d].version
Files(d)     == Info[d].files      \* all its files, the configuration files too
Conf(d)      == Info[d].conf
Regular(d)   == Files(d) \ Conf(d)
Needs(d)     == Info[d].needs      \* a sequence of packages, as in its Depends field
Essential(d) == Info[d].essential

Image(s) == {s[i] : i \in DOMAIN s}
First(S) == CHOOSE i \in S : \A j \in S : i <= j

DebInfo == [name : Package, version : Nat, files : SUBSET Path, conf : SUBSET Path,
            needs : Seq(Package), essential : BOOLEAN]
Commands == [name : {"install", "configure", "remove", "purge"}, debs : Seq(Deb),
             package : Package \cup {None},
             force : SUBSET {"overwrite", "configure_any", "downgrade", "skip_same"}]

ASSUME InfoAssumption ==
    Info \in [Deb -> DebInfo] /\ \A d \in Deb : Conf(d) \subseteq Files(d)
ASSUME NamesAssumption ==
    None \notin Package \cup Deb /\ {Absent, Admin} \cap Deb = {} /\ Absent # Admin
ASSUME CommandAssumption ==
    /\ Command \subseteq Commands
    /\ \A c \in Command :          \* no package is named twice
         /\ c.name = "install" => c.debs # <<>>
         /\ c.name # "install" => c.debs = <<>> /\ c.package \in Package
         /\ \A i, j \in DOMAIN c.debs : Name(c.debs[i]) = Name(c.debs[j]) => i = j
ASSUME EditedAssumption == Edited \subseteq Path
ASSUME FaultsAssumption == Faults \subseteq FaultKinds

VARIABLES
    status,     \* status of each package, "none" when the database has nothing
    deb,        \* the .deb its control files come from
    sums,       \* the .deb whose md5sums were kept aside, or None
    file,       \* what is at each path
    fresh,      \* and at that path with ".wpkg-new" added
    pc, cmd,
    kind,       \* the type of each .deb of the command line
    at,         \* the item the loop is at
    essentials, \* f_essential_files, or None before the first search
    errors,     \* the error count is not zero
    todo,       \* f_sorted_packages that are not unpacked yet
    excused     \* an unpack began that only --force-overwrite allowed, or a package
                \* that was removed before took a file of another with it

target  == <<status, deb, sums, file, fresh>>
process == <<pc, cmd, kind, at, essentials, errors, todo>>
vars    == <<status, deb, sums, file, fresh, pc, cmd, kind, at, essentials, errors, todo, excused>>

Content == Deb \cup {Absent, Admin}
Half    == {"half_installed", "half_configured"}
Present == {"installed", "unpacked"}
Status  == {"none", "not_installed", "config_files"} \cup Half \cup Present
Kinds   == {"explicit", "configure", "same"}
Given   == DOMAIN cmd.debs

TypeOK ==
    /\ status \in [Package -> Status]
    /\ deb \in [Package -> Deb \cup {None}] /\ sums \in [Package -> Deb \cup {None}]
    /\ \A p \in Package : /\ deb[p] = None <=> status[p] = "none"
                          /\ deb[p] # None => Name(deb[p]) = p
    /\ file \in [Path -> Content] /\ fresh \in [Path -> Content]
    /\ pc \in {"idle", "check", "preconfigure", "unpack", "configure", "remove"}
    /\ cmd \in Command \cup {None}
    /\ pc # "idle" => cmd \in Command
    /\ kind \in Seq(Kinds) /\ at \in Nat
    /\ pc \in {"check", "preconfigure"} => DOMAIN kind = Given /\ at \in 1..Len(cmd.debs) + 1
    /\ essentials \in (SUBSET Path) \cup {None}
    /\ errors \in BOOLEAN /\ excused \in BOOLEAN
    /\ todo \in Seq(Deb)

Init ==
    /\ status = [p \in Package |-> "none"]
    /\ deb = [p \in Package |-> None] /\ sums = [p \in Package |-> None]
    /\ file = [f \in Path |-> Absent] /\ fresh = [f \in Path |-> Absent]
    /\ pc = "idle" /\ cmd = None
    /\ kind = <<>> /\ at = 1 /\ essentials = None /\ errors = FALSE /\ todo = <<>>
    /\ excused = FALSE

Fault(k) == k \in Faults
Forces(f) == f \in cmd.force

-----------------------------------------------------------------------------
(* A command begins: its validation up to the files.  One that is refused  *)
(* here changes nothing.                                                   *)

(* validate_installed_package(): any half-made package is an error, and    *)
(* the .deb of a package that is there must be one that may replace it.    *)
MayReplace(c, d) ==
    LET p == Name(d)
    IN  /\ status[p] = "unpacked" => "configure_any" \in c.force
        /\ status[p] = "installed" /\ Version(d) < Version(deb[p]) => "downgrade" \in c.force

KindOf(c, d) ==
    LET p == Name(d)
    IN  IF status[p] = "unpacked" THEN "configure"
        ELSE IF /\ status[p] = "installed" /\ Version(d) = Version(deb[p])
                /\ "skip_same" \in c.force
          THEN "same"
        ELSE "explicit"

(* validate_dependencies(): a package that is only unpacked counts, and    *)
(* --force-configure-any marks it in a list that is then replaced.         *)
DependenciesMet(c, d) ==
    \A q \in Image(Needs(d)) : status[q] \in Present \/ \E e \in Image(c.debs) : Name(e) = q

Accepted(c) ==
    /\ \A p \in Package : status[p] \notin Half
    /\ \A d \in Image(c.debs) : MayReplace(c, d) /\ DependenciesMet(c, d)

Enter(c, label) ==
    /\ pc = "idle"
    /\ cmd' = c /\ pc' = label
    /\ at' = 1 /\ essentials' = None /\ errors' = FALSE
    /\ UNCHANGED <<target, excused>>

Install(c) ==
    /\ c.name = "install" /\ Accepted(c)
    /\ Enter(c, "check")
    /\ kind' = [i \in DOMAIN c.debs |-> KindOf(c, c.debs[i])]
    /\ todo' = <<>>

(* --configure only takes packages that are unpacked.                      *)
Configure(c) ==
    /\ c.name = "configure" /\ status[c.package] = "unpacked"
    /\ \A p \in Package : status[p] \notin Half
    /\ Enter(c, "configure")
    /\ todo' = <<deb[c.package]>>
    /\ UNCHANGED kind

(* --remove and --purge: no other package may be half-made, and none that  *)
(* is there may need it (module Removal).                                  *)
Remove(c) ==
    LET p == c.package
    IN  /\ c.name \in {"remove", "purge"}
        /\ \/ status[p] \in Present \cup Half
           \/ c.name = "purge" /\ status[p] = "config_files"
        /\ ~Essential(deb[p])
        /\ \A q \in Package \ {p} : /\ status[q] \notin Half
                                    /\ status[q] \in Present => p \notin Image(Needs(deb[q]))
        /\ Enter(c, "remove")
        /\ UNCHANGED <<kind, todo>>

Stop ==
    /\ pc' = "idle" /\ cmd' = None
    /\ kind' = <<>> /\ at' = 1 /\ essentials' = None /\ errors' = FALSE /\ todo' = <<>>

-----------------------------------------------------------------------------
(* validate_installed_size_and_overwrite(), one item at a time in the      *)
(* order of the command line: compute_size_and_verify_overwrite().         *)

Item == cmd.debs[at]
OldFilesKept(d) ==                      \* mutation: also when it was removed since
    IF status[Name(d)] # "none" THEN Files(deb[Name(d)]) ELSE {}
OldFiles(d) == IF status[Name(d)] = "installed" THEN Files(deb[Name(d)]) ELSE {}
Clashes == {f \in Files(Item) : file[f] # Absent /\ f \notin OldFiles(Item)}
InCommand == {i \in 1..at - 1 : kind[i] = "explicit"
                                /\ Files(cmd.debs[i]) \cap Files(Item) # {}}

(* find_essential_file(): the list is made once, without the package that  *)
(* asks first.                                                             *)
EssentialUnpacked(skip) ==              \* mutation: what is installed is left out
    UNION {Files(cmd.debs[i]) : i \in {j \in Given \ {skip} :
             kind[j] \in {"explicit", "configure"} /\ Essential(cmd.debs[j])}}
EssentialFiles(skip) ==
    UNION ({Files(cmd.debs[i]) : i \in {j \in Given \ {skip} :
              kind[j] \in {"explicit", "configure"} /\ Essential(cmd.debs[j])}}
      \cup {Files(deb[p]) : p \in {q \in Package : status[q] \in Present /\ Essential(deb[q])}})
Searched == IF essentials = None THEN EssentialFiles(at) ELSE essentials
OfEssential == Clashes \cap Searched

Allowed(f) == f \notin OfEssential /\ (f \in Conf(Item) \/ Forces("overwrite"))

CheckFiles ==
    /\ pc = "check" /\ at <= Len(cmd.debs)
    /\ at' = at + 1
    /\ IF kind[at] # "explicit" THEN UNCHANGED <<essentials, errors>>
       ELSE /\ essentials' = IF Clashes = {} THEN essentials ELSE Searched
            /\ errors' = (errors \/ InCommand # {} \/ \E f \in Clashes : ~Allowed(f))
    /\ UNCHANGED <<target, excused, pc, cmd, kind, todo>>

(* sort_packages(): the first package that is not listed yet, but what it  *)
(* needs of the command line before it, in the order of its Depends field. *)
Sortable(listed) == {i \in Given \ listed : kind[i] = "explicit"}
Missing(i, listed) ==
    {k \in DOMAIN Needs(cmd.debs[i]) :
        \E j \in Sortable(listed) : Name(cmd.debs[j]) = Needs(cmd.debs[i])[k]}
NextListed(listed) ==
    LET down[n \in 0..Len(cmd.debs)] ==
            IF n = 0 THEN First(Sortable(listed))
            ELSE LET i == down[n - 1]
                 IN  IF Missing(i, listed) = {} THEN i
                     ELSE CHOOSE j \in Sortable(listed) :
                            Name(cmd.debs[j]) = Needs(cmd.debs[i])[First(Missing(i, listed))]
    IN  down[Len(cmd.debs)]
SortedAsGiven ==                        \* mutation: the order of the command line
    SelectSeq(cmd.debs, LAMBDA d : \E i \in Sortable({}) : cmd.debs[i] = d)
Sorted ==
    LET list[n \in 0..Len(cmd.debs)] ==
            IF n = 0 THEN <<>>
            ELSE LET before == list[n - 1]
                 IN  IF Sortable(Image(before)) = {} THEN before
                     ELSE Append(before, NextListed(Image(before)))
        indexes == list[Len(cmd.debs)]
    IN  [k \in DOMAIN indexes |-> cmd.debs[indexes[k]]]

(* pre_configure() looks for the packages to configure before the rest.    *)
NextUnpacked(i) ==
    LET S == {j \in Given : j >= i /\ kind[j] = "configure"}
    IN  IF S = {} THEN Len(cmd.debs) + 1 ELSE First(S)
After(i) == IF i > Len(cmd.debs) THEN "unpack" ELSE "preconfigure"

(* The validation ends: with an error, a validate script that fails among  *)
(* them, the command is over.                                              *)
Invalid ==
    /\ pc = "check" /\ at > Len(cmd.debs)
    /\ errors \/ Fault("script")
    /\ Stop
    /\ UNCHANGED <<target, excused>>
Valid ==
    /\ pc = "check" /\ at > Len(cmd.debs)
    /\ ~errors
    /\ at' = NextUnpacked(1) /\ pc' = After(at')
    /\ todo' = Sorted
    /\ UNCHANGED <<target, excused, cmd, kind, essentials, errors>>

-----------------------------------------------------------------------------
(* configure_package(): the configuration files of the package, then its   *)
(* postinst script.                                                        *)

Unmodified(p, f) == sums[p] # None /\ f \in Conf(sums[p]) /\ file[f] = sums[p]
MovedAll(p) ==                          \* mutation: whatever is there is replaced
    {f \in Conf(deb[p]) : fresh[f] # Absent}
Moved(p) ==             \* the files that are replaced by their ".wpkg-new"
    {f \in Conf(deb[p]) : fresh[f] # Absent /\ (file[f] = Absent \/ Unmodified(p, f))}
Lost(p) == {f \in Conf(deb[p]) : file[f] = Absent /\ fresh[f] = Absent}

Configured(p, result) ==
    /\ file'  = [f \in Path |-> IF f \in Moved(p) THEN fresh[f] ELSE file[f]]
    /\ fresh' = [f \in Path |-> IF f \in Moved(p) THEN Absent ELSE fresh[f]]
    /\ status' = [status EXCEPT ![p] = result]
    /\ UNCHANGED <<deb, sums, excused>>
Succeeds(p) == Lost(p) = {} /\ Configured(p, "installed")
Fails(p)    == (Lost(p) # {} \/ Fault("script")) /\ Configured(p, "half_configured") /\ Stop

(* pre_configure(): the packages --force-configure-any found unpacked.     *)
PreConfigure ==
    /\ pc = "preconfigure"
    /\ \/ /\ Succeeds(Name(Item))
          /\ at' = NextUnpacked(at + 1) /\ pc' = After(at')
          /\ UNCHANGED <<cmd, kind, essentials, errors, todo>>
       \/ Fails(Name(Item))

-----------------------------------------------------------------------------
(* unpack() and configure() of each package in turn.                       *)

Next1 == Head(todo)
Upgrades(d) == status[Name(d)] = "installed"

(* do_unpack() writes the files of the package, its configuration files    *)
(* with ".wpkg-new" added, and deletes those the old version had only.     *)
Dropped(d) == IF Upgrades(d) THEN Regular(deb[Name(d)]) \ Regular(d) ELSE {}
Overwrites(d) == \E f \in Regular(d) \ OldFiles(d) : file[f] # Absent
Unpack ==
    LET d == Next1
        p == Name(d)
    IN  /\ pc = "unpack" /\ todo # <<>>
        /\ file' = [f \in Path |-> IF f \in Regular(d) THEN d
                                   ELSE IF f \in Dropped(d) THEN Absent ELSE file[f]]
        /\ fresh' = [f \in Path |-> IF f \in Conf(d) THEN d ELSE fresh[f]]
        /\ status' = [status EXCEPT ![p] = "unpacked"]
        /\ deb' = [deb EXCEPT ![p] = d]
        /\ sums' = [sums EXCEPT ![p] = deb[p]]
        /\ excused' = (excused \/ (Forces("overwrite") /\ Overwrites(d)))
        /\ pc' = "configure"
        /\ UNCHANGED <<cmd, kind, at, essentials, errors, todo>>

(* Its files are restored and the scripts that unwind it may fail too; a   *)
(* fresh install is already in the database.                               *)
UnpackFails ==
    LET d == Next1
        p == Name(d)
    IN  /\ pc = "unpack" /\ todo # <<>>
        /\ Fault("script")
        /\ IF Upgrades(d)
             THEN /\ \E s \in Half \cup Present : status' = [status EXCEPT ![p] = s]
                  /\ UNCHANGED <<deb, sums>>
             ELSE /\ \E s \in {"half_installed", "not_installed"} :
                       status' = [status EXCEPT ![p] = s]
                  /\ deb' = [deb EXCEPT ![p] = d]
                  /\ sums' = [sums EXCEPT ![p] = deb[p]]
        /\ excused' = (excused \/ (Forces("overwrite") /\ Overwrites(d)))
        /\ Stop
        /\ UNCHANGED <<file, fresh>>

InstallDone ==
    /\ pc = "unpack" /\ todo = <<>>
    /\ Stop
    /\ UNCHANGED <<target, excused>>

ConfigureNext ==
    /\ pc = "configure"
    /\ \/ Fails(Name(Next1))
       \/ /\ Succeeds(Name(Next1))
          /\ IF cmd.name = "configure" THEN Stop
             ELSE /\ pc' = "unpack" /\ todo' = Tail(todo)
                  /\ UNCHANGED <<cmd, kind, at, essentials, errors>>

Killed ==
    /\ pc = "configure" /\ Fault("kill")
    /\ Stop
    /\ UNCHANGED <<target, excused>>

-----------------------------------------------------------------------------
(* do_remove() and, for --purge, deconfigure_package().  do_remove() deletes *)
(* the files of the package whether they are still its own or not, and is   *)
(* also called for one that was removed before.                             *)

TakesOthers(p, F) == \E f \in F \ Conf(deb[p]) : file[f] \in Deb /\ Name(file[f]) # p
Delete(p, F) ==
    /\ file' = [f \in Path |-> IF f \in F THEN Absent ELSE file[f]]
    /\ excused' = (excused \/ (status[p] \notin Present /\ TakesOthers(p, F)))
    /\ UNCHANGED <<deb, sums>>
AfterRemove(p) == IF status[p] = "unpacked" THEN "not_installed" ELSE "config_files"

Removed ==
    LET p == cmd.package
        purge == cmd.name = "purge"
    IN  /\ pc = "remove"
        /\ Delete(p, IF purge THEN Files(deb[p]) ELSE Regular(deb[p]))
        /\ fresh' = [f \in Path |-> IF purge /\ f \in Conf(deb[p]) THEN Absent ELSE fresh[f]]
        /\ status' = [status EXCEPT ![p] = IF purge THEN "not_installed" ELSE AfterRemove(p)]
        /\ Stop

(* The prerm script or an unlink fails: the files are restored, the status  *)
(* perhaps not.                                                             *)
RemoveFails ==
    LET p == cmd.package
    IN  /\ pc = "remove" /\ Fault("script")
        /\ \E s \in {status[p], "half_installed"}
                 \cup (IF status[p] = "config_files" THEN {"half_configured"} ELSE {}) :
              status' = [status EXCEPT ![p] = s]
        /\ Stop
        /\ UNCHANGED <<deb, sums, file, fresh, excused>>

(* The prerm script fails when the files are gone.                          *)
PurgeFails ==
    LET p == cmd.package
    IN  /\ pc = "remove" /\ cmd.name = "purge" /\ Fault("script")
        /\ AfterRemove(p) = "config_files"
        /\ Delete(p, Regular(deb[p]))
        /\ \E s \in {"config_files", "half_configured"} : status' = [status EXCEPT ![p] = s]
        /\ Stop
        /\ UNCHANGED fresh

(* The administrator edits a configuration file, or writes a file where no *)
(* package has one; bound: while wpkg does not run.                        *)
Owned == UNION {Regular(deb[p]) : p \in {q \in Package : status[q] \in Present \cup Half}}
AdminWrites(f) ==
    /\ pc = "idle" /\ f \in Edited \ Owned
    /\ file[f] = Absent \/ \E d \in Deb : f \in Conf(d)
    /\ file' = [file EXCEPT ![f] = Admin]
    /\ UNCHANGED <<status, deb, sums, fresh, excused, process>>

-----------------------------------------------------------------------------
Work == \/ CheckFiles \/ Invalid \/ Valid
        \/ PreConfigure
        \/ Unpack \/ UnpackFails \/ InstallDone \/ ConfigureNext
        \/ Removed \/ RemoveFails \/ PurgeFails

Next == \/ \E c \in Command : Install(c) \/ Configure(c) \/ Remove(c)
        \/ Work
        \/ Killed
        \/ \E f \in Path : AdminWrites(f)

Spec == Init /\ [][Next]_vars

-----------------------------------------------------------------------------
(* What must hold.                                                         *)

(* No package loses a file to another: as long as --force-overwrite was    *)
(* not needed and no package was removed twice, every file of a package    *)
(* that is there is its own, whatever was installed, upgraded, removed or  *)
(* failed since.                                                           *)
OwnFiles ==
    ~excused => \A p \in Package : status[p] \in Present =>
                   \A f \in Regular(deb[p]) : file[f] = deb[p]

(* Only --force-overwrite, --purge and the removal of a half-made package  *)
(* touch what the administrator wrote.                                     *)
AdminKept ==
    [][\A f \in Path : file[f] = Admin /\ file'[f] # Admin =>
         \/ Forces("overwrite") /\ pc = "unpack"
         \/ /\ pc = "remove" /\ f \in Files(deb[cmd.package])
            /\ cmd.name = "purge" \/ status[cmd.package] \in Half]_vars

(* Not even --force-overwrite lets a package take a file of an essential   *)
(* one; only a file it had before that one is still seen as its own        *)
(* (compute_size_and_verify_overwrite).                                    *)
EssentialKept ==
    [][\A f \in Path, e \in Deb : Essential(e) /\ file[f] = e /\ file'[f] \in Deb =>
         Name(file'[f]) = Name(e) \/ f \in OldFiles(file'[f])]_vars

(* When a package is unpacked, the packages it needs were installed before *)
(* it, in the version of the command line (sort_packages).                 *)
DependenciesFirst ==
    [][(\E p \in Package : deb'[p] # deb[p] /\ status'[p] = "unpacked") =>
         \A i \in Given : kind[i] = "explicit" /\ Name(cmd.debs[i]) \in Image(Needs(Next1)) =>
             /\ status[Name(cmd.debs[i])] = "installed"
             /\ deb[Name(cmd.debs[i])] = cmd.debs[i]]_vars

(* The runs below refute these.                                            *)

(* The configuration files of an installed package are there ("later we    *)
(* may support a Replace in which case the names could differ").           *)
ConffilesKept ==
    \A p \in Package : status[p] = "installed" => \A f \in Conf(deb[p]) : file[f] # Absent

(* A removal deletes what the package installed (wpkgar_remove::remove():  *)
(* "Remove the files previously installed from a package.").               *)
RemovesOwn ==
    [][pc = "remove" =>
         \A f \in Path : file[f] \in Deb /\ file'[f] # file[f] =>
             Name(file[f]) = cmd.package \/ f \in Conf(deb[cmd.package])]_vars

(* An installation is refused for the sake of an essential package only if *)
(* that is another package (find_essential_file skips the one that asks).  *)
EssentialIsOther ==
    pc = "check" /\ at <= Len(cmd.debs) /\ kind[at] = "explicit" =>
        \A f \in OfEssential :
            \/ \E i \in Given \ {at} : f \in Files(cmd.debs[i])
            \/ \E p \in Package \ {Name(Item)} : status[p] \in Present /\ f \in Files(deb[p])

(* --force-configure-any configures the package before it is upgraded.     *)
ConfiguredAndUpgraded ==
    pc = "unpack" /\ todo = <<>> =>
        \A d \in Image(cmd.debs) : deb[Name(d)] = d

(* --force-configure-any configures the packages that are needed first.    *)
DependenciesConfigured ==
    pc = "unpack" /\ Forces("configure_any") =>
        \A d \in Image(cmd.debs) : \A q \in Image(Needs(d)) :
            status[q] = "installed" \/ \E e \in Image(todo) : Name(e) = q
==============================================================================

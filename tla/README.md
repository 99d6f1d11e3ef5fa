# unigw: a verification development for wpkg

unigw holds `wpkg`, a package manager in C++ modelled on Debian's, its library
`libdebpackages`, a Qt front end (`pkg-explorer`) and some vendored libraries. This
directory holds TLA+ models of what the library does to a target system, TLC runs that
check them, and TLAPS proofs about them. Paths below are under
`src/wpkg/libdebpackages/` unless they start with `src/`.

    tlc -workers 2 -config package_faults.cfg MCPackage.tla     # one run; PROJECT.json lists all
    tlapm Package_proofs.tla                                    # the proofs of one module

## Inventory

### Components

| Component | State | Operations | What makes it correct |
|---|---|---|---|
| Package life cycle, installing side (`wpkgar_install.cpp`, `installer/package_item.cpp`) | `X-Status` and control files of each package in the database, `md5sums.wpkg-old`; the files on the target; a configuration file and its `.wpkg-new/-old/-user` | `--install`, `--unpack`, `--configure`, `--reconfigure`; preinst, postinst, abort scripts, hooks | a status never claims files that are not there; a failed upgrade gives the old version back before its scripts run; edits of the administrator survive |
| Package life cycle, removing side (`wpkgar_remove.cpp`) | the same | `--remove`, `--purge`, `--deconfigure`, `--autoremove` | nothing left behind, a purge erases, a failed removal is undone |
| File transaction (`wpkg_backup.cpp`) | the list of saved files, copies in `tmp/backup` | `backup()`, `restore()`, `success()` | all or nothing; no content lost at any crash point |
| Files and links (`memfile.cpp`, `wpkg_stream.cpp`, `wpkg_filename.cpp`) | the target | read, write, rename, link, unlink | only the package's own files change; failures are seen |
| Database lock (`wpkgar_manager`, `wpkgar_lock`) | `core/wpkg.lck`, the `core` package's status, the records cached by each process | `lock()`, `unlock()`, `remove_lock()`, `load_package()`, `set_field()` | one command at a time; no lost update; always a way back to Ready |
| Dependency resolution (`installer/dependencies.cpp`, `installer/tree_generator.cpp`, `installer/package_list.cpp`) | the package list and its types, the trees tried, the best one | `validate_dependencies()` | what is selected is consistent, and the best; giving up only when nothing fits; termination |
| Versions (`debian_version.cpp`, `wpkg_util.cpp`) | none | parse, compare, print | a total order that agrees with the syntax |
| Rollback journal (`wpkgar_tracker.cpp`) | a file of inverse commands | `track()`, `commit()`, `rollback()` | replaying it undoes what was done, in reverse order, under the lock |
| Repository index (`wpkgar_repository.cpp`) | `core/sources.list`, the index files, `core/update.index` | `update()`, `upgrade_list()`, `--upgrade`, `--install <name>` | each index is that of the repository the list names; an upgrade never lowers a version |
| Package building (`wpkgar_build.cpp`) | a build tree | `--build` | formatting and validation of input |
| Control files, fields, expressions (`wpkg_control*.cpp`, `wpkg_field.cpp`, `wpkg_dependencies.cpp`, `src/wpkg/libexpr`) | none | parse, validate, evaluate | pure functions |
| Messages (`wpkg_output.cpp`) | a process-wide error count | `log()` | the count decides the result of every validation |
| Tools (`src/wpkg/tools`), `src/pkg-explorer` | command line; windows, worker threads | chain the operations above | which lock is held when |
| Vendored: zlib, bzip2, libtld, libutf8, controlled_vars, catch | - | - | not this project's logic |

`PROJECT.json` lists every component with what is modelled of it.

### Interaction

A tool creates one `wpkgar_manager` (the database), initialises a `wpkgar_install` or a
`wpkgar_remove` with the packages of the command line, takes the database lock,
validates (status, dependencies, overwrites), and runs the phases package by package.
`do_unpack()` and `do_remove()` call maintainer scripts between the steps on the files,
which go through a `wpkgar_backup`; each phase writes the package's `X-Status` first and
its outcome afterwards. Each of them also appends the inverse command to the journal of a
`wpkgar_tracker`, when there is one. Processes meet only in the file system: through
the lock file, the status of `core` and the records they rewrite whole.

### Hard behaviours

- Many exits: every step can throw, and what is undone depends on how far it got, on
  whether the package is upgraded or installed fresh, and on which scripts fail in turn.
- Crashes: nothing is logged before it is done but the statuses themselves.
- Links: a path of the archive may lead elsewhere, and saving, writing, unlinking and
  restoring do not all agree on following it.
- State read too early: packages loaded before the lock is taken, a cached list of
  essential files, a global error count.
- Recursive search with side effects on a shared list (the dependencies).

The hazards of `PROJECT.json` name these at the line where they bite, with the
properties that would catch them.

## Modules

| Module | Models | Composition |
|---|---|---|
| `Package` | one package through all seven commands, scripts, faults, crashes | - |
| `Backup` | the file operations of a transaction on files, links and directories, call by call | implements `Transaction` |
| `Transaction` | what a transaction promises: all or nothing | abstract specification |
| `Installation` | `--install` of several `.deb` files, and configurations, removals and purges of the same packages: whose file is at each path | takes a whole unpack, configure or removal of `Package` as one action with its outcomes |
| `Removal` | removals of several packages: what depends on them, protections, `--recursive`, `--autoremove` | the same for removals |
| `Journal` | the rollback journal: the lines commands write, a crash or a failure, the commands a rollback runs | keeps of each command the steps the journal tells apart |
| `DatabaseLock` | several processes on the database: lock, core status, cached records | - |
| `Repository` | several processes that update the indexes and install from them, while repositories, sources and the target change | takes a lock of `DatabaseLock`, and an unpack and a configure of `Package`, as one action each |
| `Dependencies` | `validate_dependencies()` of one `--install` | chooses the list `Installation` is given |
| `Version` | Debian versions: parts, comparison, canonical string | `Dependencies` and `Installation` have numbers instead |
| `*_proofs` | theorems about `Package`, `Backup`, `Installation`, `Removal`, `Dependencies`, `DatabaseLock`, `Repository` (with `Version`), `Journal` | extend the above and `TLAPS` |
| `MC*` | the instances TLC checks | extend the above |

### Package

One step per point where the process can die or the code can leave: each `X-Status`
written (`status`), each file extracted or deleted (`disk`), each round of scripts. `pc`
is the place in the code, `todo` the files the loop at hand still has to visit, `saved`
what the backup object would write back, `orig` the status the item had when it was
validated. The content of a data file is the version that wrote it, so that "the right
file" can be told from "some file"; the configuration file has its three copies in
`conf` and in the slot `New` of `disk`.

- `StartInstall` ... `StartDeconfigure`: validation, with the statuses each command
  accepts (`validate_installed_package()` and its counterparts in `wpkgar_remove`) and
  the check that no foreign file is overwritten.
- `BeginUpgrade`/`BeginInstall`, `PreupgradeScripts`, `AbortPrerm`, `PreinstScripts`,
  `AbortPreinst`: `do_unpack()` up to the files, `preupgrade_scripts()`, `preinst_scripts()`.
- `UnpackFile`, `UnpackFileFails`, `UnpackFileShort`, `DropOldFile*`,
  `PostupgradeScripts`, `Cancel*`, `CopyInDatabase*`, `SetUnpacked`: the extraction, the
  deletion of what the new version has no more, the catch block, and the end.
- `UseSavedConffile` ... `PostinstScripts`: `configure_package()`.
- `RemoveStatus` ... `FinishRemove`, `DeconfigureStatus` ... `FinishDeconfigure`:
  `do_remove()` and `deconfigure_package()`.
- `Crash`, `RemoveLock`, `EditConffile`: the world around.

`Faults` says what may go wrong: `script` (a maintainer script exits with an error),
`hook`, `write` (an extraction throws), `space` (a short write that nobody notices,
`fstream::write()`), `unlink`, `rename`, `copy` (the copy to the database), `crash`.

### Backup and Transaction

`Backup` refines the part `Package` treats as one step: what `backup()` copies, in which
order `restore()` writes back and then deletes the copies, and what happens at a link or
a directory. A `node` is nothing, a file with a content, a link to a path or a
directory. `stat()`, `open()` and `fopen()` follow links, `unlink()` and `symlink()` do not;
`Follow` is used exactly where the code calls the former. A crash may fall between any
two calls. `Transaction` knows the target, what was asked for, and only that a
transaction ends with all of it or with what was there before (`obsolete` are the files
an upgrade tries to delete and, by design, only logs when it cannot). `AllOrNothing` is
the refinement: `Backup` with `wanted`, `obsolete` and `running` computed from its state
implements `Transaction!Spec`.

### Installation

`Package` follows one package; what goes wrong between packages is in `Installation`. A
`.deb` is one version of a package, with the paths of its files, its configuration files
among them, and its dependencies in the order of the field; `file` says from which `.deb`
(or from the administrator) the content at a path is, and `fresh` the same for the path
with `.wpkg-new` added.

- `Install`, `Configure`, `Remove`: the command is accepted on the statuses of all
  packages (`validate_installed_package()`, `find_dependencies()`, `validate_explicit_packages()`).
- `CheckFiles`: one item of the loop of `validate_installed_size_and_overwrite()`: `Clashes`
  are the files that exist and are not of the version it replaces, `InCommand` those of
  another package of the command line, `OfEssential` those `find_essential_file()` finds
  in a list it makes once (`essentials`). `Sorted` is `sort_packages()`, as a fold with
  recursive functions: the first package that is not listed yet, but its dependencies
  first. Dependencies in a circle, which make that function recurse without end, are not
  among the inputs.
- `PreConfigure`, `Unpack`, `ConfigureNext` and their failures: the driver of `install()` in
  `src/wpkg/tools/wpkg.cpp`, each package unpacked and configured in turn. A failed unpack
  has put its files back, with any of the statuses `Package` reaches; one of a fresh
  install is in the database all the same.
- `Removed`, `RemoveFails`, `PurgeFails`: `do_remove()` deletes the files at the paths of
  the package whoever has written them since.
- `AdminWrites`: a file of the administrator, or an edit.

### Removal

A command has a list with a type for each package (`type`), as `wpkgar_remove` has.
`Load` gives the types (`validate_explicit_packages()`, `validate_installed_packages()`),
`CheckDependents` is one round of `validate_dependencies()`, which adds what depends on a
package to `work` or makes an error of it; `Validated`, then `Take` in the order of the code:
the command line first, then those found. `PrermDone` to `FinishDeconfigure` are
what the module needs of the steps of `Package`, with `status` and whether the files are
there. `AutoPick` is one round of `--autoremove`, which keeps its own idea of the statuses
(`known`) and builds a new list, without parameters, for each package it takes.

### Journal

The session: up to `Limit` commands, each a process of its own that validates, writes a
line (`track`) and changes `status` and `version` step by step, or fails, or dies. A line
holds the command that undoes the change. The rollback: `ParseFails` where the file has a
line without parameter, else `RunLine` from the last line to the first, with `Undone` what
the command makes of the package if its validation (`Valid`, `Removable`, `Restorable`)
accepts the target and the error count is still zero; `SkipLine` otherwise. `--build` runs
its rollback in the process that did the installation, with the list of installed
packages it made at first (`listed`); `--rollback` in a new one.

### Version

A version is a sequence of characters; `Parts` cuts it into texts and numbers as
`string_to_parts()` does, `PartsCompare` is `compare_parts()`, `Rank` the order of the characters in
`cmp()`, `ToString` the canonical string. All are recursive functions of a bounded domain, no
RECURSIVE operator. The module has no behaviour but to compare: `Init` takes any two
inputs and `versioncmp()` gives the answer or throws.

### DatabaseLock

Each action is one call that touches the disk: `OpenLock` is the `O_CREAT | O_EXCL` open,
`LoadStatus`, `TakeLock` and `NotReady` the rest of `lock()`, `UnlockReady` and `UnlockFile` the
two halves of `unlock()`, `RemoveLock`, `RemoveLoad`, `RemoveReady` those of
`remove_lock()`. A command `file` reads the database after it has the lock; a command `name`
first runs `upgrade_list()` for a package given by name, before the lock (`init_installer()` in
`src/wpkg/tools/wpkg.cpp`). The record of a package is the set of updates it holds;
`set_field()` writes back what the process read with its own update. `died` remembers
the lock files of killed processes: their staying is expected. A command `create`
(`--create-database-lock`) ends with the lock on purpose; a command `select`
(`--set-selection`) loads and rewrites a record without any lock.

### Repository

A process runs `update`, `upgrade` or `name` (`--install <name>`); `pc` is the place in the
driver of the tool. `list` and `indexes` are the two things an update leaves on the disk,
`update.index` and the files `update-<n>.index.gz`, written at different moments; `f_update_index`,
`f_packages` and `f_installed` what a process has of them, and of the target, in memory.

- `ClearIndexes`, `ReadSources`, `UpdateIndex`, `UpdateFails`, `SaveIndexList`: `update()`, one
  source at a time. `WithEntry` is what `update_index()` does to the list: an entry is found by
  its URI or added with the number after the largest.
- `LoadIndexList`, `UpgradeIndex`: `upgrade_list()`, one index at a time, so that the readers
  that have no lock (`name`) meet an update at work. `Standing` is `check_installed_package()`.
- `MarkUpgrades`, `PickByName`: what is chosen. The first releases the lock; both then wait
  for the one of `install()` (`relock`), which validates (`Acceptable`) with a manager of its own
  for `upgrade`, with the one that has read the target already for `name` (`Known`).
- `Unpack`, `Configure`, `InstallFails`: the loop of `install()`.
- `EditSources`, `Publish`, `OtherCommand`, `SetSelection`: everything else that changes what
  these commands read.

`Text` orders the versions as strings, the order of the `std::map` of `add_package()`.
`fetched` and `torn` remember what the last update has read, and whether it ended.

### Dependencies

A state machine of six phases: `installed` (is the command line self-contained with the
target?), `conflicts` and `trim` (the two loops of `trim_available_packages()`), `tree`
(the generator), `verify` (`verify_tree()`), `done`. `trim_available()` and
`find_dependencies()` call themselves; their frames are on `stack`, one step per dependency,
so the order in which the shared list changes under the recursion is the code's. The
package list is a sequence, in the code's order: command line, target, repositories.
Versions are numbers and a dependency is a set of versions, which covers every
operator of `match_dependency_version()`. The module is deterministic once the list is
chosen: all the choice is in `Init`.

## Runs

| Run | Question | Instance |
|---|---|---|
| `package_faults` | does an Installed or Unpacked status ever lie about the files; do the scripts that cancel an upgrade see the old files; is there always a configuration file, do edits survive, do commands end? | one package, every command but `--reconfigure`, crashes anywhere |
| `package_leftovers` | is anything left behind, does a command end in a status nobody accepts, does a purge erase? | every command, no crash, no `unlink` or `copy` fault, deadlock checked |
| `backup` | is a transaction all or nothing, is no content ever lost, does it touch a file of another, does it end? | three archives over three paths, with links to a foreign file |
| `installation` | do packages keep their files while files move between them, do the administrator and the essential packages keep theirs, are dependencies there first? | five `.deb` files of three packages over four paths |
| `removal` | does what is left have what it needs, is exactly what is needed taken, are protected packages spared, does `--autoremove` do its work and end? | three packages in a chain, by pairs and in a ring |
| `journal` | is the journal written ahead, does a rollback restore or report, does it end? | sessions of up to three commands over three packages |
| `dependencies` | is a selection complete and consistent, the best one, is giving up justified, does the search end? | repositories of up to five packages |
| `versions` | do the answers fit each other, and the canonical string its version? | every pair of some 370 versions |
| `lock_all` | do two commands ever work at once? | three processes, every command, every fault |
| `lock_commands` | lost updates, leaked locks, a core status that stays | three processes, commands that read under the lock, crashes |
| `repository` | does the list name the repository each index is of, does an upgrade ever lower a version or upgrade what is on hold? | two processes, two repositories, three versions, kills and failures anywhere |
| `purge_takes_others` | a disagreement between the code and what it says, below | |

Each passing run holds for its instance; each property has a mutant in `PROJECT.json`,
a plausible mistake in one definition that makes the run fail. `TypeOK` of the modules whose
runs do not list it holds in the same instances, and is a theorem where there are proofs.

The limits of the passing runs are part of what they say:

- `--reconfigure` is left out of `package_faults` because it deletes every data file
  (`ReconfigureKeepsFiles` below); with it, `InstalledFilesPresent` fails. A short write that
  goes unnoticed makes it fail too, so `space` is only among the faults of
  `package_leftovers`.
- `ConffilePresent` and `EditSurvives` need renames that work: `os_rename()` reports a
  failure to nobody when it should, and `configure_package()` replaces the file by two
  renames.
- `NoStrayFile` and `RestsRepairable` are about commands that end: after a crash the
  package stays Installing, Upgrading or Removing, which no command accepts. An `unlink`
  of an old file that fails is logged and the file stays, by design.
- `AllOrNothing` and `NothingLost` are about restores that work: when one fails its copy is
  deleted too (`NothingLost` below). `AllOrNothing` is about what a reader finds at a path; a link
  is restored as a file with the content of its target, see below. `OnlyOwnFiles` is about links
  that lead to the same place in every version (`SoundLinks`; `OnlyOwnFiles` below).
- `OwnFiles` holds until a package is unpacked that only `--force-overwrite` allowed, or a
  package that had been removed before takes a file of another with it (`RemovesOwn` below):
  `excused` says which happened. `EssentialKept` leaves out a file the package had before
  the essential one; `AdminKept` leaves out `--purge`, `--force-overwrite` and the removal of
  half-made packages.
- `TreeKept` leaves out `--force-depends` and removals that were stopped in the middle;
  `PlanIsClosure` `--force-depends`. `ProtectedStays` is about Essential, Required and held
  packages; the package of wpkg itself is not protected from `--recursive` (`SelfStays`).
- `WriteAhead` leaves out the package `--configure` has in its hands; `RollbackRestores` allows
  a rollback to report an error instead, unless the session was plain: fresh installs and
  deconfigurations that all went well. What was removed may come back unpacked only
  (`LeftUnpacked`, see `RemovalUndone` below). A prerm script that fails during the rollback is
  logged as a warning only.
- `DebianOrder` orders releases (numbers and dots) and versions where a `~` follows a letter and
  does not turn a revision into a part of the version (`1-a` has the revision `a`, `1-a~-a` the
  version `1-a~`); `CanonicalSame` leaves out a `-` in the version itself when no revision is written. See
  `Transitive`, `TildeAlwaysFirst` and `CanonicalAlwaysSame` below.
- `NoLostUpdate`, `RestsReady` and `BackToReady` are about commands that read the
  database under the lock (neither `name` nor `select`); `OneWorker` about one administrator
  removing stale locks at a time, and about the commands that take the lock. `LockReleased` is
  about a core package that can be read (`LockReleased` below); `RestsReady` and `BackToReady`
  about administrators whose own `remove_lock()` does not die between its two steps, after
  which the core package would not be Ready and no lock file be there to say so.
- `ListIsPublished` is about the time after an update that came to its end, and `--upgrade`; an
  index that is read while it is rewritten is one of the two, never a part of it.
  `UpgradeOnlyRaises` says nothing of `--install <name>` (`NameOnlyRaises` below), and is about
  packages whose versions have a path in common: two versions `--upgrade` has marked are then
  refused together (`details/disk.cpp:418`), while two that share none would both be unpacked.
- `DependenciesMet` is about packages of the repository that conflict neither with one
  another nor with the target (`Peaceful`; else both are dropped without a word), a target
  that is configured (`Configured`) and dependencies that accept the later versions of
  what they accept on the target (`Uncapped`): `find_dependencies()` takes the version of the
  target as good although the same tree upgrades it. Each of the three has a violation of
  `AllSatisfied` or `UnpackedIsNoDependency` below.
- `OneVersion` is about command lines that have no package twice (`GivenOnce`), which is only
  refused where a package of the command line depends on it (`dependencies.cpp:1329`), and candidates for upgrades
  that depend on nothing else of the repositories (`SelfReliant`): `trim_dependency()` does not look
  at what such a candidate depends on (`GivenStands` below).
- `SelectedIsBest` and `GivesUpRightly` are about repositories where the candidates of a name
  have the same dependencies (`Alike`), and a target that is empty and holds nothing back (`Fresh`).

### Bounds

- `Package`: two versions that share a file and own one each (fresh install, upgrade,
  downgrade, obsolete file, new file: a third version adds no relation between an old
  and a new one, except to `oldSums`, which may already be one behind).
- `Backup`: three paths of the package, a directory, a foreign file; three archives.
  Two paths are needed for the order of restores, three for a copy made in the first
  loop, in the second, and not at all.
- `DatabaseLock`: three processes (a holder, one that waits, an administrator or a third
  command that takes the lock in between), two updates (`MaxUpdates`): one to lose and
  one that loses it.
- `Repository`: two processes, one repository that is listed twice and one that may be alone
  in the list (so that its number depends on the list), one package in three versions of
  which a repository publishes one or two, and one change of the world (`MaxChanges`): enough
  for a command that works between the list and the installation of another, and for
  an update that numbers anew. The processes are interchangeable; symmetry is sound, as the
  properties are safety only.
- `Dependencies`: at most five packages of three names, up to three versions of one; every
  combination of dependencies, ranges and conflicts over them. Two candidates for two
  names give four trees, chains of length three and cycles through a candidate. The
  target has one package, installed, on hold, unpacked (`Unconfigured`), only wanted in its
  own version (`InstalledOld`), or upgraded by the command line (`Upgraded`), and may be
  in conflict with the command line or be broken by it (`Breaking`). A package may be on the
  command line twice (`Twice`).
- `Installation`: an essential library and a tool that needs it in two versions, a package
  that needs both. One file goes from the library to the tool, one from the tool to that
  package, one is a configuration file: every pair of packages can meet at a path, before
  and after an upgrade. `Edited`: the administrator writes the configuration file and one
  file that a package may want. `Command` has every single file, four pairs and a triple
  of them in orders that must and must not be changed, with the `--force` options. A
  process is only killed between an unpack and a configure: the rest is in `Package`.
- `Removal`: three packages. A chain of two dependencies is the shortest where a
  dependent is found in a second round, a ring the shortest where it is found twice; every
  package may be unpacked or removed already, and each protection is given to one.
- `Journal`: three packages, two of which depend on each other, `Limit` = 3 commands: one
  to install, one to change, one to remove. All packages have version 1 and an upgrade
  makes it 2.
- `Version`: all strings of a digit and up to three of five characters, that stand for the
  classes the comparison tells apart, and strings with `-`, `:` and `+`; numbers stay below
  `MaxInt`, which stands for the largest int. No longer string can show a disagreement
  between parts that these do not, but for three parts and more.
### Fairness

- `Package`, `Backup`: `WF_vars(Step)`, the steps of the running command. The process is
  scheduled and scripts return; nothing is assumed about starting commands, edits, or
  which outcome a step has. A crash ends the obligation.
- `DatabaseLock`: `WF_vars(Step(p))` for each process: the operating system schedules
  each of them. Starting and dying are not fair, and taking the lock is not either: a
  process that finds it taken ends (`Locked`), it does not wait.
- `Dependencies`: `WF_vars(Next)`: one process that runs.
- `Removal`: `WF_vars(Work)`, `Journal`: `WF_vars(Session) /\ WF_vars(Rollback)`: the steps of a
  command and of a rollback that runs. Starting one is not fair, nor is a crash.
- `Installation`, `Repository` and `Version` state no liveness: their loops are over a list
  that is fixed.

`CHECK_DEADLOCK FALSE` stands where the system does stop: a package in a transient
status after a crash (`package_faults`), a dead process (`backup`), a lock whose owner died or
a bound that is reached (`lock_*`, `repository`), a finished search or comparison (`dependencies`,
`versions`), a rollback that is over (`journal`). `package_leftovers`, `installation` and
`removal` check deadlock: some command is always accepted.

## Disagreements with what the code says

One is a run that TLC must find violated, without any fault:

- `purge_takes_others`: a package is removed, its configuration files stay; another
  package, which may be essential, is upgraded to a version that has one of its files.
  `--purge` of the first calls `do_remove()` again, which deletes every path of the package,
  and with it the file of the other.

The others TLC finds as well, with the definition as an `INVARIANT` or `PROPERTY` and the
constants below (the rest as in the passing runs of the module, `Faults` and `Commands`
being the ones given):

| Definition | Module and constants | What the code does, and where |
|---|---|---|
| `InstalledFilesPresent` | `MCPackage`: `Commands = {"install"}`, `Faults = {"space"}` | A disk that fills up while a package is extracted goes unnoticed: the package is Installed with a truncated file. (`src/wpkg/libdebpackages/wpkg_stream.cpp:420`) On POSIX fstream::write() compares the size_t of fwrite() with -1, which it never is, and close() ignores fclose(): a full disk is never reported, write_file() never throws, and the package becomes Installed with a truncated file. wpkg_stream.cpp:396 says "If an error occurs then the streams gets closed instantaneously. The good() function then returns false." |
| `ConffilePresent` | `MCPackage`: `Commands = {"install"}`, `Faults = {"rename"}` | A rename that fails while configuring goes unnoticed: the package is Installed without its configuration file. (`src/wpkg/libdebpackages/wpkg_filename.cpp:3696`) os_rename() returns FALSE when ignore_errors is FALSE and throws when it is TRUE; its documentation (wpkg_filename.cpp:3678 "the \p ignore_errors parameter was not set to true") says the reverse. configure_package() relies on the documented behaviour (wpkgar_install.cpp:3132, 3136, 3203 inside try/catch), so a rename that fails is not counted and the package becomes Installed without its configuration file; a later --deconfigure then deletes the saved ".wpkg-user" copy. |
| `ReconfigureKeepsFiles` | `MCPackage`: `Commands = {"install", "reconfigure"}`, `Faults = {}` | A --reconfigure with no fault at all deletes every data file of the package. (`src/wpkg/libdebpackages/wpkgar_install.cpp:2789`) do_unpack() runs its deletion loop for a --reconfigure too: no data file was extracted, so backup.backup() is TRUE for each and each is unlinked. wpkgar_install.cpp:2549 says "files that existed in the old package but are not present in the new package get removed". |
| `PurgeLeavesNothing` | `MCPackage`: `Commands = {"install", "purge", "deconfigure"}`, `Faults = {}` | A package that was deconfigured, removed and purged leaves its ".wpkg-user" file on the target. (`src/wpkg/libdebpackages/wpkgar_remove.cpp:2028`) A purge deletes the configuration file, ".wpkg-new" and ".wpkg-old" but not the ".wpkg-user" that --deconfigure created, while tools/wpkg.cpp:485 says "--purge to completely remove those packages". |
| `AbortInstallRestoresStatus` | `MCPackage`: `Commands = {"install", "remove"}`, `Faults = {"script"}` | An aborted install of a Config-Files package forgets that it has configuration files. (`src/wpkg/libdebpackages/wpkgar_install.cpp:2274`) A Config-Files package whose new preinst fails ends Not-Installed: packages that are not installed are never added to the list this loop searches (validate_installed_package adds the others only), so conf_install is always NULL. wpkgar_install.cpp:2351 logs "the postrm abort-install script succeeded for package %1; its previous status was restored". |
| `FailedUnpackIsHalfInstalled` | `MCPackage`: `Commands = {"install"}`, `Faults = {"copy"}` | An upgrade that cannot copy its control files leaves the package Upgrading. (`src/wpkg/libdebpackages/wpkgar_install.cpp:2873`) copy_package_in_database() runs after the try block of do_unpack(), so when it throws the status stays Upgrading, which every command refuses; wpkgar_install.cpp:2552 says "If the process fails, then the package stays in an Half-Installed status." |
| `AbortRemoveSeesFiles` | `MCPackage`: `Commands = {"install", "remove"}`, `Faults = {"unlink"}` | The script told that a removal was aborted runs while the files are still missing. (`src/wpkg/libdebpackages/wpkgar_remove.cpp:1632`) do_remove() runs "postinst abort-remove" inside the catch block, before the destructor of the backup brings the deleted files back; wpkgar_install.cpp:2448 says of the same sequence "restore the backed up files (it has to happen before running the scripts)". |
| `UneditedConffileIsCurrent` | `MCPackage`: `Commands = {"install", "remove"}`, `Faults = {"script"}` | An Installed package keeps the unedited configuration file of another version. (`src/wpkg/libdebpackages/wpkgar_install.cpp:3180`) The configuration file is compared with md5sums.wpkg-old, the sums of the last version copied in the database and not of the version that wrote the file: after an aborted install a file nobody edited is taken for an edited one and kept, while wpkgar_install.cpp:3187 promises "replacing configuration file %1 from package %2 because it was never modified". |
| `UnpackFromNotInstalled` | `MCPackage`: `Commands = {"install", "unpack"}`, `Faults = {}` | No version can be unpacked on a target that does not have the package. (`src/wpkg/libdebpackages/wpkgar_install.cpp:258`) validate_package_name() refuses a .deb file to every task but --install, so --unpack cannot bring a package in; wpkgar_install.cpp:820 says "with --unpack we can do nearly everything" and lists "1. from Not Installed to Unpacked". |
| `OnlyOwnFiles` | `MCBackup`: `Package <- Unlinked`, `Faults = {}` | An upgrade that replaces a link by a regular file overwrites the file of another package the link led to. (`src/wpkg/libdebpackages/memfile.cpp:1750`) Where a link of the old version becomes a regular file in the new one, write_file() opens the path without removing the link and overwrites the file the link leads to, whoever has it; installer/details/disk.cpp:478 says "we allow an overwrite only of a file from the same package". |
| `OnlyOwnFiles` | `MCBackup`: `Package <- Retargeted`, `Faults = {"script"}` | A cancelled upgrade that had changed where a link leads overwrites a file of another package. (`src/wpkg/libdebpackages/wpkg_backup.cpp:205`) backup() copied what the old link led to; restore() writes that copy through the new link, which leads elsewhere, and overwrites a file of another package. wpkg_backup.cpp:61 says "if an error occurs while updating, the backup can restore the state from before the update started". |
| `RestoresState` | `MCBackup`: `Package <- Linked`, `Faults = {"script"}` | A cancelled removal leaves regular files where there were links. (`src/wpkg/libdebpackages/wpkg_backup.cpp:205`) backup() and restore() follow symbolic links: after a cancelled removal the link is a regular file. wpkg_backup.cpp:61 says "the backup can restore the state from before the update started". |
| `ObsoleteGone` | `MCBackup`: `Package <- Dropped`, `Faults = {}` | After an upgrade the links the new version does not have are still there. (`src/wpkg/libdebpackages/wpkgar_install.cpp:2815`) The loop that deletes what disappeared only looks at regular files, so a link of the old version stays for ever; wpkgar_install.cpp:2549 says "files that existed in the old package but are not present in the new package get removed". |
| `RemovalCompletes` | `MCBackup`: `Package <- ToFolder`, `Faults = {}` | The removal of a package that has a link to a directory always fails. (`src/wpkg/libdebpackages/wpkg_backup.cpp:135`) A package that ships a link to a directory can be installed but never removed: exists() and is_dir() follow the link and backup() throws. wpkg_backup.cpp:98 says "if the file cannot be backed up, because of an I/O error or because of permissions or similar error, then the backup function returns false". |
| `NothingLost` | `MCBackup`: `Package <- Plain`, `Faults = {"script", "restore"}` | When a file cannot be restored, the copy the log names is deleted all the same. (`src/wpkg/libdebpackages/wpkg_backup.cpp:233`) restore() logs "file %1 could not be restored (backup is here: %2.)" (wpkg_backup.cpp:213) and then, in its second loop, deletes that very backup, the last copy of the file. |
| `AllSatisfied` | `MCDependencies`: `World <- Conflicting` | Two dependencies that conflict are both dropped, and the package that needs them is installed without them. (`src/wpkg/libdebpackages/installer/dependencies.cpp:588`) find_dependencies() invalidates both sides of a conflict between implicit packages, the candidate it has just selected and one that another package was already found to depend on, and goes on; verify_tree() reports nothing missing and the tree is installed without either, although dependencies.cpp:1925 says "verifying means checking that all dependencies are satisfied". |
| `NeverInternal` | `MCDependencies`: `World <- Worlds` | The search ends in an internal error. (`src/wpkg/libdebpackages/installer/dependencies.cpp:1704`) check_implicit_for_upgrade() ends in its internal error where the package of the target is no longer "installed" in the tree, or has the version of the candidate; dependencies.cpp:1703 says "this is an internal error and the code needs to be fixed if it ever happens". |
| `BestSelected` | `MCDependencies`: `World <- Repository` | A better set of packages could be installed than the one selected. (`src/wpkg/libdebpackages/installer/dependencies.cpp:1074`) A candidate that does not suit one of its possible users is invalid for all, even where that user is not chosen in the end: dependencies.cpp:2241 says it "creates all the possible dependency trees it can in order to select the best one for installation", and dependencies.cpp:1031 warns "only trimming what is for sure invalid/incompatible". |
| `OnlySureTrimmed` | `MCDependencies`: `World <- Repository` | The installer gives up although a set of packages could be installed. (`src/wpkg/libdebpackages/installer/dependencies.cpp:1074`) With e needing any a, the first version of a needing the first b and the second a the second b, the trimming for one a leaves the other without candidate: "no explicit or implicit package satisfy dependency", though either pair could be installed. |
| `NoConflict` | `MCDependencies`: `World <- Conflicting` | A package gets installed along one it conflicts with. (`src/wpkg/libdebpackages/installer/dependencies.cpp:768`) trim_conflicts() looks at the conflicts of the packages it enters, and not at those of packages already selected against what becomes implicit later; wpkg_control_fields.cpp:830 says "The Conflicts field is the list of packages that cannot be installed along this package". |
| `UnpackedIsNoDependency` | `MCDependencies`: `World <- Unconfigured` | A package is selected for installation on the strength of one that is not configured. (`src/wpkg/libdebpackages/installer/dependencies.cpp:1866`) A dependency that only an unpacked package meets is neither missing nor an error in find_dependencies(); dependencies.cpp:940 says "if selected later, it will fail". |
| `GivenStands` | `MCDependencies`: `World <- Upgraded` | A package is installed twice, in the version of the command line and in another one. (`src/wpkg/libdebpackages/installer/dependencies.cpp:1024`) trim_dependency() stops at the package of the target when that has the wrong version, and looks neither at the candidates after it nor at what they depend on; find_dependencies() then takes a candidate whose own dependency no explicit package was compared with, and with it another version of a package of the command line, of which dependencies.cpp:903 says "they cannot "legally" get used!". |
| `AllSatisfied` | `MCDependencies`: `World <- InstalledOld` | A dependency is met by the very version that gets replaced. (`src/wpkg/libdebpackages/installer/dependencies.cpp:1818`) find_dependencies() accepts the version of the target although the same tree upgrades it for another package, before or afterwards, to a version the dependency does not accept; dependencies.cpp:1925 says "verifying means checking that all dependencies are satisfied". |
| `ConffilesKept` | `MCInstallation`: `Info <- SharedConf`, `Command <- OfTwo` | Two packages can share a configuration file, and purging one deletes it for the other. (`src/wpkg/libdebpackages/installer/details/disk.cpp:525`) A file that exists may be overwritten when it is a configuration file of the new package, whichever package it comes from: --purge of one of the two then deletes the configuration file of the other, where disk.cpp:479 says "allow an overwrite only of a file from the same package". |
| `EssentialIsOther` | `MCInstallation`: `Info <- EssentialConf`, `Command <- OfTwo` | An essential package is refused because its own configuration file is still there. (`src/wpkg/libdebpackages/installer/package_list.cpp:191`) The list of essential files leaves out the package that asks first, and is then kept for the others: an essential package is refused because of its own configuration file. package_list.cpp:198 says of the package left out that "this is the package we're working on and obviously filename will exist in this package" (:198-199). |
| `ConfiguredAndUpgraded` | `MCInstallation`: `Info <- Separate`, `Command <- Forced` | --install --force-configure-any of a new version of an unpacked package configures the old one and ends without an error. (`src/wpkg/libdebpackages/wpkgar_install.cpp:866`) With --force-configure-any the package of the command line becomes one to configure and is never unpacked, after the message "package %1 is unpacked, it will be configured before getting upgraded." (wpkgar_install.cpp:860) |
| `DependenciesConfigured` | `MCInstallation`: `Info <- Separate`, `Command <- Forced` | --install --force-configure-any leaves a package that is needed unpacked. (`src/wpkg/libdebpackages/installer/dependencies.cpp:1869`) With --force-configure-any an unpacked dependency is marked in a list that the list of the best tree replaces: it is never configured, where the help of the option says "force the configuration of packages that are dependencies not yet configured" (src/wpkg/tools/wpkg.cpp:1229) |
| `NotInstalledHasNoFiles` | `MCRemoval`: `Command <- Deconfigures`, `Faults = {}` | --deconfigure --recursive marks an unpacked package Not-Installed and leaves its files. (`src/wpkg/libdebpackages/wpkgar_remove.cpp:1982`) deconfigure_package() marks every package that was not installed Not-Installed, although with --deconfigure nothing removed its files: an unpacked package that --recursive adds is lost to the database while its files stay. wpkgar_remove.cpp:1984 says "the difference between deconfigure and purge is that in case of the purge the package files were already removed". |
| `SelfStays` | `MCRemoval`: `Command <- Removes`, `Faults = {}` | --remove --recursive of a package wpkg depends on removes wpkg. (`src/wpkg/libdebpackages/wpkgar_remove.cpp:606`) include_self() is called for the packages of the command line only, so --recursive removes the wpkg package as a dependent of another although tools/wpkg.cpp:6414 says "you cannot remove wpkg, even if it is not marked as required". |
| `TreeAlwaysKept` | `MCRemoval`: `Command <- Removes`, `Faults = {"script"}` | A --remove --recursive stopped half-way leaves a package without what it needs. (`src/wpkg/libdebpackages/wpkgar_remove.cpp:1703`) remove() takes the packages of the command line before those that depend on them, so when the prerm script of a dependent fails, the packages it needs are gone while it stays installed; wpkgar_remove.cpp:1258 says of validate(): "This function runs all the validations to ensure that the resulting removals keep the system consistent." |
| `FailureReported` | `MCRemoval`: `Command <- Removes`, `Faults = {"script"}` | A removal canceled by a prerm script ends without an error. (`src/wpkg/libdebpackages/wpkgar_remove.cpp:1455`) A prerm script that fails is logged as a warning, remove() returns WPKGAR_ERROR and remove() of the tool just stops (tools/wpkg.cpp:6427): wpkg exits with 0 although the removal is canceled, where wpkgar_remove.cpp:1692 says of WPKGAR_ERROR "when an error occured and the whole process should stop" (:1692-1693). |
| `RepairAccepted` | `MCRemoval`: `Command <- Removes`, `Faults = {"crash"}` | A package wpkg died on cannot be removed. (`src/wpkg/libdebpackages/wpkgar_remove.cpp:392`) validate_explicit_packages() refuses a package whose status is Installing, Upgrading or Removing even on the command line, where wpkgar_remove.cpp:1273 says of a package in an invalid state that "the process fails except when the package was also specified on the command line (explicit) since removing it is likely to fix the state as a whole". |
| `BuildUndone` | `MCJournal`: `Source = {p1, p2, p3}`, `Start <- New`, `Command <- Builds`, `Faults = {}` | What --build installed stays installed. (`src/wpkg/libdebpackages/wpkgar.cpp:1191`) The rollback at the end of a build runs in the process that installed the packages, whose manager lists the installed packages once and for all (wpkgar.cpp:1191): a package that was not there at first is "not installed" for deconfigure and purge, that error makes every later line fail too, and nothing is undone. wpkgar_build.cpp:2589 says "make sure we track all the changes because at the end we want to restore the system the way it was" (:2589-2590), and wpkgar.cpp:1184 of the list "Note that the results are not cached." The same happens after any error of the build, for the error count is never reset (wpkg_output.cpp:1799). |
| `FailedLineUndone` | `MCJournal`: `Source = {p1, p2, p3}`, `Start <- OnlyUnpacked`, `Command <- Installs`, `Faults = {"script"}` | A journal with a "failed" line is not run at all. (`src/wpkg/libdebpackages/wpkgar_tracker.cpp:641`) pre_configure() writes "failed" without a space (wpkgar_install.cpp:2937), which rollback() takes for a command without parameters and gives up before it reaches the test for "failed", of which wpkgar_tracker.cpp:656 says "special command that marks a failure point; we expect that the process stopped at that point" and that only ends the list. |
| `CrashUndone` | `MCJournal`: `Source = {p1, p2, p3}`, `Start <- All`, `Command <- Installs`, `Faults = {"crash"}` | The rollback of a session wpkg died in restores nothing. (`src/wpkg/libdebpackages/wpkgar_tracker.cpp:728`) A process killed in the middle of an unpack leaves the package Upgrading, and the validation of every line of the rollback refuses to work with such a package. wpkgar_tracker.cpp:57 says "a lot safer as it will be able to revert the work even if a crash occurs" (:57-58). |
| `WriteAheadAlways` | `MCJournal`: `Source = {p1, p2, p3}`, `Start <- OnlyUnpacked`, `Command <- Configures`, `Faults = {}` | --configure changes a package before its journal line is written. (`src/wpkg/libdebpackages/wpkgar_install.cpp:3116`) configure_package() marks the package Half-Configured before it writes the line that undoes it. wpkgar_tracker.cpp:206 says the file is reopened each time "to make sure that the information gets saved BEFORE we apply the (opposite) action" (:206-207). |
| `UpgradeUndone` | `MCJournal`: `Source = {p1, p2, p3}`, `Start <- All`, `Command <- Installs`, `Faults = {}` | An upgrade that went well is not rolled back. (`src/wpkg/libdebpackages/wpkgar_tracker.cpp:471`) The lines of an upgrade are "downgrade" and "deconfigure": the deconfigure, run first, leaves the package unpacked, and the downgrade is an --install, which refuses a package that is unpacked (wpkgar_install.cpp:872). wpkgar_tracker.cpp:26 says "it may be of interest to the administrator to be able to restore the entire system to the way it was before starting the upgrade. The tracker allows for such process" (:26-28). |
| `RemovalUndone` | `MCJournal`: `Source = {p1, p2, p3}`, `Start <- All`, `Command <- Removes`, `Faults = {}` | A package that was removed comes back unpacked. (`src/wpkg/libdebpackages/wpkgar_remove.cpp:1724`) remove() asks is_configured() whether to write "install" or "unpack", but nothing calls mark_configured() (wpkgar_remove.cpp:187): a package that was installed comes back unpacked, without an error, where the comment says "if the package was configured we need an install, otherwise unpack" (wpkgar_remove.cpp:1722-1723). |
| `Transitive` | `MCVersion`: `Input <- Dotted`, `MaxInt = 4095` | "1" is "1.0" and "1.0" is later than "1a" but "1" is earlier than "1a". (`src/wpkg/libdebpackages/debian_version.cpp:346`) The parts of a longer version are only compared with zero; the file says it "includes all the features to the letter because we assume that fully supporting the version is of major importance" (src/wpkg/libdebpackages/debian_version.cpp:25) |
| `TildeAlwaysFirst` | `MCVersion`: `Input <- Tildes`, `MaxInt = 4095` | "1~" is later than "1": after a number the "~" is an additional part, and a part that is not zero makes a version later. (`src/wpkg/libdebpackages/debian_version.cpp:346`) The "~" is compared with the end of a string only inside one part, although "one or the other or both are '\0' which needs to be compared properly against '~'" (src/wpkg/libdebpackages/debian_version.cpp:150); the file says it "includes all the features to the letter because we assume that fully supporting the version is of major importance" (src/wpkg/libdebpackages/debian_version.cpp:25) |
| `CanonicalAlwaysSame` | `MCVersion`: `Input <- Dashed`, `MaxInt = 4095` | The canonical string of "1-2-0" is "1-2", where 2 has become the revision. (`src/wpkg/libdebpackages/debian_version.cpp:380`) The revision 0 is left out even when the version itself holds a "-"; the note of debian_version_to_string() says "This function is a good way to canonicalize a Debian version" (src/wpkg/libdebpackages/debian_version.cpp:601) |
| `NumbersOrdered` | `MCVersion`: `Input <- Long`, `MaxInt = 127` | A number that does not fit in an int wraps around (127 stands for the largest int), so that a later version is earlier. (`src/wpkg/libdebpackages/debian_version.cpp:301`) The epoch is tested for an overflow and the numbers of the version are not; the file says it "includes all the features to the letter because we assume that fully supporting the version is of major importance" (src/wpkg/libdebpackages/debian_version.cpp:25) |
| `OneWorker` | `DatabaseLock`: `Commands = {"file", "unlock"}`, `ManyRemovers = TRUE`, `Faults = {"crash"}` | Two processes that remove the same stale lock let two commands in. (`src/wpkg/libdebpackages/wpkgar.cpp:550`) remove_lock() tests that the lock file exists and then unlinks whatever has that name: of two administrators who remove a stale lock, the second may unlink the lock a new command has just taken, and another command starts beside it; wpkgar.cpp:194 says "if you attempt to run two tools that attempt to use the database simultaneously, the second one will generate this error". |
| `NoLostUpdate` | `DatabaseLock`: `Commands = {"file", "name"}`, `Faults = {}` | An --install <name> that waited for another command undoes what it wrote. (`src/wpkg/libdebpackages/wpkgar_repository.cpp:1127`) For a package name init_installer() loads the installed packages before the lock is taken (tools/wpkg.cpp:3221), load_package() never reads them again and set_field() writes the whole record back: what another command wrote in between is undone although wpkgar.cpp:194 says "if you attempt to run two tools that attempt to use the database simultaneously, the second one will generate this error". |
| `NoLostUpdate` | `DatabaseLock`: `Commands = {"file", "select"}`, `Faults = {}` | A --set-selection undoes what a command at work has written. (`src/wpkg/tools/wpkg.cpp:6709`) set_selection() loads a package and writes its whole wpkg-status back without taking the lock: the X-Status an --install wrote in between is undone although wpkgar.cpp:194 says "if you attempt to run two tools that attempt to use the database simultaneously, the second one will generate this error". |
| `RefusedForCause` | `DatabaseLock`: `Commands = {"name"}`, `Faults = {}` | An --install <name> is refused as not Ready although the core package is. (`src/wpkg/libdebpackages/wpkgar.cpp:456`) lock() calls load_package("core") once it has the lock, but upgrade_list() may have loaded core earlier, while another command worked, and it is not read again: wpkgar.cpp:458 asks "is the packager environment \"ready\"?" and the command is refused when it is. |
| `LockReleased` | `DatabaseLock`: `Commands = {"file"}`, `Faults = {"core"}` | When the core package cannot be read, the lock file stays. (`src/wpkg/libdebpackages/wpkgar.cpp:456`) An exception of load_package("core") or set_field() leaves lock() after the file was created and before the wpkgar_lock object exists, so nothing removes it; wpkgar.cpp:242 says "we created this class which when destroyed also ensures that the lock is removed". |
| `ListIsOfItsRepository` | `MCRepository`: `Text <- AsNumbers`, `Offer <- Offers`, `Commands = {"update", "upgrade"}`, `Faults = {"kill"}` | After an --update that was killed, --upgrade takes the index of one repository for that of another. (`src/wpkg/libdebpackages/wpkgar_repository.cpp:946`) update() deletes and numbers the indexes anew but writes update.index at its end only: killed before, with another sources.list than the last time, it leaves a list whose numbers are those of other repositories, and the packages of one are looked for at the URI of another, where wpkgar_repository.cpp:935 says "The process maintains a file with information about each one of the index. This is important since all the indexes have the exact same filename in each repository." |
| `NameOnlyRaises` | `MCRepository`: `Text <- AsNumbers`, `Offer <- Offers`, `Commands = {"update", "name"}`, `Faults = {}` | An --install <name> that waited for another command lowers the version. (`src/wpkg/libdebpackages/wpkgar_install.cpp:888`) The version that is compared is the one init_installer() has read before the lock was taken: when another command has upgraded the package since, --install <name> puts the older version back without the error "package %1 cannot be downgraded." (wpkgar_install.cpp:1000) |
| `NameTakesGreatest` | `MCRepository`: `Text <- Backwards`, `Offer <- Offers`, `Commands = {"update", "name"}`, `Faults = {}` | --install <name> takes a version that is not the greatest. (`src/wpkg/libdebpackages/installer/package_list.cpp:162`) The versions of a package are the keys of a std::map of strings: "9" comes after "10", although package_list.cpp:160 says "Select the greatest version". |
| `UpgradeAccepted` | `MCRepository`: `Text <- AsNumbers`, `Offer <- Three`, `Commands = {"update", "upgrade"}`, `Faults = {}` | --upgrade refuses the list it has made itself. (`src/wpkg/tools/wpkg.cpp:3642`) upgrade() marks every package of the list that is newer than the one installed, so two newer versions in the indexes clash with each other on their own command line and nothing is upgraded, where wpkgar_repository.cpp:1094 promises "a list of packages that should be upgraded" (wpkgar_repository.cpp:1092) |
| `SuccessRemembered` | `MCRepository`: `Text <- AsNumbers`, `Offer <- Offers`, `Commands = {"update"}`, `Faults = {"network"}` | An --update forgets that a repository has answered before. (`src/wpkg/libdebpackages/wpkgar_repository.cpp:939`) update() never calls load_index_list(), so every --update starts with an empty list: the times of the first try and of the first and last success are always of the last update, and a repository that does not answer once is said to have "Never Succeeded." (src/wpkg/tools/wpkg.cpp:3506) |

## Proofs

All are for every value of the constants that satisfies the named assumptions.

- `Package_proofs!TypeCorrect`: `Spec => []TypeOK`, with no further assumption. Types are
  not inductive alone: a loop visits `Data[db]`, so one has to know that the database
  describes a version as soon as the package has a status, and that a target is set
  while unpacking. `TypeInv` adds these facts.
- `Package_proofs!InstalledIsTrue`: `InstalledFilesPresent`, assuming neither `--reconfigure`
  among the commands nor `space` among the faults; both assumptions are needed (see
  above). The property only speaks of two statuses, and the steps that set them come long
  after those that make it true, so `IInv` carries the files through: `OldFiles`, that
  until an upgrade deletes them the old files are on the disk or in the backup;
  `NewFiles`, that what was extracted stays and is known to the backup, which is why
  the deletion loop spares it; `StatusHonest`, that no such status is up while files come
  and go; `DatabaseVersion`, whose control files the database holds at each place;
  `KeptFiles`, that a removal or deconfiguration that may still give the status back
  has not touched the files; `BackupScope`, that the backup is empty outside its loops.
- `Package_proofs!CancelIsTotal`: `CancelSeesOldFiles`, from the same invariant and
  assumptions.
- `Package_proofs!CommandsRest`: `RestsRepairable`, assuming `"copy" \notin Faults`. `StatusAt` says which
  statuses are possible at each place of each command, `orig` among them, so that every
  early return can be seen to come after the status was set back.
- `Package_proofs!ConffileIsThere` and `EditsSurvive`: `ConffilePresent` and `EditSurvives`, assuming
  `"rename" \notin Faults`. `ConfInv` follows the file and its copies through the commands: an unpacked
  package has something to make its configuration file of (`FreshThere`), an installed one
  keeps the file until a command moves it (`MainThere`), and the copy `--deconfigure` keeps is
  never beside the file (`OneCopy`), or configuring would write over one of the two.
- `Package_proofs!NoFileIsStray` and `PurgesErase`: `NoStrayFile` and `PurgeErases`, assuming neither
  `"crash"` nor `"unlink"` among the faults. `StrayInv` says at each place which files
  there may be, and which the backup would leave there (`Unpacking`).
- `Backup_proofs!OthersUntouched`, `Lossless` and `Implements`: `OnlyOwnFiles`, `NothingLost` (assuming
  `"restore" \notin Faults`) and the refinement `AllOrNothing`, for any number of paths and any
  versions that satisfy `SoundLinks`: the links of an archive lead to files of other
  packages, and a path is the same link in every version that has it. Without it
  other files change (`Unlinked` and `Retargeted` above). `BackupInv` says why it is enough: a copy is
  what was read at its path before the transaction, no two paths have the same copy
  (`CopiesTrue`), and a path without a copy is as it was (`Unsaved`). The files the links lead to
  never change (`ForeignKept`), so that what the copies of two paths say cannot depend on
  the order they are written back. For the refinement, `Back` says that a path restored
  already reads as before, and `Progress` which paths of the new version are there and
  which old ones are gone at each place of the loops.
- `DatabaseLock_proofs!OneWorkerAtATime`: `OneWorker` for any number of processes, with
  `ManyRemovers = FALSE`. `LockInv` says that the lock file of whoever is past `lock()` is
  its own, and that the lock is stale whenever somebody is about to unlink it by
  `--remove-database-lock`; it stays stale, since only that one remover can change it.

- `DatabaseLock_proofs!LockIsReleased`, `CoreRestsReady` and `UpdatesAreKept`: `LockReleased` (assuming
  `"core" \notin Faults`), `RestsReady` (assuming `"remover" \notin Faults`) and `NoLostUpdate`
  (assuming neither `"name"` nor `"select"` among the commands), all with `ManyRemovers = FALSE`. Each rests on `LockInv`;
  the second on `CoreInv`, that a core package which is not Ready has somebody with the lock
  or somebody who removes it; the third on `Current`, that what a manager holds is what
  the database holds.
- `Repository_proofs!TypeCorrect`: `Spec => []TypeOK`.
- `Repository_proofs!IndexesArePublished`: `ListIsPublished`, for any number of repositories, packages,
  processes and faults. What makes it true is spread over two files and one memory: `Fits`
  relates a list, the files and what was read, for the list in memory during an update
  (`UpdateOf`) and for the one on the disk after it (`ListInv`); `Numbered`, that the numbers of a list
  are 1 to n and differ, is what keeps the file of one entry from being overwritten by
  another's (`EntryAdded`, `IndexStored`). `ReadOf` says what of it `--upgrade` has read.
- `Repository_proofs!UpgradesOnlyRaise`: `UpgradeOnlyRaises`. `UpgradeOf` says that what is still to be
  unpacked would not lower a version, and is of different packages, so that unpacking one leaves
  it true of the others. `OthersKept` says once for all steps that a process is disturbed by
  another only in what it reads without the lock.
- `Removal_proofs!TypeCorrect`: `Spec => []TypeOK`.
- `Removal_proofs!ProtectedNeverTouched`: `ProtectedStays`, for any packages, dependencies, commands
  and faults. The types are decided in two places, long before a package is taken:
  `Vetted` says that a package marked "removing" or "implicit" passed
  `can_package_be_removed()` as an explicit or as any other package, and that nothing is
  taken but what is marked so and only once there was no error.
- `Removal_proofs!TreeIsKept`: `TreeKept`, when the databases to start from are whole and
  `--deconfigure` is not among the commands. `Plan` says that what depends on a marked
  package is marked or still in `work` (`Followed`), or an error; `WholeAfter` that the
  target without the packages not taken yet is whole: the invariant that holds while
  packages disappear, when `Whole(status)` itself does not.
- `Removal_proofs!PlanIsTheClosure`: `PlanIsClosure`, with no further assumption. The rounds of
  `validate_dependencies()` are a work list over a graph that may have cycles: `Sound` says that
  what is marked is in every closed set that holds what was asked for, `Complete` that
  whatever depends on a marked package is marked, unless that one still waits in `work`.
- `Removal_proofs!AutoremoveIsExact`: `AutoremoveExact`, with no further assumption. The rounds go
  by a list of statuses the command keeps for itself: `Believed` says how far it may be from
  the target, `Alone` that nobody needs the one that is being removed.
- `Installation_proofs!TypeCorrect`: `Spec => []TypeOK`.
- `Installation_proofs!FilesStayOwn` and `EditsAreKept`: `OwnFiles` and `AdminKept`, assuming `OneRole`: no path
  is a configuration file of one `.deb` and a regular file of another, since the test for
  overwritten files exempts the former and would let one have the file of the other.
  Packages are checked one by one, and unpacked later, in another order. `Compared` carries what was
  checked to the unpack: nobody has a file of a `.deb` that was checked and not unpacked
  yet (`Untaken`, `Unedited`), which the unpacks of the others leave true because they were
  checked against each other.
- `Installation_proofs!EssentialFilesAreKept`: `EssentialKept`, assuming `NoEssentialConf`: essential packages have no
  configuration files, whose owner this check does not know. `EssentialCompared` says that the
  list `find_essential_file()` makes once is still true when the last package is checked.
- `Installation_proofs!DependenciesAreFirst`: `DependenciesFirst`, assuming `Acyclic`: the packages of a command
  line have levels, lower for what a package needs (in a circle `sort_package_dependencies()`
  would call itself without end). `NextListedReady` shows that the walk down the
  dependencies ends at a package that needs nothing unlisted, since it has more steps than there are
  levels, so that the list is `InOrder`; `InTurn` keeps that true while the list is unpacked
  from its head: what a waiting package needs is before it or `Done`, and an unpack cannot
  replace what is done because no package is named twice.
- `Dependencies_proofs!TypeCorrect`: `Spec => []TypeOK`; `Lists` says which types a package may have come to.
- `Dependencies_proofs!NoneForced`: `NoForcedUpgrade`, for any package lists. `Raised`, that an implicit package
  has an older one that is not on hold under it or none, holds of the list, of the tree at
  work and of the best one.
- `Dependencies_proofs!OneOfEachName`: `OneVersion`. The trimming is a search in depth over a
  graph whose nodes disappear while it goes on. `Trimming` says of the packages looked at so
  far which of their dependencies are settled, or wait on the stack; when the search ends it
  has left a set with all the candidates its packages depend on, one for each dependency
  unless there is a choice (`Covered`). The generator makes a list with one candidate of a
  name of it (`Sparse`), so that no verified tree installs two (`Singles`).
- `Dependencies_proofs!AllMet`: `DependenciesMet`, cycles included. `Serving` says that what was
  looked at has each of its dependencies, or a frame of `find_dependencies()` that has not
  come to it, and `Supplied` that
  a whole tree then has all of them. A package on the stack counts as there already, which
  is what makes cycles come out right. `Replacing` says that what an upgrade takes away is
  replaced by a later version, `Calm` that no candidate the trimming left conflicts with a
  package of the command line.
- `Dependencies_proofs!GivesUpForAReason`: `GivesUpRightly`, conflicts included. The proof follows
  a set that could be installed (`Possible`) through the search. `Kept` and `InTrim` say that no
  candidate of it is trimmed, because whoever asks for its name asks for what it is.
  The generator counts in a mixed radix, and `SomeTree` shows that its count comes to every choice of one
  candidate for each name: the digits of a number (`Digits`) are any digits, by a least
  counterexample over the recursive function `Factors`. So some number is the tree
  with the candidates of the set (`HitSome`). `Follows` says that this tree is verified, and takes
  packages of the set only; `Found` that from then on there is a best tree.
- `Dependencies_proofs!BestIsSelected`: `SelectedIsBest`, where the packages of the repositories do not
  conflict (`Peaceful`). A verified tree takes only what every closed set has something
  of the same name for (`Near`), and has all it depends on (`Supplied`), so that
  two verified trees have the same names, and comparing them means something. `Lead` then says
  that the best tree is nowhere older than the set once the number of its tree has passed:
  neither a better tree nor one that is similar and ends the search can fall below it.
- `Repository_proofs!OrderIsAntisymmetric` and `AnswersAreAntisymmetric`: `compare()` of two versions of any
  number of parts of any length is the opposite of `compare()` of the exchanged versions.
  It is proved without induction: both directions find the same first difference.
- `Repository_proofs!VersionsAreParsed`, `AnswersAreAntisymmetric`, `OrderIsDebians` and
  `CanonicalStringIsSame`: `VersionTypeOK`, `Antisymmetric`, `DebianOrder` and `CanonicalSame`, for
  versions of any length, assuming `NumbersFit`: no number of a version comes out negative, which
  `string_to_parts()` does not test and which is the only way to lists `compare()` cannot take.
  `MCVersion` assumes the same of its inputs, so that TLC evaluates it. That the functions over
  the beginnings of a string are defined everywhere is `Recursion`; from there on `PartsAppend`
  says what one more character does to the parts, and `StringByString`, `UpTo` and `Descent`
  carry it from each string or number to the next, as least counterexamples. `Shaped` is what all
  parts look like: `VersionsAreParsed`. `Tilded` is what a string has that goes on
  with a `~`: the same parts, and in place of the last text one with the `~` at its end. `Dots` is
  what the parts of a release are, so that the first difference is that of the first
  differing number, and what is missing is no longer than a zero. `NumberRead` and
  `TextRead` say that what `parts_to_string()` adds to a string is read as one more part, so that the
  canonical string has the parts it was written from (`WrittenRead`), all but the zeroes that
  `compare_parts()` skips (`TrimmedSame`), and breaks at the same epoch and revision.

- `Journal_proofs!TypeCorrect`: `Spec => []TypeOK`. `Place` says what is known of the package in
  hand and of the last line of the journal at each place of a command.
- `Journal_proofs!JournalIsAhead`: `WriteAhead`, with no further assumption. `Kinds` sorts the
  steps once for all by what they do to the journal and to the package: most of them do not need
  to be told apart afterwards.
- `Journal_proofs!RollbackRestoresOrReports`: `RestoredUnlessReported`, with no further assumption, crashes and
  failed steps included. What the journal means is what its lines would make of the target,
  one after the other: the invariant `ChainInv` says that there is a list of statuses, one for each
  line, such that the status a line was written at is one that its command gives back,
  and that what the last line of a package finds is that status or what may `Follow` it.
  A line whose change was never made, because wpkg died first, finds its own status. So running
  the last line of any package (`ChainRunLine`) leaves what the line before it would find,
  and with no line left a package is at its `Origin`. `Settled` says that no package is left
  half way without a line.
- `Journal_proofs!PlainSessionsAreUndone` and `RollbackIsRight`: `PlainUndone` and `RollbackRestores`, assuming that
  every target in `Start` has what its packages need (`MetAt`). The assumption is needed: where a
  package is there without its dependency, to install that one is a plain session, and the
  `--purge` that undoes it is refused, for the other package depends on it.
  The invariant is a `Film`: the pictures of the target before each line, each the one before it
  with one package changed, in such a way (`Shot`) that the validation of the undo
  command passes on the later one (`LastShot`): nobody there needs what is to be purged or
  deconfigured (`Free`), and what was touched is not gone.

The proofs follow the next-state relation: one lemma per group of actions, one step per
action and, where it disturbs several conjuncts, one per conjunct.

What the recursive functions and the folds of a model compute is proved without induction over data,
for which the provers have no theorem they can use: that a function is defined everywhere, and what all
its steps keep, follows from a least counterexample (`WellFoundedInduction`).

Only model-checked:

- All liveness (`CommandEnds`, `TransactionEnds`, `BackToReady`, `Decided`, `RemovalEnds`, `RollbackEnds`) and
  whatever involves ENABLED, which TLAPS cannot reach.
- `SelectedIsBest` with packages that conflict: both sides of a conflict drop out of the tree at work, which
  still counts as verified, so that verified trees need not have the same names. The
  comparison is then not transitive, and what the proof rests on is false; TLC finds the property
  true of the repositories it is given.

## Not modelled

Most of the repository has no state that a model could follow. Of its 157,000 lines, some
40,000 are vendored libraries and their samples (zlib, bzip2, libtld with its table of
domains, libutf8, controlled_vars, catch); the tests of wpkg itself are used as
documentation only. The longest files of wpkg are formats and text: the archives
(`memfile.cpp`, `wpkgar_block.cpp`: ar, tar, gzip, bzip2, zip, wpkgar), control files and
their fields (`wpkg_control*.cpp`, `wpkg_field.cpp`), path names (`wpkg_filename.cpp`), expressions
(`src/wpkg/libexpr`), options, help and listings (`src/wpkg/tools`, `advgetopt.cpp`), the text of
every message. They are sequential functions from text to text, which tests over examples
suit better; the models take what they deliver (a list of dependencies, the paths of an
archive, a version) as data. `wpkgar_build.cpp` is a generator of archives: a long validation
of a tree of files, then formatting; only the installation of what a build needs and its
rollback are modelled.

Of the modelled parts: directories, disk sizes and triggers; the checks of architecture,
distribution and user expressions (errors like any other); Pre-Depends and
Replaces in `Dependencies`; dependencies in a circle in `sort_packages()`; a torn write of
`wpkg-status`: statuses are written atomically in the models, which the code does not
guarantee, and so are an index and `update.index`. A write of `wpkg-status` that fails is not
modelled either: `SetUnpacked` and `FinishRemove` take the final status and the fields that
follow it (`X-Unpack-Date`, `X-Removed-Date`) for one step. The code would leave by an exception
between the two with the backup still alive, which would bring the old files back
under the new status (`wpkgar_install.cpp:2876`, `wpkgar_remove.cpp:1641`). `--force-reinstall`,
`--upgrade-urgent`, `--create-index`, the network and the threads of `pkg-explorer` are
left out too.

## Plan

Done: all the modules above. Left, in this order:

1. The worker threads of `pkg-explorer` over one manager.
2. Proofs: the order of any two versions as Debian gives it, not of releases and `~` alone, for
   those versions where `compare()` agrees with it.

----------------------------- MODULE Dependencies -----------------------------
(***************************************************************************)
(* How wpkg --install decides which packages of the repositories it        *)
(* installs beside those of the command line: validate_dependencies() of   *)
(* wpkgar::installer::dependencies, with the trimming of the candidates,   *)
(* the enumeration of the trees, their verification and the choice of one. *)
(*                                                                         *)
(* The functions that call themselves (trim_available, find_dependencies)  *)
(* have their frames on "stack", one step per dependency.  A dependency is *)
(* the name of a package and the versions its operator accepts; no --force *)
(* option is used.                                                         *)
(***************************************************************************)
EXTENDS Naturals, Sequences, FiniteSets, FiniteSetsExt

CONSTANT World     \* the package lists the program may start from

(* A package list: the packages of the command line, those of the target,  *)
(* those of the repositories, in that order.  The target has a package     *)
(* once; what the command line has too is an "upgrade" there, to a version *)
(* at least as recent (validate_installed_package).                        *)
StartTypes == {"explicit", "installed", "upgrade", "unpacked", "available"}
OnTarget   == {"installed", "upgrade", "unpacked"}
Types      == StartTypes \cup {"implicit", "invalid"}

ASSUME WorldAssumption ==
    \A w \in World : Len(w) \in Nat /\ DOMAIN w = 1..Len(w) /\ \A i \in DOMAIN w :
        /\ w[i].version \in Nat
        /\ w[i].type \in StartTypes
        /\ w[i].held \in BOOLEAN
        /\ Len(w[i].depends) \in Nat /\ DOMAIN w[i].depends = 1..Len(w[i].depends)
        /\ \A j \in 1..(i - 1) : w[i].type # "available" => w[j].type # "available"
        /\ w[i].type \in OnTarget => \A j \in DOMAIN w \ {i} :
               w[j].name = w[i].name => w[j].type \in IF w[i].type = "upgrade"
                                                       THEN {"explicit", "available"}
                                                       ELSE {"available"}
        /\ w[i].type = "upgrade" => \E j \in DOMAIN w :
               w[j].name = w[i].name /\ w[j].type = "explicit" /\ w[i].version <= w[j].version

Results == {"none", "selected", "overlap", "incompatible", "conflict", "circular",
            "unsatisfied", "missing", "similar", "internal"}

VARIABLES
    packages,       \* the control fields of the packages
    type,           \* their types in f_package_list
    selfContained,  \* validate_installed_dependencies() found all it needs
    choices,        \* f_install_includes_choices
    tree,           \* the types in the tree being verified
    missing,        \* verify_tree() met a missing or held dependency
    n,              \* f_n of the tree generator
    best,           \* the best tree so far, empty at first
    phase,          \* which loop runs
    index,          \* its position in the list
    stack,          \* the frames of the recursive functions
    result          \* "selected", or the error thrown

vars == <<packages, type, selfContained, choices, tree, missing, n, best, phase,
          index, stack, result>>

Item == DOMAIN packages
Name(i) == packages[i].name
NameOf(d) == {i \in Item : Name(i) = d.name}

TypeOK ==
    /\ type \in [Item -> Types]
    /\ selfContained \in BOOLEAN /\ choices \in BOOLEAN /\ missing \in BOOLEAN
    /\ tree \in [Item -> Types]
    /\ n \in Nat
    /\ best = <<>> \/ best \in [Item -> Types]
    /\ phase \in {"installed", "conflicts", "trim", "tree", "verify", "done"}
    /\ index \in Nat
    /\ stack \in Seq([item : Item, dep : Nat \ {0}, cand : Nat, count : Nat])
    /\ result \in Results

Init ==
    /\ packages \in World
    /\ type = [i \in Item |-> packages[i].type]
    /\ tree = type
    /\ selfContained = FALSE /\ choices = FALSE /\ missing = FALSE
    /\ n = 0 /\ best = <<>> /\ phase = "installed" /\ index = 1 /\ stack = <<>>
    /\ result = "none"

Fail(why) ==
    /\ result' = why /\ phase' = "done"
    /\ UNCHANGED <<packages, type, selfContained, choices, tree, missing, n, best,
                   index, stack>>

Select(t) ==
    /\ type' = t
    /\ result' = "selected" /\ phase' = "done"
    /\ UNCHANGED <<packages, selfContained, choices, tree, missing, n, best, index,
                   stack>>

-----------------------------------------------------------------------------
(* match_dependency_version()                                              *)
Match(d, i) == Name(i) = d.name /\ packages[i].version \in d.versions

DependsOf(i) == packages[i].depends
Frame(i)     == [item |-> i, dep |-> 1, cand |-> 1, count |-> 0]
Running(p)   == phase = p /\ stack # <<>>
Top          == stack[Len(stack)]
Dependency   == DependsOf(Top.item)[Top.dep]
Exhausted    == Top.dep > Len(DependsOf(Top.item))
SetTop(f)    == [stack EXCEPT ![Len(stack)] = f]
NextDep      == [Frame(Top.item) EXCEPT !.dep = Top.dep + 1]
Pop          == SubSeq(stack, 1, Len(stack) - 1)

(* What a conflict may and may not invalidate.                             *)
Hard == {"explicit", "installed", "upgrade", "unpacked"}
Soft == {"implicit", "available"}

(* Conflicts, and Breaks, which a package that is not configured is spared.*)
Clashes(i, j) ==
    \/ \E d \in packages[i].conflicts : Match(d, j)
    \/ packages[j].type # "unpacked" /\ \E d \in packages[i].breaks : Match(d, j)

Hits(t, i, onlyExplicit) ==
    {j \in Item \ {i} :
        /\ t[j] \in IF onlyExplicit THEN {"explicit"}
                    ELSE Hard \cup {"implicit"}
                         \cup IF t[i] \in Hard THEN {"available"} ELSE {}
        /\ Clashes(i, j)}

HardConflict(t, i, onlyExplicit) ==
    t[i] \in Hard /\ \E j \in Hits(t, i, onlyExplicit) : t[j] \in Hard

(* Both sides of a conflict become invalid where they may.                 *)
TrimmedConflicts(t, i, onlyExplicit) ==
    LET hits == Hits(t, i, onlyExplicit)
        lost == {j \in hits : t[j] \in Soft}
                  \cup {j \in {i} : t[i] \in Soft /\ hits # {}}
    IN  [j \in Item |-> IF j \in lost THEN "invalid" ELSE t[j]]

-----------------------------------------------------------------------------
(* validate_installed_dependencies(): the packages of the command line and *)
(* of the target are tried alone; only when they do not suffice are the    *)
(* repositories read.                                                      *)

Explicit(t) == {i \in Item : t[i] = "explicit"}
Needed == UNION {{<<i, DependsOf(i)[k]>> : k \in DOMAIN DependsOf(i)} : i \in Explicit(type)}
GivenFor(i, d) == (Explicit(type) \cap NameOf(d)) \ {i}
InstalledFor(d) == {j \in NameOf(d) : type[j] = "installed" /\ Match(d, j)}
Alone == [i \in Item |-> IF type[i] = "available" THEN "invalid" ELSE type[i]]

ValidateInstalled ==
    /\ phase = "installed"
    /\ \A x \in Needed : \A j \in GivenFor(x[1], x[2]) :
           Match(x[2], j) /\ GivenFor(x[1], x[2]) = {j}
    /\ selfContained' = \A x \in Needed : GivenFor(x[1], x[2]) \cup InstalledFor(x[2]) # {}
    /\ type' = IF selfContained' THEN Alone ELSE type
    /\ phase' = "conflicts"
    /\ UNCHANGED <<packages, choices, tree, missing, n, best, index, stack, result>>

ValidateInstalledFails ==
    /\ phase = "installed"
    /\ \E x \in Needed : \E j \in GivenFor(x[1], x[2]) :
           \/ GivenFor(x[1], x[2]) # {j} /\ Fail("overlap")
           \/ GivenFor(x[1], x[2]) = {j} /\ ~Match(x[2], j) /\ Fail("incompatible")

-----------------------------------------------------------------------------
(* trim_available_packages(): first the conflicts, package by package; the *)
(* packages that are not explicit are compared with the explicit ones only.*)

TrimConflicts ==
    /\ phase = "conflicts" /\ index \in Item
    /\ LET onlyExplicit == type[index] # "explicit"
       IN  /\ ~HardConflict(type, index, onlyExplicit)
           /\ type' = IF type[index] = "invalid" THEN type
                      ELSE TrimmedConflicts(type, index, onlyExplicit)
    /\ index' = index + 1
    /\ UNCHANGED <<packages, selfContained, choices, tree, missing, n, best, phase,
                   stack, result>>

TrimConflictsFails ==
    /\ phase = "conflicts" /\ index \in Item
    /\ HardConflict(type, index, type[index] # "explicit")
    /\ Fail("conflict")

EndTrimConflicts ==
    /\ phase = "conflicts" /\ index \notin Item
    /\ phase' = "trim" /\ index' = 1
    /\ UNCHANGED <<packages, type, selfContained, choices, tree, missing, n, best,
                   stack, result>>

(* Then trim_available(), from each explicit package.                      *)
TrimRoot ==
    /\ phase = "trim" /\ stack = <<>> /\ index \in Item
    /\ stack' = IF type[index] = "explicit" THEN <<Frame(index)>> ELSE <<>>
    /\ index' = index + 1
    /\ UNCHANGED <<packages, type, selfContained, choices, tree, missing, n, best,
                   phase, result>>

TrimStep(newType, newStack, newChoices) ==
    /\ type' = newType /\ stack' = newStack /\ choices' = newChoices
    /\ UNCHANGED <<packages, selfContained, tree, missing, n, best, phase, index,
                   result>>

TrimReturn ==
    /\ Running("trim") /\ Exhausted
    /\ TrimStep(type, Pop, choices)

OnStack(i) == \E k \in DOMAIN stack : stack[k].item = i

(* trim_dependency(): an explicit package of that name is the only one     *)
(* that may meet the dependency.                                           *)
TrimExplicit ==
    /\ Running("trim") /\ ~Exhausted
    /\ LET given == Explicit(type) \cap NameOf(Dependency)
           only  == Min(given)
       IN  /\ given # {}
           /\ IF ~Match(Dependency, only) THEN Fail("incompatible")
              ELSE IF OnStack(only) THEN Fail("circular")
              ELSE TrimStep([i \in Item |-> IF i \in NameOf(Dependency) /\ type[i] = "available"
                                              THEN "invalid" ELSE type[i]],
                            Append(SetTop(NextDep), Frame(only)), choices)

NoneGiven == Explicit(type) \cap NameOf(Dependency) = {}
Present   == {j \in NameOf(Dependency) : type[j] \in {"installed", "unpacked", "upgrade"}}
Met       == Present # {} /\ Match(Dependency, Min(Present))

(* A package of the target meets it: the candidates stay.                  *)
TrimInstalled ==
    /\ Running("trim") /\ ~Exhausted /\ NoneGiven /\ Met
    /\ TrimStep(type, SetTop(NextDep), choices)

(* Where a package of the target has the wrong version the loop over the   *)
(* candidates ends as soon as it comes to that package.                    *)
Candidates ==
    {j \in NameOf(Dependency) :
        /\ type[j] = "available" /\ j >= Top.cand
        /\ \A k \in Present : type[k] \in {"installed", "upgrade"} => j < k}

TrimCandidate ==
    /\ Running("trim") /\ ~Exhausted /\ NoneGiven /\ ~Met /\ Candidates # {}
    /\ LET c    == Min(Candidates)
           next == [Top EXCEPT !.cand = c + 1]
       IN  IF ~Match(Dependency, c)
             THEN TrimStep([type EXCEPT ![c] = "invalid"], SetTop(next), choices)
           ELSE IF OnStack(c) THEN Fail("circular")
           ELSE TrimStep(type, Append(SetTop([next EXCEPT !.count = @ + 1]), Frame(c)),
                         choices)

TrimCandidatesEnd ==
    /\ Running("trim") /\ ~Exhausted /\ NoneGiven /\ ~Met /\ Candidates = {}
    /\ IF Top.count = 0 /\ \A k \in Present : type[k] = "unpacked"
         THEN Fail(IF Present = {} THEN "unsatisfied" ELSE "incompatible")
         ELSE TrimStep(type, SetTop(NextDep), choices \/ Top.count > 1)

(* Nothing else is checked when the target suffices; without choices the   *)
(* list itself is the only tree.                                           *)
EndTrim ==
    /\ phase = "trim" /\ stack = <<>> /\ index \notin Item
    /\ IF selfContained THEN Select(type)
       ELSE /\ phase' = IF choices THEN "tree" ELSE "verify"
            /\ tree' = type /\ index' = 1
            /\ UNCHANGED <<packages, type, selfContained, choices, missing, n, best,
                           stack, result>>

-----------------------------------------------------------------------------
(* tree_generator: every combination of one candidate per name, once.      *)

Options(i) == {j \in Item : Name(j) = Name(i) /\ type[j] = "available"}
Groups     == {i \in Item : Options(i) # {} /\ \A j \in 1..(i - 1) : Name(j) # Name(i)}
Size(i)    == Cardinality(Options(i))

(* f_divisor and f_end: the products of the sizes of the last m packages'  *)
(* groups.                                                                 *)
Weight(i) == IF i \in Groups THEN Size(i) ELSE 1
Factors   ==
    LET f[m \in 0..Len(packages)] ==
            IF m = 0 THEN 1 ELSE Weight(Len(packages) + 1 - m) * f[m - 1]
    IN  f
TreeCount  == Factors[Len(packages)]
Divisor(i) == Factors[Len(packages) - i]

Chosen(i, k) == CHOOSE j \in Options(i) :
    Cardinality({o \in Options(i) : o < j}) = (k \div Divisor(i)) % Size(i)

Tree(k) == [j \in Item |->
    IF \E g \in Groups : j \in Options(g) \ {Chosen(g, k)} THEN "invalid" ELSE type[j]]

(* Mutations: the generator does not advance; it stops one tree early.     *)
NextTreeAgain ==
    /\ phase = "tree" /\ n < TreeCount
    /\ tree' = Tree(n)
    /\ missing' = FALSE /\ phase' = "verify" /\ index' = 1
    /\ UNCHANGED <<packages, type, selfContained, choices, n, best, stack, result>>
EndTreesEarly ==
    /\ phase = "tree" /\ n + 1 >= TreeCount
    /\ IF best = <<>> THEN Fail("missing") ELSE Select(best)

NextTree ==
    /\ phase = "tree" /\ n < TreeCount
    /\ tree' = Tree(n)
    /\ n' = n + 1
    /\ missing' = FALSE /\ phase' = "verify" /\ index' = 1
    /\ UNCHANGED <<packages, type, selfContained, choices, best, stack, result>>

EndTrees ==
    /\ phase = "tree" /\ n >= TreeCount
    /\ IF best = <<>> THEN Fail("missing") ELSE Select(best)

-----------------------------------------------------------------------------
(* verify_tree() and find_dependencies(): the candidates that are needed   *)
(* become implicit.                                                        *)

(* Entering find_dependencies(tree, i) trims the conflicts of i.           *)
Enter(t, i, frames, pos) ==
    IF HardConflict(t, i, FALSE) THEN Fail("conflict")
    ELSE /\ tree' = TrimmedConflicts(t, i, FALSE)
         /\ stack' = Append(frames, Frame(i))
         /\ index' = pos
         /\ UNCHANGED <<packages, type, selfContained, choices, missing, n, best,
                        phase, result>>

VerifyStep(newStack, newMissing) ==
    /\ stack' = newStack /\ missing' = newMissing
    /\ UNCHANGED <<packages, type, selfContained, choices, tree, n, best, phase,
                   index, result>>

NextExplicit == {i \in Explicit(tree) : i >= index}

VerifyRoot ==
    /\ phase = "verify" /\ stack = <<>> /\ NextExplicit # {}
    /\ Enter(tree, Min(NextExplicit), <<>>, Min(NextExplicit) + 1)

VerifyReturn ==
    /\ Running("verify") /\ Exhausted
    /\ VerifyStep(Pop, missing)

(* check_implicit_for_upgrade(): an implicit package never downgrades what *)
(* the target has, nor upgrades what is on hold or not configured.         *)
OnDisk(i) == {k \in Item : Name(k) = Name(i) /\ packages[k].type \in OnTarget}
MayUpgradeHeld(i) ==                      \* mutation: holds are forgotten
    \A k \in OnDisk(i) :
        packages[k].type # "unpacked" /\ packages[k].version <= packages[i].version
MayUpgrade(i) ==
    \A k \in OnDisk(i) :
        /\ packages[k].type # "unpacked" /\ ~packages[k].held
        /\ packages[k].version <= packages[i].version
NotFoundNever(i) == FALSE                 \* mutation: the search is left out
NotFound(i) == MayUpgrade(i) /\ \E k \in OnDisk(i) :
                  tree[k] # "installed" \/ packages[k].version = packages[i].version

Usable == {j \in NameOf(Dependency) :
             /\ Match(Dependency, j)
             /\ \/ tree[j] \in {"explicit", "implicit", "installed", "upgrade"}
                \/ tree[j] = "available" /\ MayUpgrade(j)}
Unpacked == {j \in NameOf(Dependency) : Match(Dependency, j) /\ tree[j] = "unpacked"}

(* Only what the target has is asked for its X-Selection (is_deb).         *)
Held(i) == packages[i].type \in OnTarget /\ packages[i].held

FindDependency ==
    /\ Running("verify") /\ ~Exhausted /\ Usable # {}
    /\ LET c == Min(Usable)
       IN  IF tree[c] # "available"
             THEN VerifyStep(SetTop(NextDep), missing \/ Held(c))
           ELSE IF NotFound(c) THEN Fail("internal")
           ELSE Enter([i \in Item |-> IF i = c THEN "implicit"
                                      ELSE IF i \in OnDisk(c) THEN "upgrade" ELSE tree[i]],
                      c, SetTop(NextDep), index)

(* Mutation: what is missing is not recorded.                              *)
DependencySkipped ==
    /\ Running("verify") /\ ~Exhausted /\ Usable = {}
    /\ VerifyStep(SetTop(NextDep), missing)

(* A dependency that only an unpacked package meets is neither missing nor *)
(* an error.                                                               *)
DependencyMissing ==
    /\ Running("verify") /\ ~Exhausted /\ Usable = {}
    /\ VerifyStep(SetTop(NextDep), missing \/ Unpacked = {})

-----------------------------------------------------------------------------
(* The choice of the best tree.                                            *)

Marked(t)   == {i \in Item : t[i] \in {"explicit", "implicit", "upgrade"}}
Version(i)  == packages[i].version

(* trees_are_practically_identical()                                       *)
Identical(l, r) ==
    /\ Cardinality(Marked(l)) = Cardinality(Marked(r))
    /\ \A i \in Marked(l) : \E j \in Marked(r) : Name(i) = Name(j) /\ Version(i) = Version(j)

(* compare_trees(): only names that both trees install count.              *)
Larger(l, r) == \E i \in Marked(l), j \in Marked(r) : Name(i) = Name(j) /\ Version(i) > Version(j)
Worse(l, r)   == Larger(r, l) /\ ~Larger(l, r)             \* mutation: swapped
Better(l, r)  == Larger(l, r) /\ ~Larger(r, l)
Similar(l, r) == Larger(l, r) <=> Larger(r, l)

Verified == phase = "verify" /\ stack = <<>> /\ NextExplicit = {}

VerifiedOnly ==
    /\ Verified /\ ~choices
    /\ IF missing THEN Fail("missing") ELSE Select(tree)

KeepBest(t) ==
    /\ best' = t /\ phase' = "tree"
    /\ UNCHANGED <<packages, type, selfContained, choices, tree, missing, n, index,
                   stack, result>>

VerifiedTree ==
    /\ Verified /\ choices
    /\ IF missing THEN KeepBest(best)
       ELSE IF best = <<>> THEN KeepBest(tree)
       ELSE IF Identical(tree, best) THEN KeepBest(best)
       ELSE IF Similar(tree, best) THEN Fail("similar")
       ELSE KeepBest(IF Better(tree, best) THEN tree ELSE best)

Next ==
    \/ ValidateInstalled \/ ValidateInstalledFails
    \/ TrimConflicts \/ TrimConflictsFails \/ EndTrimConflicts
    \/ TrimRoot \/ TrimReturn \/ TrimExplicit \/ TrimInstalled
    \/ TrimCandidate \/ TrimCandidatesEnd \/ EndTrim
    \/ NextTree \/ EndTrees
    \/ VerifyRoot \/ VerifyReturn \/ FindDependency \/ DependencyMissing
    \/ VerifiedOnly \/ VerifiedTree

Spec == Init /\ [][Next]_vars /\ WF_vars(Next)

-----------------------------------------------------------------------------
(* What must hold.                                                         *)

(* What the target holds once the selected packages are installed.         *)
Installs == {i \in Item : type[i] \in {"explicit", "implicit"}}
After    == Installs \cup {i \in Item : type[i] = "installed"}
Selected == result = "selected"

(* Every package that gets installed finds each of its dependencies among  *)
(* those installed with it or before it (find_dependencies), where the     *)
(* target is configured, no candidate conflicts with another or with the   *)
(* target, and what accepts the version of the target accepts later ones.  *)
Satisfied == \A i \in Installs : \A k \in DOMAIN DependsOf(i) :
                 \E j \in After : Match(DependsOf(i)[k], j)
Offers     == {i \in Item : packages[i].type = "available"}
Configured == \A i \in Item : packages[i].type # "unpacked"
Peaceful   == \A i \in Offers, j \in Item : i # j /\ packages[j].type # "explicit" => ~Clashes(i, j)
Uncapped   == \A i \in Item : \A k \in DOMAIN DependsOf(i) : \A x, y \in Item :
                  /\ Match(DependsOf(i)[k], x) /\ packages[x].type \in OnTarget
                  /\ Name(x) = Name(y) /\ packages[x].version <= packages[y].version
                  => Match(DependsOf(i)[k], y)
DependenciesMet == Selected /\ Configured /\ Peaceful /\ Uncapped => Satisfied

(* Two versions of a package are never installed together, where the       *)
(* command line has none twice and what upgrades the target depends on no  *)
(* other package of the repositories: trim_dependency() does not look at   *)
(* the dependencies of such a candidate.                                   *)
GivenOnce   == \A i, j \in Item : packages[i].type = "explicit" /\ packages[j].type = "explicit"
                                     /\ Name(i) = Name(j) => i = j
SelfReliant == \A i \in Offers : OnDisk(i) # {} => \A k \in DOMAIN DependsOf(i) :
                   NameOf(DependsOf(i)[k]) \cap Offers = {}
OneVersion ==
    Selected /\ GivenOnce /\ SelfReliant =>
        \A i, j \in After : Name(i) = Name(j) => i = j

(* A package of the target is upgraded implicitly to a higher version      *)
(* only, and never when it is on hold.                                     *)
NoForcedUpgrade ==
    Selected => \A i \in Installs : type[i] = "implicit" =>
        \A k \in OnDisk(i) : Version(k) < Version(i) /\ ~packages[k].held

(* The sets of packages the target may hold: every dependency met, one     *)
(* version of each, no conflict, nothing of the target lost or downgraded. *)
Keeps(S) ==
    \A k \in Item : packages[k].type = "installed" =>
        \E i \in S : Name(i) = Name(k) /\ (i = k \/ (Version(i) > Version(k) /\ ~packages[k].held))
Consistent(S) ==
    /\ {i \in Item : packages[i].type = "explicit"} \subseteq S
    /\ Keeps(S)
    /\ \A i \in S : \A k \in DOMAIN DependsOf(i) : \E j \in S : Match(DependsOf(i)[k], j)
    /\ \A i, j \in S : i # j => /\ Name(i) # Name(j)
                                /\ ~Clashes(i, j)
Possible == {S \in SUBSET {i \in Item : packages[i].type # "unpacked"} : Consistent(S)}

(* No set of packages that could be installed is better than the one       *)
(* selected: at least as recent wherever both have a package, and more     *)
(* recent somewhere, on an empty target, with nothing on hold, and as long *)
(* as the candidates of a name have the same dependencies (compare_trees). *)
Beats(S, T) ==
    /\ \E i \in S, j \in T : Name(i) = Name(j) /\ Version(i) > Version(j)
    /\ \A i \in S, j \in T : Name(i) = Name(j) => Version(i) >= Version(j)
NoneBetter == ~\E S \in Possible : Beats(S, After)
Alike == \A i, j \in Offers : Name(i) = Name(j) => DependsOf(i) = DependsOf(j)
Fresh == \A i \in Item : packages[i].type \in {"explicit", "available"} /\ ~packages[i].held
SelectedIsBest == Selected /\ Alike /\ Fresh => NoneBetter

(* There the installer calls a dependency missing or incompatible only     *)
(* where no set of packages could be installed (validate_dependencies).    *)
GaveUp == result \in {"missing", "unsatisfied", "incompatible"}
GivesUpRightly == GaveUp /\ Alike /\ Fresh => Possible = {}

(* The search comes to an end.                                             *)
Decided == <>(phase = "done")

-----------------------------------------------------------------------------
(* What the documentation and the messages of the code claim, and the code *)
(* does not do.                                                            *)

(* "verifying means checking that all dependencies are satisfied"          *)
(* (verify_tree).                                                          *)
AllSatisfied == Selected => Satisfied

(* "creates all the possible dependency trees it can in order to select    *)
(* the best one for installation" (validate_dependencies).                 *)
BestSelected == Selected => NoneBetter

(* Where the command line has a package "they cannot "legally" get used",  *)
(* the other versions of it (trim_dependency).                             *)
GivenStands ==
    Selected => \A i, j \in Installs :
        Name(i) = Name(j) /\ type[i] = "explicit" => type[j] = "explicit"

(* "only trimming what is for sure invalid/incompatible" (trim_dependency).*)
OnlySureTrimmed == GaveUp => Possible = {}

(* "the list of packages that cannot be installed along this package":     *)
(* nothing gets installed beside a package it conflicts with.              *)
NoConflict ==
    Selected => \A i \in Installs : \A j \in After \ {i} : ~Clashes(i, j)

(* "this is an internal error and the code needs to be fixed if it ever    *)
(* happens" (check_implicit_for_upgrade).                                  *)
NeverInternal == result # "internal"

(* "if selected later, it will fail" (trim_dependency): nothing is         *)
(* installed on the strength of a package that is not configured.          *)
UnpackedIsNoDependency ==
    Selected => \A i \in Installs : \A k \in DOMAIN DependsOf(i) :
        (\E j \in Item : type[j] = "unpacked" /\ Match(DependsOf(i)[k], j)) =>
            \E j \in After : Match(DependsOf(i)[k], j)
=============================================================================

--------------------------- MODULE Dependencies_proofs ---------------------------
(***************************************************************************)
(* What is proved of Dependencies, for any package lists: the types; that  *)
(* no package of the target is upgraded against a hold or downgraded; that *)
(* what is selected has one version of a package; that it has what every   *)
(* package of it depends on; and, on an empty target, that the installer   *)
(* gives up only where nothing could be installed, and selects the best.   *)
(*                                                                         *)
(* The second needs what an implicit package did to the one it replaces    *)
(* (Raised).  The third needs what the trimming, a search in depth that    *)
(* looks at a package more than once, leaves when it ends: a set of        *)
(* packages with all the candidates of what they depend on (Covered).  The *)
(* fourth follows each frame of find_dependencies() (Served).  The last    *)
(* two follow a set of packages that could be installed: no candidate of   *)
(* it is trimmed (Kept, InTrim), the generator comes to the tree that has  *)
(* all of it (HitSome), that tree is verified with packages of the set     *)
(* only (Follows), and from then on there is a best tree (Found), which no *)
(* later one takes below the set (Leads).                                  *)
(***************************************************************************)
EXTENDS Dependencies, FiniteSetTheorems, WellFoundedInduction, TLAPS

-----------------------------------------------------------------------------
(* What the types in a list may have become.                               *)
Grown(t) == \A i \in Item :
    \/ t[i] = packages[i].type
    \/ packages[i].type = "available" /\ t[i] \in {"implicit", "invalid"}
    \/ packages[i].type = "installed" /\ t[i] = "upgrade"
Raised(t) == \A i \in Item : t[i] = "implicit" =>
    \A k \in OnDisk(i) : t[k] = "upgrade" /\ Version(k) < Version(i) /\ ~packages[k].held
Lists == {t \in [Item -> Types] : Grown(t) /\ Raised(t)}

(* The list itself only loses candidates until a tree is selected.         *)
Trimmed == \A i \in Item :
    \/ type[i] = packages[i].type
    \/ packages[i].type = "available" /\ type[i] = "invalid"
Errors == Results \ {"none", "selected"}
Base ==
    /\ packages \in World /\ TypeOK
    /\ type \in Lists /\ tree \in Lists /\ (best # <<>> => best \in Lists)
    /\ phase # "done" => Trimmed
    /\ phase = "done" <=> result # "none"

-----------------------------------------------------------------------------
(* A candidate that is looked at by trim_available() is in E; one of a     *)
(* name the target has may not be.                                         *)
Given        == {i \in Item : packages[i].type = "explicit"}
Rest(i, k)   == {j \in NameOf(DependsOf(i)[k]) : type[j] = "available"}
Unique(j, T) == \A l \in T : l = j
Settled(E, i, k) == \A j \in Rest(i, k) :
    /\ Given \cap NameOf(DependsOf(i)[k]) = {}
    /\ OnDisk(j) # {} \/ (j \in E /\ (choices \/ Unique(j, Rest(i, k))))
Frames       == [item : Item, dep : Nat \ {0}, cand : Nat, count : Nat]
Passed(f)    == {j \in Rest(f.item, f.dep) : j < f.cand}
InProgress(E) == {f \in Frames :
    /\ f.item \in E
    /\ f.dep \in DOMAIN DependsOf(f.item) => \A j \in Passed(f) :
         /\ Given \cap NameOf(DependsOf(f.item)[f.dep]) = {}
         /\ OnDisk(j) # {}
            \/ (j \in E /\ f.count # 0 /\ (f.count = 1 => Unique(j, Passed(f))))}
Pending(i, k) == \E m \in DOMAIN stack : stack[m].item = i /\ stack[m].dep <= k

Trimming(E) ==
    /\ index # 0 /\ \A i \in Given : i < index => i \in E
    /\ \A m \in DOMAIN stack : stack[m] \in InProgress(E)
    /\ \A i \in E : \A k \in DOMAIN DependsOf(i) : Settled(E, i, k) \/ Pending(i, k)
Renewals == {i \in Offers : OnDisk(i) # {}}
Covered(E) ==
    /\ Given \subseteq E
    /\ \A i \in E : \A k \in DOMAIN DependsOf(i) : Settled(E, i, k)
    /\ phase = "verify" => \A m \in DOMAIN stack : stack[m].item \in E \cup Renewals

(* A tree has candidates of the list only; one of each name, where it is   *)
(* one of several; and no two versions of what it installs.                *)
Inside  == {t \in [Item -> Types] : \A i \in Item : t[i] \in Soft => type[i] = "available"}
Sparse  == {t \in [Item -> Types] : \A i, j \in Item :
    t[i] \in Soft /\ t[j] \in Soft /\ Name(i) = Name(j) => i = j}
Singles == {t \in [Item -> Types] : \A i, j \in Item :
    t[i] = "implicit" /\ t[j] \in {"explicit", "implicit"} /\ Name(i) = Name(j) => i = j}

OneOfEach ==
    /\ phase \in {"installed", "conflicts", "tree"} => stack = <<>>
    /\ phase = "trim" => \E E \in SUBSET Item : Trimming(E)
    /\ phase \in {"tree", "verify"} => \E E \in SUBSET Item : Covered(E)
    /\ phase = "verify" => tree \in Inside \cap Singles /\ (choices => tree \in Sparse)
    /\ best # <<>> => best \in Singles
    /\ Selected => type \in Singles
Ones == GivenOnce /\ SelfReliant => OneOfEach

-----------------------------------------------------------------------------
(* No candidate conflicts with what the command line has.                  *)
Clash(i, j) == i # j /\ Clashes(i, j)
Calm == \A i \in Given, j \in Item : type[j] = "available" =>
    /\ phase = "conflicts" => (i < index => ~Clash(i, j)) /\ (j < index => ~Clash(j, i))
    /\ phase \in {"trim", "tree", "verify"} => ~Clash(i, j) /\ ~Clash(j, i)

Users(t)     == {i \in Item : t[i] \in {"explicit", "implicit"}}
MetIn(t, i, k) == \E j \in Item : Match(DependsOf(i)[k], j)
                    /\ t[j] \in {"explicit", "implicit", "installed", "upgrade"}
Replacing    == {t \in [Item -> Types] : \A j \in Item : t[j] = "upgrade" =>
    \E c \in Users(t) : Name(c) = Name(j) /\ packages[j].version <= packages[c].version}
Supplied     == {t \in Replacing : \A i \in Users(t) : \A k \in DOMAIN DependsOf(i) : MetIn(t, i, k)}
Begun == {i \in Users(tree) : tree[i] = "explicit" => i < index}
Serving ==
    /\ tree \in Inside /\ tree \in Replacing
    /\ missing \/ \A i \in Begun : \A k \in DOMAIN DependsOf(i) :
                      MetIn(tree, i, k) \/ Pending(i, k)
Served ==
    /\ phase = "installed" => index = 1
    /\ phase = "conflicts" => index # 0
    /\ Calm
    /\ phase = "verify" => Serving
    /\ selfContained /\ phase # "done" =>
         type \in Supplied /\ \A i \in Item : type[i] # "available"
    /\ best # <<>> => best \in Supplied
    /\ Selected => type \in Supplied
Meets == Configured /\ Peaceful /\ Uncapped => Served

-----------------------------------------------------------------------------
(* Least elements.                                                         *)

Less == {ss \in Nat \X Nat : ss[1] < ss[2]}

LEMMA LessWF == IsWellFoundedOn(Less, Nat)
BY NatLessThanWellFounded DEF OpToRel, Less

LEMMA MinIs ==
    ASSUME NEW T \in SUBSET Nat, T # {}
    PROVE  Min(T) \in T /\ \A y \in T : Min(T) <= y
<1>1. \E x \in T : \A y \in T : ~(<<y, x>> \in Less)
  BY LessWF, WFMin
<1>2. \A x \in Nat, y \in Nat : y < x => <<y, x>> \in Less
  BY DEF Less
<1>3. PICK x \in T : \A y \in T : ~(<<y, x>> \in Less)
  BY <1>1
<1>4. ASSUME NEW y \in T PROVE x <= y
  <2>1. ~(y < x)
    BY <1>2, <1>3
  <2> QED BY <2>1
<1> QED BY <1>4 DEF Min

-----------------------------------------------------------------------------
(* The package lists, and the stack of the recursive functions.            *)

LEMMA TheList ==
    ASSUME packages \in World
    PROVE  /\ Item = 1..Len(packages) /\ Len(packages) \in Nat /\ Item \subseteq Nat
           /\ \A i \in Item : /\ packages[i].version \in Nat /\ packages[i].held \in BOOLEAN
                              /\ packages[i].type \in StartTypes
                              /\ DOMAIN DependsOf(i) = 1..Len(DependsOf(i))
                              /\ Len(DependsOf(i)) \in Nat
BY WorldAssumption DEF Item, DependsOf

LEMMA TheTarget ==
    ASSUME packages \in World, NEW i \in Item, packages[i].type \in OnTarget
    PROVE  /\ \A j \in Item : j # i /\ Name(j) = Name(i) =>
                  packages[j].type \in IF packages[i].type = "upgrade" THEN {"explicit", "available"}
                                       ELSE {"available"}
           /\ packages[i].type = "upgrade" => \E j \in Item :
                  /\ Name(j) = Name(i) /\ packages[j].type = "explicit"
                  /\ packages[i].version <= packages[j].version
BY WorldAssumption DEF Item, Name

LEMMA TopIs ==
    ASSUME stack \in Seq(Frames), stack # <<>>
    PROVE  /\ Len(stack) \in Nat \ {0} /\ DOMAIN stack = 1..Len(stack)
           /\ Top \in Frames /\ Top = stack[Len(stack)]
           /\ Top.item \in Item /\ Top.dep \in Nat \ {0} /\ Top.cand \in Nat /\ Top.count \in Nat
<1>1. Len(stack) \in Nat \ {0} /\ DOMAIN stack = 1..Len(stack) /\ Top \in Frames
  BY DEF Top
<1> QED BY <1>1 DEF Top, Frames

LEMMA Pops ==
    ASSUME stack \in Seq(Frames), stack # <<>>
    PROVE  /\ Pop \in Seq(Frames) /\ DOMAIN Pop = 1..(Len(stack) - 1)
           /\ \A m \in 1..(Len(stack) - 1) : Pop[m] = stack[m]
BY DEF Pop

LEMMA Sets ==
    ASSUME stack \in Seq(Frames), stack # <<>>, NEW f \in Frames
    PROVE  /\ SetTop(f) \in Seq(Frames) /\ DOMAIN SetTop(f) = DOMAIN stack
           /\ Len(SetTop(f)) = Len(stack) /\ SetTop(f)[Len(stack)] = f
           /\ \A m \in 1..(Len(stack) - 1) : SetTop(f)[m] = stack[m]
BY DEF SetTop

LEMMA Calls ==
    ASSUME stack \in Seq(Frames), stack # <<>>, NEW f \in Frames, NEW g \in Frames
    PROVE  /\ Append(SetTop(f), g) \in Seq(Frames)
           /\ DOMAIN Append(SetTop(f), g) = 1..(Len(stack) + 1)
           /\ Append(SetTop(f), g)[Len(stack)] = f
           /\ Append(SetTop(f), g)[Len(stack) + 1] = g
           /\ \A m \in 1..(Len(stack) - 1) : Append(SetTop(f), g)[m] = stack[m]
<1> DEFINE s == SetTop(f)
<1>1. /\ s \in Seq(Frames) /\ Len(s) = Len(stack) /\ s[Len(stack)] = f
      /\ \A m \in 1..(Len(stack) - 1) : s[m] = stack[m]
  BY Sets
<1>2. Len(stack) \in Nat \ {0}
  BY TopIs
<1> HIDE DEF s
<1>3. /\ Append(s, g) \in Seq(Frames) /\ Len(Append(s, g)) = Len(stack) + 1
      /\ \A m \in 1..Len(stack) : Append(s, g)[m] = s[m]
      /\ Append(s, g)[Len(stack) + 1] = g
  BY <1>1, <1>2
<1>4. DOMAIN Append(s, g) = 1..(Len(stack) + 1)
  BY <1>3
<1>5. \A m \in 1..(Len(stack) - 1) : Append(s, g)[m] = stack[m]
  BY <1>1, <1>2, <1>3
<1> QED BY <1>1, <1>2, <1>3, <1>4, <1>5 DEF s

LEMMA FramesAre ==
    ASSUME packages \in World
    PROVE  /\ \A i \in Item : Frame(i) \in Frames /\ Frame(i).item = i /\ Frame(i).dep = 1
                              /\ Frame(i).cand = 1 /\ Frame(i).count = 0
           /\ stack \in Seq(Frames) /\ stack # <<>> =>
                /\ NextDep \in Frames /\ NextDep.item = Top.item /\ NextDep.dep = Top.dep + 1
                /\ NextDep.cand = 1 /\ NextDep.count = 0
<1>1. ASSUME stack \in Seq(Frames), stack # <<>>
      PROVE  /\ NextDep \in Frames /\ NextDep.item = Top.item /\ NextDep.dep = Top.dep + 1
             /\ NextDep.cand = 1 /\ NextDep.count = 0
  <2> DEFINE d == Top.dep
             i == Top.item
  <2>1. d \in Nat \ {0} /\ i \in Item
    BY <1>1, TopIs
  <2>2. NextDep = [Frame(i) EXCEPT !.dep = d + 1]
    BY DEF NextDep
  <2> HIDE DEF d, i
  <2>3. NextDep = [item |-> i, dep |-> d + 1, cand |-> 1, count |-> 0]
    BY <2>2 DEF Frame
  <2> QED BY <2>1, <2>3 DEF Frames, d, i
<1> QED BY <1>1 DEF Frame, Frames

LEMMA OneFrame ==
    ASSUME NEW f \in Frames
    PROVE  <<f>> \in Seq(Frames) /\ DOMAIN <<f>> = 1..1 /\ <<f>>[1] = f
OBVIOUS

-----------------------------------------------------------------------------
(* What conflicts and selections do to a list.                             *)

(* t has become r by the loss of candidates.                               *)
Fewer(t, r) == r \in [Item -> Types]
    /\ \A j \in Item : r[j] = t[j] \/ (t[j] \in Soft /\ r[j] = "invalid")

LEMMA TrimmedIs ==
    ASSUME NEW t \in [Item -> Types], NEW i \in Item, NEW o
    PROVE  Fewer(t, TrimmedConflicts(t, i, o))
<1> DEFINE hits == Hits(t, i, o)
           lost == {j \in hits : t[j] \in Soft} \cup {j \in {i} : t[i] \in Soft /\ hits # {}}
<1>1. TrimmedConflicts(t, i, o) = [j \in Item |-> IF j \in lost THEN "invalid" ELSE t[j]]
  BY DEF TrimmedConflicts
<1>2. \A j \in lost : t[j] \in Soft
  OBVIOUS
<1> HIDE DEF lost
<1> QED BY <1>1, <1>2 DEF Fewer, Types, StartTypes

LEMMA SeenFewer ==
    ASSUME packages \in World, NEW t \in Lists, NEW r, Fewer(t, r)
    PROVE  r \in Lists
<1>1. Grown(r)
  <2> SUFFICES ASSUME NEW i \in Item
               PROVE  \/ r[i] = packages[i].type
                      \/ packages[i].type = "available" /\ r[i] \in {"implicit", "invalid"}
                      \/ packages[i].type = "installed" /\ r[i] = "upgrade"
    BY DEF Grown
  <2>1. r[i] = t[i] \/ (t[i] \in {"implicit", "available"} /\ r[i] = "invalid")
    BY DEF Fewer, Soft
  <2>2. \/ t[i] = packages[i].type
        \/ packages[i].type = "available" /\ t[i] \in {"implicit", "invalid"}
        \/ packages[i].type = "installed" /\ t[i] = "upgrade"
    BY DEF Lists, Grown
  <2>3. packages[i].type # "implicit"
    BY TheList DEF StartTypes
  <2> QED BY <2>1, <2>2, <2>3
<1>2. Raised(r)
  <2> SUFFICES ASSUME NEW i \in Item, r[i] = "implicit", NEW k \in OnDisk(i)
               PROVE  r[k] = "upgrade" /\ Version(k) < Version(i) /\ ~packages[k].held
    BY DEF Raised
  <2>1. t[i] = "implicit" /\ k \in Item
    BY DEF Fewer, OnDisk
  <2>2. t[k] = "upgrade" /\ Version(k) < Version(i) /\ ~packages[k].held
    BY <2>1 DEF Lists, Raised
  <2>3. r[k] = "upgrade"
    BY <2>1, <2>2 DEF Fewer, Soft
  <2> QED BY <2>2, <2>3
<1> QED BY <1>1, <1>2 DEF Lists, Fewer

(* A candidate becomes implicit; what it replaces, an upgrade.             *)
Promoted(c) == [i \in Item |-> IF i = c THEN "implicit"
                               ELSE IF i \in OnDisk(c) THEN "upgrade" ELSE tree[i]]

LEMMA MayPromote ==
    ASSUME packages \in World, NEW c \in Item, MayUpgrade(c), ~NotFound(c), NEW k \in OnDisk(c)
    PROVE  /\ k \in Item /\ tree[k] = "installed" /\ packages[k].type # "unpacked"
           /\ Version(k) < Version(c) /\ ~packages[k].held
<1>1. k \in Item /\ packages[k].version \in Nat /\ packages[c].version \in Nat
  BY TheList DEF OnDisk
<1>2. tree[k] = "installed" /\ packages[k].version # packages[c].version
  BY DEF NotFound
<1>3. packages[k].type # "unpacked" /\ ~packages[k].held /\ packages[k].version <= packages[c].version
  BY DEF MayUpgrade
<1> QED BY <1>1, <1>2, <1>3 DEF Version

LEMMA SeenPromoted ==
    ASSUME packages \in World, tree \in Lists, NEW c \in Item, tree[c] = "available",
           MayUpgrade(c), ~NotFound(c)
    PROVE  /\ Promoted(c) \in Lists /\ packages[c].type = "available" /\ c \notin OnDisk(c)
           /\ \A i \in Item : Promoted(c)[i] = IF i = c THEN "implicit"
                              ELSE IF i \in OnDisk(c) THEN "upgrade" ELSE tree[i]
<1> DEFINE p == Promoted(c)
<1>1. /\ p \in [Item -> Types]
      /\ \A i \in Item : p[i] = IF i = c THEN "implicit"
                                ELSE IF i \in OnDisk(c) THEN "upgrade" ELSE tree[i]
  BY DEF Promoted, Lists, Types, StartTypes
<1>2. packages[c].type = "available"
  BY DEF Lists, Grown
<1>3. \A k \in OnDisk(c) : packages[k].type = "installed"
  <2> SUFFICES ASSUME NEW k \in OnDisk(c) PROVE packages[k].type = "installed"
    OBVIOUS
  <2>1. k \in Item /\ tree[k] = "installed"
    BY MayPromote
  <2> QED BY <2>1 DEF Lists, Grown
<1>c. c \notin OnDisk(c)
  BY <1>2, <1>3
<1> HIDE DEF p
<1>4. Grown(p)
  <2> SUFFICES ASSUME NEW i \in Item
               PROVE  \/ p[i] = packages[i].type
                      \/ packages[i].type = "available" /\ p[i] \in {"implicit", "invalid"}
                      \/ packages[i].type = "installed" /\ p[i] = "upgrade"
    BY DEF Grown
  <2>1. CASE i = c
    BY <2>1, <1>1, <1>2
  <2>2. CASE i # c /\ i \in OnDisk(c)
    BY <2>2, <1>1, <1>3
  <2>3. CASE i # c /\ i \notin OnDisk(c)
    BY <2>3, <1>1 DEF Lists, Grown
  <2> QED BY <2>1, <2>2, <2>3
<1>5. Raised(p)
  <2> SUFFICES ASSUME NEW i \in Item, p[i] = "implicit", NEW k \in OnDisk(i)
               PROVE  p[k] = "upgrade" /\ Version(k) < Version(i) /\ ~packages[k].held
    BY DEF Raised
  <2>1. k \in Item /\ packages[k].type \in OnTarget
    BY DEF OnDisk
  <2>2. k # c
    BY <2>1, <1>2 DEF OnTarget
  <2>3. CASE i = c
    BY <2>3, <2>1, <2>2, <1>1, MayPromote
  <2>4. CASE i # c
    <3>1. tree[i] = "implicit"
      BY <2>4, <1>1
    <3>2. tree[k] = "upgrade" /\ Version(k) < Version(i) /\ ~packages[k].held
      BY <3>1 DEF Lists, Raised
    <3>3. p[k] = "upgrade"
      BY <3>2, <2>1, <2>2, <1>1
    <3> QED BY <3>2, <3>3
  <2> QED BY <2>3, <2>4
<1> QED BY <1>1, <1>2, <1>4, <1>5, <1>c DEF Lists, p

LEMMA EnterIs ==
    ASSUME NEW t, NEW i, NEW frames, NEW pos, Enter(t, i, frames, pos)
    PROVE  \/ /\ HardConflict(t, i, FALSE) /\ Fail("conflict")
           \/ /\ tree' = TrimmedConflicts(t, i, FALSE)
              /\ stack' = Append(frames, Frame(i)) /\ index' = pos
              /\ UNCHANGED <<packages, type, selfContained, choices, missing, n, best,
                             phase, result>>
BY DEF Enter

LEMMA FindIs ==
    ASSUME FindDependency
    PROVE  LET c == Min(Usable)
           IN  \/ tree[c] # "available" /\ VerifyStep(SetTop(NextDep), missing \/ Held(c))
               \/ tree[c] = "available" /\ NotFound(c) /\ Fail("internal")
               \/ tree[c] = "available" /\ ~NotFound(c)
                  /\ Enter(Promoted(c), c, SetTop(NextDep), index)
BY DEF FindDependency, Promoted

-----------------------------------------------------------------------------
(* The types, and what upgrades the target.                                *)

LEMMA ListsSame ==
    ASSUME packages' = packages
    PROVE  Lists' = Lists /\ Item' = Item /\ Frames' = Frames
<1>1. Item' = Item /\ \A i \in Item : OnDisk(i)' = OnDisk(i)
  BY DEF Item, OnDisk, Name
<1>2. \A t : Grown(t)' <=> Grown(t)
  BY <1>1 DEF Grown
<1>3. \A t : Raised(t)' <=> Raised(t)
  BY <1>1 DEF Raised, Version
<1> QED BY <1>1, <1>2, <1>3 DEF Lists, Frames

LEMMA TrimmedFewer ==
    ASSUME packages \in World, Trimmed, NEW r, Fewer(type, r), NEW i \in Item
    PROVE  r[i] = packages[i].type \/ (packages[i].type = "available" /\ r[i] = "invalid")
<1>1. packages[i].type # "implicit"
  BY TheList DEF StartTypes
<1>2. type[i] = packages[i].type \/ (packages[i].type = "available" /\ type[i] = "invalid")
  BY DEF Trimmed
<1>3. r[i] = type[i] \/ (type[i] \in {"implicit", "available"} /\ r[i] = "invalid")
  BY DEF Fewer, Soft
<1> QED BY <1>1, <1>2, <1>3

Busy == {"installed", "conflicts", "trim", "tree", "verify"}

LEMMA BaseStep ==
    ASSUME Base, phase \in Busy, packages' = packages, Fewer(type, type'), tree' \in Lists,
           best' = best \/ best' \in Lists,
           selfContained' \in BOOLEAN, choices' \in BOOLEAN, missing' \in BOOLEAN,
           n' \in Nat, phase' \in Busy, index' \in Nat, stack' \in Seq(Frames),
           result' = result
    PROVE  Base'
<1>1. Lists' = Lists /\ Item' = Item /\ Frames' = Frames
  BY ListsSame
<1>2. type' \in Lists
  BY SeenFewer DEF Base
<1>3. best' # <<>> => best' \in Lists
  BY DEF Base
<1>4. Trimmed'
  <2> SUFFICES ASSUME NEW i \in Item
               PROVE  \/ type'[i] = packages[i].type
                      \/ packages[i].type = "available" /\ type'[i] = "invalid"
    BY <1>1 DEF Trimmed
  <2>1. packages \in World /\ Trimmed
    BY DEF Base, Busy
  <2> QED BY <2>1, TrimmedFewer
<1>5. result' = "none" /\ phase' # "done"
  BY DEF Base, Busy
<1>6. TypeOK'
  BY <1>1, <1>2, <1>3, <1>5 DEF TypeOK, Lists, Frames, Busy, Results
<1> QED BY <1>1, <1>2, <1>3, <1>4, <1>5, <1>6 DEF Base

LEMMA BaseFail ==
    ASSUME Base, NEW why \in Errors, Fail(why)
    PROVE  Base'
<1>1. packages' = packages
  BY DEF Fail
<1>2. Lists' = Lists /\ Item' = Item /\ Frames' = Frames
  BY <1>1, ListsSame
<1>3. TypeOK'
  BY <1>2 DEF TypeOK, Fail, Base, Frames, Errors
<1> QED BY <1>2, <1>3 DEF Base, Fail, Errors

LEMMA BaseSelect ==
    ASSUME Base, NEW t \in Lists, Select(t)
    PROVE  Base'
<1>1. packages' = packages
  BY DEF Select
<1>2. Lists' = Lists /\ Item' = Item /\ Frames' = Frames
  BY <1>1, ListsSame
<1>3. TypeOK'
  BY <1>2 DEF TypeOK, Select, Base, Frames, Lists, Results
<1> QED BY <1>2, <1>3 DEF Base, Select

LEMMA BaseInit == Init => Base
<1> SUFFICES ASSUME Init PROVE Base
  OBVIOUS
<1>1. packages \in World /\ type = [i \in Item |-> packages[i].type] /\ tree = type
      /\ best = <<>> /\ phase = "installed" /\ result = "none" /\ stack = <<>>
  BY DEF Init
<1>2. \A i \in Item : packages[i].type \in StartTypes
  BY <1>1, TheList
<1>3. type \in Lists
  <2>1. \A i \in Item : type[i] = packages[i].type /\ type[i] # "implicit"
    BY <1>1, <1>2 DEF StartTypes
  <2>2. type \in [Item -> Types]
    BY <1>1, <1>2 DEF Types
  <2>3. Grown(type)
    BY <2>1 DEF Grown
  <2>4. Raised(type)
    BY <2>1 DEF Raised
  <2> QED BY <2>2, <2>3, <2>4 DEF Lists
<1>4. Trimmed
  BY <1>1 DEF Trimmed
<1>5. TypeOK
  <2>1. selfContained \in BOOLEAN /\ choices \in BOOLEAN /\ missing \in BOOLEAN
    BY DEF Init
  <2>2. n \in Nat /\ index \in Nat
    BY DEF Init
  <2>3. stack \in Seq(Frames)
    BY <1>1
  <2>4. type \in [Item -> Types]
    BY <1>3 DEF Lists
  <2> QED BY <1>1, <2>1, <2>2, <2>3, <2>4 DEF TypeOK, Frames, Results
<1> QED BY <1>1, <1>3, <1>4, <1>5 DEF Base

(* What Base says, in the form the actions need.                           *)
LEMMA Basics ==
    ASSUME Base
    PROVE  /\ packages \in World /\ type \in Lists /\ tree \in Lists /\ best \in Lists \cup {<<>>}
           /\ type \in [Item -> Types] /\ tree \in [Item -> Types]
           /\ stack \in Seq(Frames) /\ index \in Nat /\ n \in Nat
           /\ selfContained \in BOOLEAN /\ choices \in BOOLEAN /\ missing \in BOOLEAN
           /\ Item \subseteq Nat /\ <<>> \in Seq(Frames)
           /\ Fewer(type, type)
<1>1. TypeOK /\ packages \in World
  BY DEF Base
<1>2. stack \in Seq(Frames) /\ index \in Nat /\ n \in Nat /\ type \in [Item -> Types]
      /\ tree \in [Item -> Types]
  BY <1>1 DEF TypeOK, Frames
<1>3. selfContained \in BOOLEAN /\ choices \in BOOLEAN /\ missing \in BOOLEAN
  BY <1>1 DEF TypeOK
<1> QED BY <1>1, <1>2, <1>3, TheList DEF Base, Fewer

(* The least package that meets a condition is one of the list.            *)
LEMMA MinItem ==
    ASSUME packages \in World, NEW T \in SUBSET Item, T # {}
    PROVE  Min(T) \in T /\ Min(T) \in Item /\ \A y \in T : Min(T) <= y
<1>1. T \in SUBSET Nat
  BY TheList
<1> QED BY <1>1, MinIs

LEMMA BaseInstalled ==
    ASSUME Base, ValidateInstalled
    PROVE  Base' /\ Fewer(type, type') /\ packages' = packages
<1> USE Basics
<1>1. /\ phase = "installed" /\ phase' = "conflicts"
      /\ type' = IF selfContained' THEN Alone ELSE type
      /\ UNCHANGED <<packages, choices, tree, missing, n, best, index, stack, result>>
  BY DEF ValidateInstalled
<1>2. selfContained' \in BOOLEAN
  BY Zenon DEF ValidateInstalled
<1>3. Fewer(type, Alone)
  BY DEF Fewer, Alone, Soft, Types, StartTypes
<1>4. Fewer(type, type')
  BY <1>1, <1>3
<1> HIDE Basics
<1>5. packages' = packages /\ tree' = tree /\ best' = best /\ choices' = choices
      /\ missing' = missing /\ n' = n /\ index' = index /\ stack' = stack /\ result' = result
  BY <1>1
<1>6. phase \in Busy /\ phase' \in Busy
  BY <1>1 DEF Busy
<1> QED BY <1>2, <1>4, <1>5, <1>6, BaseStep, Basics

LEMMA BaseConflicts ==
    ASSUME Base, TrimConflicts \/ EndTrimConflicts
    PROVE  Base' /\ Fewer(type, type') /\ packages' = packages
<1>1. CASE TrimConflicts
  <2>1. /\ phase = "conflicts" /\ index \in Item /\ index' = index + 1
        /\ UNCHANGED <<packages, selfContained, choices, tree, missing, n, best, phase,
                       stack, result>>
        /\ \/ type' = type
           \/ type' = TrimmedConflicts(type, index, type[index] # "explicit")
    BY <1>1 DEF TrimConflicts
  <2>2. Fewer(type, type')
    BY <2>1, TrimmedIs, Basics
  <2>3. phase \in Busy /\ phase' \in Busy /\ index' \in Nat
    BY <2>1, Basics DEF Busy
  <2> QED BY <2>1, <2>2, <2>3, BaseStep, Basics
<1>2. CASE EndTrimConflicts
  <2>1. /\ phase = "conflicts" /\ phase' = "trim" /\ index' = 1
        /\ UNCHANGED <<packages, type, selfContained, choices, tree, missing, n, best,
                       stack, result>>
    BY <1>2 DEF EndTrimConflicts
  <2>2. phase \in Busy /\ phase' \in Busy /\ index' \in Nat /\ Fewer(type, type')
    BY <2>1, Basics DEF Busy
  <2> QED BY <2>1, <2>2, BaseStep, Basics
<1> QED BY <1>1, <1>2

(* The steps of trim_available(), in one form.                             *)
TrimForm(newType, newStack, newChoices) ==
    /\ phase = "trim" /\ TrimStep(newType, newStack, newChoices)
    /\ Fewer(type, newType) /\ newStack \in Seq(Frames) /\ newChoices \in BOOLEAN

LEMMA BaseTrimStep ==
    ASSUME Base, NEW t, NEW s, NEW c, TrimForm(t, s, c)
    PROVE  Base' /\ Fewer(type, type') /\ packages' = packages
<1>1. /\ phase = "trim" /\ type' = t /\ stack' = s /\ choices' = c
      /\ Fewer(type, t) /\ s \in Seq(Frames) /\ c \in BOOLEAN
      /\ UNCHANGED <<packages, selfContained, tree, missing, n, best, phase, index, result>>
  BY DEF TrimForm, TrimStep
<1>2. phase \in Busy /\ phase' \in Busy
  BY <1>1 DEF Busy
<1> QED BY <1>1, <1>2, BaseStep, Basics

LEMMA BaseTrimRoot ==
    ASSUME Base, TrimRoot
    PROVE  Base' /\ Fewer(type, type') /\ packages' = packages
<1>1. /\ phase = "trim" /\ index \in Item /\ index' = index + 1
      /\ stack' \in {<<>>, <<Frame(index)>>}
      /\ UNCHANGED <<packages, type, selfContained, choices, tree, missing, n, best,
                     phase, result>>
  BY DEF TrimRoot
<1>2. phase \in Busy /\ phase' \in Busy /\ index' \in Nat
  BY <1>1, Basics DEF Busy
<1>3. Frame(index) \in Frames
  BY <1>1, FramesAre, Basics
<1>4. stack' \in Seq(Frames)
  BY <1>1, <1>3, OneFrame, Basics
<1> QED BY <1>1, <1>2, <1>4, BaseStep, Basics

TrimReturnForm == TrimForm(type, Pop, choices) /\ stack # <<>> /\ Exhausted

LEMMA TrimReturnIs ==
    ASSUME Base, TrimReturn PROVE TrimReturnForm
<1>1. phase = "trim" /\ stack # <<>> /\ Exhausted /\ TrimStep(type, Pop, choices)
  BY DEF TrimReturn, Running
<1> QED BY <1>1, Pops, Basics DEF TrimForm, TrimReturnForm

(* An explicit package is called; the candidates of its name are lost.     *)
Without(name) ==
    [i \in Item |-> IF i \in NameOf(name) /\ type[i] = "available" THEN "invalid" ELSE type[i]]

LEMMA TrimExplicitIs ==
    ASSUME Base, TrimExplicit
    PROVE  \/ \E why \in Errors : Fail(why)
           \/ LET only == Min(Explicit(type) \cap NameOf(Dependency))
              IN  /\ stack # <<>> /\ ~Exhausted
                  /\ only \in Explicit(type) \cap NameOf(Dependency)
                  /\ TrimForm(Without(Dependency), Append(SetTop(NextDep), Frame(only)), choices)
<1> DEFINE given == Explicit(type) \cap NameOf(Dependency)
           only == Min(given)
           t == Without(Dependency)
           s == Append(SetTop(NextDep), Frame(only))
<1>1. /\ phase = "trim" /\ stack # <<>> /\ ~Exhausted /\ given # {}
      /\ \/ Fail("incompatible") \/ Fail("circular") \/ TrimStep(t, s, choices)
  BY DEF TrimExplicit, Running, Without
<1>2. packages \in World /\ given \in SUBSET Item
  BY Basics DEF Explicit
<1>3. only \in given /\ only \in Item
  BY <1>1, <1>2, MinItem
<1>4. Fewer(type, t)
  BY Basics DEF Fewer, Without, Soft, Types, StartTypes
<1>5. s \in Seq(Frames)
  <2>1. Frame(only) \in Frames /\ NextDep \in Frames /\ stack \in Seq(Frames)
    BY <1>1, <1>2, <1>3, FramesAre, Basics
  <2> QED BY <1>1, <2>1, Calls
<1>6. "incompatible" \in Errors /\ "circular" \in Errors
  BY DEF Results, Errors
<1> HIDE DEF given, only, t, s
<1>7. \/ \E why \in Errors : Fail(why)
      \/ stack # <<>> /\ ~Exhausted /\ only \in given /\ TrimForm(t, s, choices)
  BY <1>1, <1>3, <1>4, <1>5, <1>6, Basics DEF TrimForm
<1> QED BY <1>7 DEF given, only, t, s

TrimNextForm(c) ==
    TrimForm(type, SetTop(NextDep), c) /\ stack # <<>> /\ ~Exhausted /\ NoneGiven

LEMMA TrimInstalledIs ==
    ASSUME Base, TrimInstalled PROVE TrimNextForm(choices) /\ Met
<1>1. phase = "trim" /\ stack # <<>> /\ ~Exhausted /\ NoneGiven /\ Met
      /\ TrimStep(type, SetTop(NextDep), choices)
  BY DEF TrimInstalled, Running
<1>2. SetTop(NextDep) \in Seq(Frames)
  BY <1>1, Sets, FramesAre, Basics
<1> QED BY <1>1, <1>2, Basics DEF TrimForm, TrimNextForm

LEMMA TrimCandidatesEndIs ==
    ASSUME Base, TrimCandidatesEnd
    PROVE  \/ \E why \in Errors : Fail(why)
           \/ TrimNextForm(choices \/ Top.count > 1) /\ ~Met /\ Candidates = {}
<1>1. /\ phase = "trim" /\ stack # <<>> /\ ~Exhausted /\ NoneGiven /\ ~Met /\ Candidates = {}
      /\ \/ Fail("unsatisfied") \/ Fail("incompatible")
         \/ TrimStep(type, SetTop(NextDep), choices \/ Top.count > 1)
  BY DEF TrimCandidatesEnd, Running
<1>2. SetTop(NextDep) \in Seq(Frames)
  BY <1>1, Sets, FramesAre, Basics
<1>3. "incompatible" \in Errors /\ "unsatisfied" \in Errors
  BY DEF Results, Errors
<1>4. (choices \/ Top.count > 1) \in BOOLEAN
  OBVIOUS
<1> QED BY <1>1, <1>2, <1>3, <1>4, Basics DEF TrimForm, TrimNextForm

LEMMA TrimCandidateIs ==
    ASSUME Base, TrimCandidate
    PROVE  LET c == Min(Candidates)
               next == [Top EXCEPT !.cand = c + 1]
           IN  \/ \E why \in Errors : Fail(why)
               \/ /\ stack # <<>> /\ ~Exhausted /\ NoneGiven
                  /\ c \in Candidates /\ \A j \in Candidates : c <= j
                  /\ \/ TrimForm([type EXCEPT ![c] = "invalid"], SetTop(next), choices)
                     \/ TrimForm(type, Append(SetTop([next EXCEPT !.count = @ + 1]), Frame(c)),
                                 choices)
<1> DEFINE c == Min(Candidates)
           next == [Top EXCEPT !.cand = c + 1]
           called == [next EXCEPT !.count = @ + 1]
<1>1. /\ phase = "trim" /\ stack # <<>> /\ ~Exhausted /\ NoneGiven /\ Candidates # {}
      /\ \/ TrimStep([type EXCEPT ![c] = "invalid"], SetTop(next), choices)
         \/ Fail("circular")
         \/ TrimStep(type, Append(SetTop(called), Frame(c)), choices)
  BY DEF TrimCandidate, Running
<1>2. packages \in World /\ Candidates \in SUBSET Item
  BY Basics DEF Candidates, NameOf
<1>3. c \in Candidates /\ c \in Item /\ \A j \in Candidates : c <= j
  BY <1>1, <1>2, MinItem
<1>4. type[c] = "available"
  BY <1>3 DEF Candidates
<1>5. Fewer(type, [type EXCEPT ![c] = "invalid"])
  BY <1>3, <1>4, Basics DEF Fewer, Soft, Types, StartTypes
<1>6. next \in Frames /\ called \in Frames
  <2> DEFINE f == Top
             d == c + 1
  <2>1. f \in Frames /\ d \in Nat
    BY <1>1, <1>3, TopIs, Basics
  <2>2. next = [f EXCEPT !.cand = d] /\ called = [[f EXCEPT !.cand = d] EXCEPT !.count = @ + 1]
    OBVIOUS
  <2> HIDE DEF f, d, next, called
  <2>3. [f EXCEPT !.cand = d] \in Frames
    BY <2>1 DEF Frames
  <2> DEFINE g == [f EXCEPT !.cand = d]
  <2> HIDE DEF g
  <2>4. [g EXCEPT !.count = @ + 1] \in Frames
    <3>1. g \in Frames
      BY <2>3 DEF g
    <3> QED BY <3>1 DEF Frames
  <2> QED BY <2>2, <2>3, <2>4 DEF g
<1>7. Frame(c) \in Frames
  BY <1>2, <1>3, FramesAre
<1> HIDE DEF c, next, called
<1>8. SetTop(next) \in Seq(Frames)
  BY <1>1, <1>6, Sets, Basics
<1>9. Append(SetTop(called), Frame(c)) \in Seq(Frames)
  BY <1>1, <1>6, <1>7, Calls, Basics
<1>10. "circular" \in Errors
  BY DEF Results, Errors
<1>11. \/ \E why \in Errors : Fail(why)
       \/ TrimForm([type EXCEPT ![c] = "invalid"], SetTop(next), choices)
       \/ TrimForm(type, Append(SetTop(called), Frame(c)), choices)
  BY <1>1, <1>5, <1>8, <1>9, <1>10, Basics DEF TrimForm
<1> QED BY <1>1, <1>3, <1>11 DEF c, next, called

LEMMA BaseTrim ==
    ASSUME Base, TrimReturn \/ TrimExplicit \/ TrimInstalled \/ TrimCandidate \/ TrimCandidatesEnd
    PROVE  Base'
<1>1. ASSUME NEW why \in Errors, Fail(why) PROVE Base'
  BY <1>1, BaseFail
<1>2. ASSUME NEW t, NEW s, NEW c, TrimForm(t, s, c) PROVE Base'
  BY <1>2, BaseTrimStep
<1>3. CASE TrimReturn
  BY <1>2, <1>3, TrimReturnIs DEF TrimReturnForm
<1>4. CASE TrimExplicit
  BY <1>1, <1>2, <1>4, TrimExplicitIs
<1>5. CASE TrimInstalled
  BY <1>2, <1>5, TrimInstalledIs DEF TrimNextForm
<1>6. CASE TrimCandidate
  BY <1>1, <1>2, <1>6, TrimCandidateIs
<1>7. CASE TrimCandidatesEnd
  BY <1>1, <1>2, <1>7, TrimCandidatesEndIs DEF TrimNextForm
<1> QED BY <1>3, <1>4, <1>5, <1>6, <1>7

LEMMA BaseEndTrim ==
    ASSUME Base, EndTrim
    PROVE  Base'
<1>1. phase = "trim" /\ (selfContained \in BOOLEAN) /\ (choices \in BOOLEAN)
  BY Basics DEF EndTrim
<1>2. \/ Select(type)
      \/ /\ phase' \in {"tree", "verify"} /\ tree' = type /\ index' = 1
         /\ UNCHANGED <<packages, type, selfContained, choices, missing, n, best, stack, result>>
  BY DEF EndTrim
<1>3. CASE Select(type)
  BY <1>3, BaseSelect, Basics
<1>4. CASE /\ phase' \in {"tree", "verify"} /\ tree' = type /\ index' = 1
           /\ UNCHANGED <<packages, type, selfContained, choices, missing, n, best, stack, result>>
  <2>1. phase \in Busy /\ phase' \in Busy /\ index' \in Nat
    BY <1>1, <1>4 DEF Busy
  <2> QED BY <1>4, <2>1, BaseStep, Basics
<1> QED BY <1>2, <1>3, <1>4

(* A tree of the generator is the list without some of the candidates.     *)
LEMMA TreeIs ==
    ASSUME Base, NEW k
    PROVE  Fewer(type, Tree(k))
<1> DEFINE lost == {j \in Item : \E g \in Groups : j \in Options(g) \ {Chosen(g, k)}}
<1>1. Tree(k) = [j \in Item |-> IF j \in lost THEN "invalid" ELSE type[j]]
  BY DEF Tree
<1>2. \A j \in lost : type[j] = "available"
  BY DEF Options
<1> HIDE DEF lost
<1> QED BY <1>1, <1>2, Basics DEF Fewer, Soft, Types, StartTypes

LEMMA EndTreesIs ==
    ASSUME EndTrees
    PROVE  /\ phase = "tree"
           /\ \/ \E why \in Errors : Fail(why)
              \/ best # <<>> /\ Select(best)
<1>1. phase = "tree" /\ (Fail("missing") \/ (best # <<>> /\ Select(best)))
  BY DEF EndTrees
<1>2. "missing" \in Errors
  BY DEF Results, Errors
<1> QED BY <1>1, <1>2

LEMMA BaseTree ==
    ASSUME Base, NextTree \/ EndTrees
    PROVE  Base'
<1>1. CASE NextTree
  <2>1. /\ phase = "tree" /\ tree' = Tree(n) /\ n' = n + 1 /\ missing' = FALSE
        /\ phase' = "verify" /\ index' = 1
        /\ UNCHANGED <<packages, type, selfContained, choices, best, stack, result>>
    BY <1>1 DEF NextTree
  <2>2. tree' \in Lists
    BY <2>1, TreeIs, SeenFewer, Basics
  <2>3. phase \in Busy /\ phase' \in Busy /\ index' \in Nat /\ n' \in Nat
    BY <2>1, Basics DEF Busy
  <2>4. missing' \in BOOLEAN
    BY <2>1
  <2>5. Fewer(type, type')
    BY <2>1, Basics
  <2> QED BY <2>1, <2>2, <2>3, <2>4, <2>5, BaseStep, Basics
<1>2. CASE EndTrees
  BY <1>2, EndTreesIs, BaseFail, BaseSelect, Basics
<1> QED BY <1>1, <1>2

(* The steps of find_dependencies(), in one form: it returns, goes on to   *)
(* the next dependency, or enters an explicit or implicit package.         *)
EnterForm(t, i, frames, pos) ==
    /\ phase = "verify" /\ ~HardConflict(t, i, FALSE)
    /\ tree' = TrimmedConflicts(t, i, FALSE)
    /\ stack' = Append(frames, Frame(i)) /\ index' = pos
    /\ UNCHANGED <<packages, type, selfContained, choices, missing, n, best, phase, result>>

LEMMA BaseEnter ==
    ASSUME Base, NEW t \in Lists, NEW i \in Item, NEW frames, NEW pos \in Nat,
           Append(frames, Frame(i)) \in Seq(Frames), EnterForm(t, i, frames, pos)
    PROVE  Base'
<1>1. tree' \in Lists
  <2>1. Fewer(t, TrimmedConflicts(t, i, FALSE))
    BY TrimmedIs DEF Lists
  <2> QED BY <2>1, SeenFewer, Basics DEF EnterForm
<1>2. phase \in Busy /\ phase' \in Busy
  BY DEF EnterForm, Busy
<1>3. /\ packages' = packages /\ type' = type /\ selfContained' = selfContained
      /\ choices' = choices /\ missing' = missing /\ n' = n /\ best' = best /\ result' = result
      /\ stack' \in Seq(Frames) /\ index' \in Nat
  BY DEF EnterForm
<1> QED BY <1>1, <1>2, <1>3, BaseStep, Basics

LEMMA VerifyRootIs ==
    ASSUME Base, VerifyRoot
    PROVE  LET i == Min(NextExplicit)
           IN  \/ Fail("conflict")
               \/ /\ stack = <<>> /\ i \in Item /\ tree[i] = "explicit" /\ index <= i
                  /\ \A j \in NextExplicit : i <= j
                  /\ Append(<<>>, Frame(i)) \in Seq(Frames)
                  /\ EnterForm(tree, i, <<>>, i + 1)
<1> DEFINE i == Min(NextExplicit)
<1>1. phase = "verify" /\ stack = <<>> /\ NextExplicit # {} /\ Enter(tree, i, <<>>, i + 1)
  BY DEF VerifyRoot
<1>2. packages \in World /\ NextExplicit \in SUBSET Item
  BY Basics DEF NextExplicit, Explicit
<1>3. i \in NextExplicit /\ i \in Item /\ \A j \in NextExplicit : i <= j
  BY <1>1, <1>2, MinItem
<1> HIDE DEF i
<1>4. tree[i] = "explicit" /\ index <= i
  BY <1>3, <1>2, TheList, Basics DEF NextExplicit, Explicit
<1>5. Append(<<>>, Frame(i)) \in Seq(Frames)
  BY <1>2, <1>3, FramesAre
<1>6. Fail("conflict") \/ EnterForm(tree, i, <<>>, i + 1)
  BY <1>1 DEF Enter, EnterForm
<1> QED BY <1>1, <1>3, <1>4, <1>5, <1>6 DEF i

LEMMA FindDependencyIs ==
    ASSUME Base, FindDependency
    PROVE  LET c == Min(Usable)
               frames == SetTop(NextDep)
           IN  \/ \E why \in Errors : Fail(why)
               \/ /\ phase = "verify" /\ stack # <<>> /\ ~Exhausted
                  /\ c \in Usable /\ c \in Item /\ frames \in Seq(Frames)
                  /\ \/ /\ tree[c] # "available" /\ missing' \in BOOLEAN
                        /\ VerifyStep(frames, missing \/ Held(c))
                     \/ /\ tree[c] = "available" /\ MayUpgrade(c) /\ ~NotFound(c)
                        /\ Append(frames, Frame(c)) \in Seq(Frames)
                        /\ EnterForm(Promoted(c), c, frames, index)
<1> DEFINE c == Min(Usable)
           frames == SetTop(NextDep)
<1>1. /\ phase = "verify" /\ stack # <<>> /\ ~Exhausted /\ Usable # {}
      /\ \/ tree[c] # "available" /\ VerifyStep(frames, missing \/ Held(c))
         \/ tree[c] = "available" /\ NotFound(c) /\ Fail("internal")
         \/ tree[c] = "available" /\ ~NotFound(c) /\ Enter(Promoted(c), c, frames, index)
  BY FindIs DEF FindDependency, Running
<1>2. packages \in World /\ Usable \in SUBSET Item
  BY Basics DEF Usable, NameOf
<1>3. c \in Usable /\ c \in Item
  BY <1>1, <1>2, MinItem
<1> HIDE DEF c
<1>4. tree[c] = "available" => MayUpgrade(c)
  BY <1>3 DEF Usable
<1>5. frames \in Seq(Frames) /\ Append(frames, Frame(c)) \in Seq(Frames)
  <2>1. Frame(c) \in Frames /\ NextDep \in Frames /\ stack \in Seq(Frames)
    BY <1>1, <1>2, <1>3, FramesAre, Basics
  <2> QED BY <1>1, <2>1, Sets, Calls
<1>6. "internal" \in Errors /\ "conflict" \in Errors
  BY DEF Results, Errors
<1> HIDE DEF frames
<1>7. CASE tree[c] # "available" /\ VerifyStep(frames, missing \/ Held(c))
  <2>1. missing' \in BOOLEAN
    BY <1>7 DEF VerifyStep
  <2> QED BY <1>1, <1>3, <1>5, <1>7, <2>1 DEF c, frames
<1>8. CASE tree[c] = "available" /\ NotFound(c) /\ Fail("internal")
  BY <1>6, <1>8
<1>9. CASE tree[c] = "available" /\ ~NotFound(c) /\ Enter(Promoted(c), c, frames, index)
  <2>1. Fail("conflict") \/ EnterForm(Promoted(c), c, frames, index)
    BY <1>1, <1>9 DEF Enter, EnterForm
  <2> QED BY <1>1, <1>3, <1>4, <1>5, <1>6, <1>9, <2>1 DEF c, frames
<1> QED BY <1>1, <1>7, <1>8, <1>9

LEMMA BaseVerifyStep ==
    ASSUME Base, phase = "verify", NEW s \in Seq(Frames), NEW m, missing' \in BOOLEAN,
           VerifyStep(s, m)
    PROVE  Base'
<1>1. phase \in Busy /\ phase' \in Busy
  BY DEF VerifyStep, Busy
<1>2. /\ packages' = packages /\ type' = type /\ selfContained' = selfContained /\ tree' = tree
      /\ choices' = choices /\ n' = n /\ best' = best /\ result' = result
      /\ stack' \in Seq(Frames) /\ index' = index
  BY DEF VerifyStep
<1> QED BY <1>1, <1>2, BaseStep, Basics

LEMMA VerifyReturnIs ==
    ASSUME Base, VerifyReturn
    PROVE  /\ phase = "verify" /\ stack # <<>> /\ Exhausted /\ Pop \in Seq(Frames)
           /\ VerifyStep(Pop, missing) /\ missing' \in BOOLEAN
<1>1. phase = "verify" /\ stack # <<>> /\ Exhausted /\ VerifyStep(Pop, missing)
  BY DEF VerifyReturn, Running
<1> QED BY <1>1, Pops, Basics DEF VerifyStep

LEMMA DependencyMissingIs ==
    ASSUME Base, DependencyMissing
    PROVE  /\ phase = "verify" /\ stack # <<>> /\ ~Exhausted /\ Usable = {}
           /\ SetTop(NextDep) \in Seq(Frames) /\ missing' \in BOOLEAN
           /\ VerifyStep(SetTop(NextDep), missing \/ Unpacked = {})
<1>1. /\ phase = "verify" /\ stack # <<>> /\ ~Exhausted /\ Usable = {}
      /\ VerifyStep(SetTop(NextDep), missing \/ Unpacked = {})
  BY DEF DependencyMissing, Running
<1>2. missing' \in BOOLEAN
  BY <1>1 DEF VerifyStep
<1> QED BY <1>1, <1>2, Sets, FramesAre, Basics

LEMMA BaseFind ==
    ASSUME Base, VerifyRoot \/ VerifyReturn \/ FindDependency \/ DependencyMissing
    PROVE  Base'
<1>1. CASE VerifyRoot
  <2> DEFINE i == Min(NextExplicit)
  <2>1. CASE Fail("conflict")
    BY <2>1, BaseFail DEF Results, Errors
  <2>2. CASE /\ i \in Item /\ Append(<<>>, Frame(i)) \in Seq(Frames)
             /\ EnterForm(tree, i, <<>>, i + 1)
    <3>1. i + 1 \in Nat
      BY <2>2, Basics
    <3> QED BY <2>2, <3>1, BaseEnter, Basics
  <2> QED BY <1>1, <2>1, <2>2, VerifyRootIs
<1>2. CASE VerifyReturn
  BY <1>2, VerifyReturnIs, BaseVerifyStep
<1>3. CASE FindDependency
  <2> DEFINE c == Min(Usable)
             frames == SetTop(NextDep)
  <2>1. CASE \E why \in Errors : Fail(why)
    BY <2>1, BaseFail
  <2>2. CASE /\ phase = "verify" /\ frames \in Seq(Frames) /\ missing' \in BOOLEAN
             /\ VerifyStep(frames, missing \/ Held(c))
    BY <2>2, BaseVerifyStep
  <2>3. CASE /\ c \in Item /\ tree[c] = "available" /\ MayUpgrade(c) /\ ~NotFound(c)
             /\ Append(frames, Frame(c)) \in Seq(Frames)
             /\ EnterForm(Promoted(c), c, frames, index)
    <3>1. Promoted(c) \in Lists
      BY <2>3, SeenPromoted, Basics
    <3> QED BY <2>3, <3>1, BaseEnter, Basics
  <2> QED BY <1>3, <2>1, <2>2, <2>3, FindDependencyIs
<1>4. CASE DependencyMissing
  BY <1>4, DependencyMissingIs, BaseVerifyStep
<1> QED BY <1>1, <1>2, <1>3, <1>4

(* What a verified tree leads to.                                          *)
KeepForm == phase = "verify" /\ best' \in {tree, best} /\ (best' = tree => ~missing \/ tree = best)
    /\ phase' = "tree"
    /\ UNCHANGED <<packages, type, selfContained, choices, tree, missing, n, index, stack, result>>

LEMMA VerifiedIs ==
    ASSUME Base, VerifiedOnly \/ VerifiedTree
    PROVE  /\ Verified
           /\ \/ \E why \in Errors : Fail(why)
              \/ Select(tree) /\ ~missing
              \/ KeepForm
<1>1. "missing" \in Errors /\ "similar" \in Errors
  BY DEF Results, Errors
<1>2. CASE VerifiedOnly
  BY <1>1, <1>2 DEF VerifiedOnly
<1>3. CASE VerifiedTree
  <2>1. Verified /\ phase = "verify"
    BY <1>3 DEF VerifiedTree, Verified
  <2>2. Fail("similar") \/ KeepBest(best) \/ (~missing /\ KeepBest(tree))
    <3> DEFINE b == IF Better(tree, best) THEN tree ELSE best
    <3>1. b = tree \/ b = best
      OBVIOUS
    <3>2. /\ missing => KeepBest(best)
          /\ ~missing => Fail("similar") \/ KeepBest(best) \/ KeepBest(tree) \/ KeepBest(b)
      <4> HIDE DEF b
      <4>1. missing => KeepBest(best)
        BY <1>3 DEF VerifiedTree
      <4>2. ~missing => IF best = <<>> THEN KeepBest(tree)
                        ELSE IF Identical(tree, best) THEN KeepBest(best)
                        ELSE IF Similar(tree, best) THEN Fail("similar")
                        ELSE KeepBest(b)
        BY <1>3 DEF VerifiedTree, b
      <4> QED BY <4>1, <4>2
    <3> HIDE DEF b
    <3>3. KeepBest(b) => KeepBest(tree) \/ KeepBest(best)
      BY <3>1 DEF KeepBest
    <3> QED BY <3>2, <3>3, Zenon
  <2> QED BY <1>1, <2>1, <2>2 DEF KeepBest, KeepForm
<1> QED BY <1>2, <1>3

LEMMA BaseVerified ==
    ASSUME Base, VerifiedOnly \/ VerifiedTree
    PROVE  Base'
<1>1. ASSUME NEW why \in Errors, Fail(why) PROVE Base'
  BY <1>1, BaseFail
<1>2. CASE Select(tree)
  BY <1>2, BaseSelect, Basics
<1>3. CASE KeepForm
  <2>1. phase \in Busy /\ phase' \in Busy
    BY <1>3 DEF KeepForm, Busy
  <2>2. best' = best \/ best' \in Lists
    BY <1>3, Basics DEF KeepForm
  <2> QED BY <1>3, <2>1, <2>2, BaseStep, Basics DEF KeepForm
<1> QED BY <1>1, <1>2, <1>3, VerifiedIs

LEMMA BaseSame == ASSUME Base, UNCHANGED vars PROVE Base'
<1>1. packages' = packages /\ Lists' = Lists /\ Item' = Item
  BY ListsSame DEF vars
<1>2. TypeOK' = TypeOK
  BY <1>1 DEF TypeOK, vars
<1>3. Trimmed' = Trimmed
  BY <1>1 DEF Trimmed, vars
<1> QED BY <1>1, <1>2, <1>3 DEF Base, vars

LEMMA BaseNext == Base /\ [Next]_vars => Base'
<1> SUFFICES ASSUME Base, [Next]_vars PROVE Base'
  OBVIOUS
<1>1. CASE ValidateInstalledFails \/ TrimConflictsFails
  BY <1>1, BaseFail DEF ValidateInstalledFails, TrimConflictsFails, Results, Errors
<1> QED BY <1>1, BaseInstalled, BaseConflicts, BaseTrimRoot, BaseTrim, BaseEndTrim, BaseTree,
           BaseFind, BaseVerified, BaseSame DEF Next

LEMMA BaseAlways == Spec => []Base
<1>1. Init => Base
  BY BaseInit
<1>2. Base /\ [Next]_vars => Base'
  BY BaseNext
<1> QED BY <1>1, <1>2, PTL DEF Spec

(* Every variable keeps its type; in particular the list of packages never *)
(* gets a type the code has no case for, and the recursive functions are   *)
(* only called for a package of the list.                                  *)
THEOREM TypeCorrect == Spec => []TypeOK
<1>1. Base => TypeOK
  BY DEF Base
<1> QED BY <1>1, BaseAlways, PTL

(* Whatever the repositories offer, a package of the target is upgraded as *)
(* a dependency to a higher version only, and not when it is on hold.      *)
THEOREM NoneForced == Spec => []NoForcedUpgrade
<1>1. Base => NoForcedUpgrade
  <2> SUFFICES ASSUME Base PROVE NoForcedUpgrade
    OBVIOUS
  <2>1. Raised(type)
    BY Basics DEF Lists
  <2> QED BY <2>1 DEF NoForcedUpgrade, Raised, Installs
<1> QED BY <1>1, BaseAlways, PTL

-----------------------------------------------------------------------------
(* One version of each: what the trimming leaves.                          *)

LEMMA SameWorld ==
    ASSUME packages' = packages
    PROVE  /\ Item' = Item /\ Frames' = Frames /\ Lists' = Lists /\ Singles' = Singles
           /\ Given' = Given /\ Offers' = Offers /\ Renewals' = Renewals /\ Sparse' = Sparse
           /\ GivenOnce' = GivenOnce /\ SelfReliant' = SelfReliant
           /\ \A i : OnDisk(i)' = OnDisk(i) /\ DependsOf(i)' = DependsOf(i) /\ Name(i)' = Name(i)
           /\ \A d : NameOf(d)' = NameOf(d)
<1>1. Item' = Item
  BY DEF Item
<1>2. \A i : OnDisk(i)' = OnDisk(i) /\ DependsOf(i)' = DependsOf(i) /\ Name(i)' = Name(i)
  BY <1>1 DEF OnDisk, DependsOf, Name
<1>3. \A d : NameOf(d)' = NameOf(d)
  BY <1>1, <1>2 DEF NameOf
<1>4. Given' = Given /\ Offers' = Offers
  BY <1>1 DEF Given, Offers
<1>5. Renewals' = Renewals
  BY <1>2, <1>4 DEF Renewals
<1>6. Singles' = Singles /\ Sparse' = Sparse
  BY <1>1, <1>2 DEF Singles, Sparse
<1>7. GivenOnce' = GivenOnce
  BY <1>1, <1>2 DEF GivenOnce
<1>8. SelfReliant' = SelfReliant
  BY <1>2, <1>3, <1>4 DEF SelfReliant
<1> QED BY <1>1, <1>2, <1>3, <1>4, <1>5, <1>6, <1>7, <1>8, ListsSame

LEMMA GivenIs ==
    ASSUME Base
    PROVE  /\ Given \subseteq Item /\ Explicit(tree) = Given /\ Explicit(type) = Given
           /\ \A i \in Item : tree[i] = "explicit" <=> i \in Given
           /\ \A i \in Item : type[i] = "explicit" <=> i \in Given
<1>1. ASSUME NEW t \in Lists, NEW i \in Item PROVE t[i] = "explicit" <=> i \in Given
  <2>1. Grown(t)
    BY <1>1 DEF Lists
  <2>2. \/ t[i] = packages[i].type
        \/ packages[i].type = "available" /\ t[i] \in {"implicit", "invalid"}
        \/ packages[i].type = "installed" /\ t[i] = "upgrade"
    BY <1>1, <2>1 DEF Grown
  <2> QED BY <2>2 DEF Given
<1>2. /\ \A i \in Item : tree[i] = "explicit" <=> i \in Given
      /\ \A i \in Item : type[i] = "explicit" <=> i \in Given
  BY <1>1, Basics
<1> QED BY <1>2 DEF Given, Explicit

(* What the target has of a name, before a tree is selected.               *)
LEMMA PresentIs ==
    ASSUME Base, phase \in Busy, NEW j \in Item, NEW d, Name(j) = d.name
    PROVE  {k \in NameOf(d) : type[k] \in {"installed", "unpacked", "upgrade"}} = OnDisk(j)
<1>1. Trimmed
  BY DEF Base, Busy
<1>2. \A k \in Item : type[k] \in OnTarget <=> packages[k].type \in OnTarget
  BY <1>1 DEF Trimmed, OnTarget
<1> QED BY <1>2 DEF OnDisk, NameOf, OnTarget

(* A loss of candidates and a step further keep what is settled.           *)
Forward(E, F) ==
    /\ packages' = packages /\ Fewer(type, type') /\ (choices => choices')
    /\ E \subseteq F /\ F \subseteq Item

LEMMA LessRest ==
    ASSUME NEW E, NEW F, Forward(E, F), NEW i, NEW k
    PROVE  Rest(i, k)' \subseteq Rest(i, k)
<1>1. DependsOf(i)' = DependsOf(i) /\ \A d : NameOf(d)' = NameOf(d)
  BY SameWorld DEF Forward
<1>2. \A j \in Item : type'[j] = "available" => type[j] = "available"
  BY DEF Forward, Fewer
<1>3. \A d : NameOf(d) \subseteq Item
  BY DEF NameOf
<1> QED BY <1>1, <1>2, <1>3 DEF Rest

LEMMA SettledKeeps ==
    ASSUME NEW E, NEW F, Forward(E, F), NEW i, NEW k, Settled(E, i, k)
    PROVE  Settled(F, i, k)'
<1>1. Rest(i, k)' \subseteq Rest(i, k)
  BY LessRest
<1>2. /\ packages' = packages /\ DependsOf(i)' = DependsOf(i) /\ Given' = Given
      /\ \A d : NameOf(d)' = NameOf(d)
      /\ \A j : OnDisk(j)' = OnDisk(j)
  BY SameWorld DEF Forward
<1>3. (choices => choices') /\ E \subseteq F
  BY DEF Forward
<1> SUFFICES ASSUME NEW j \in Rest(i, k)'
             PROVE  /\ Given \cap NameOf(DependsOf(i)[k]) = {}
                    /\ OnDisk(j) # {} \/ (j \in F /\ (choices' \/ Unique(j, Rest(i, k)')))
  BY <1>2 DEF Settled, Unique
<1>4. j \in Rest(i, k)
  BY <1>1
<1>5. /\ Given \cap NameOf(DependsOf(i)[k]) = {}
      /\ OnDisk(j) # {} \/ (j \in E /\ (choices \/ Unique(j, Rest(i, k))))
  BY <1>4 DEF Settled
<1>6. Unique(j, Rest(i, k)) => Unique(j, Rest(i, k)')
  BY <1>1 DEF Unique
<1> QED BY <1>3, <1>5, <1>6

LEMMA ProgressKeeps ==
    ASSUME NEW E, NEW F, Forward(E, F), NEW f \in InProgress(E)
    PROVE  f \in InProgress(F)'
<1>1. Passed(f)' \subseteq Passed(f)
  BY LessRest DEF Passed
<1>2. /\ DependsOf(f.item)' = DependsOf(f.item) /\ Given' = Given
      /\ \A d : NameOf(d)' = NameOf(d)
      /\ \A j : OnDisk(j)' = OnDisk(j)
  BY SameWorld DEF Forward
<1>3. E \subseteq F
  BY DEF Forward
<1>4. f.item \in F
  BY <1>3 DEF InProgress
<1>5. ASSUME f.dep \in DOMAIN DependsOf(f.item), NEW j \in Passed(f)'
      PROVE  /\ Given \cap NameOf(DependsOf(f.item)[f.dep]) = {}
             /\ OnDisk(j) # {}
                \/ (j \in F /\ f.count # 0 /\ (f.count = 1 => Unique(j, Passed(f)')))
  <2>1. j \in Passed(f)
    BY <1>1, <1>5
  <2>2. /\ Given \cap NameOf(DependsOf(f.item)[f.dep]) = {}
        /\ OnDisk(j) # {}
           \/ (j \in E /\ f.count # 0 /\ (f.count = 1 => Unique(j, Passed(f))))
    BY <1>5, <2>1 DEF InProgress
  <2>3. Unique(j, Passed(f)) => Unique(j, Passed(f)')
    BY <1>1 DEF Unique
  <2> QED BY <1>3, <2>2, <2>3
<1>6. f \in Frames'
  BY SameWorld DEF Forward, InProgress
<1> QED BY <1>2, <1>4, <1>5, <1>6 DEF InProgress, Unique

(* A frame that begins a dependency has passed no candidate.               *)
LEMMA Begins ==
    ASSUME packages \in World, packages' = packages, NEW F, NEW f \in Frames, f.cand = 1, f.item \in F
    PROVE  f \in InProgress(F)'
<1>1. \A d : NameOf(d) \subseteq Item /\ NameOf(d)' = NameOf(d)
  BY SameWorld DEF NameOf
<1>2. \A j \in Item : ~(j < 1)
  BY TheList
<1>3. Passed(f)' = {}
  BY <1>1, <1>2 DEF Passed, Rest
<1>4. f \in Frames'
  BY SameWorld
<1> QED BY <1>3, <1>4 DEF InProgress

(* What is pending for frames but the last one stays so.                   *)
LEMMA TrimReturns ==
    ASSUME Base, NEW E \in SUBSET Item, Trimming(E), TrimReturnForm
    PROVE  Trimming(E)'
<1>1. /\ packages' = packages /\ type' = type /\ stack' = Pop /\ choices' = choices
      /\ index' = index /\ stack # <<>> /\ Exhausted /\ Fewer(type, type')
  BY DEF TrimReturnForm, TrimForm, TrimStep
<1>2. Forward(E, E)
  BY <1>1 DEF Forward
<1>3. /\ Len(stack) \in Nat \ {0} /\ DOMAIN stack = 1..Len(stack) /\ Top = stack[Len(stack)]
      /\ DOMAIN stack' = 1..(Len(stack) - 1)
      /\ \A m \in 1..(Len(stack) - 1) : stack'[m] = stack[m]
  BY <1>1, TopIs, Pops, Basics
<1>4. \A m \in DOMAIN stack' : stack'[m] \in InProgress(E)'
  <2> SUFFICES ASSUME NEW m \in DOMAIN stack' PROVE stack'[m] \in InProgress(E)'
    OBVIOUS
  <2>1. stack'[m] = stack[m] /\ m \in DOMAIN stack
    BY <1>3
  <2>2. stack[m] \in InProgress(E)
    BY <2>1 DEF Trimming
  <2> QED BY <1>2, <2>1, <2>2, ProgressKeeps
<1>5. ASSUME NEW i \in E, NEW k \in DOMAIN DependsOf(i)
      PROVE  Settled(E, i, k)' \/ Pending(i, k)'
  <2>1. Settled(E, i, k) => Settled(E, i, k)'
    BY <1>2, SettledKeeps
  <2>2. ASSUME Pending(i, k) PROVE Pending(i, k)'
    <3>1. PICK m \in DOMAIN stack : stack[m].item = i /\ stack[m].dep <= k
      BY <2>2 DEF Pending
    <3>2. DOMAIN DependsOf(i) = 1..Len(DependsOf(i)) /\ Len(DependsOf(i)) \in Nat
      BY TheList, Basics
    <3>3. m # Len(stack)
      BY <1>1, <1>3, <3>1, <3>2, TopIs, Basics DEF Exhausted
    <3>4. m \in DOMAIN stack' /\ stack'[m] = stack[m]
      BY <1>3, <3>1, <3>3
    <3> QED BY <3>1, <3>4 DEF Pending
  <2> QED BY <2>1, <2>2 DEF Trimming
<1>6. Given' = Given /\ \A i : DependsOf(i)' = DependsOf(i)
  BY <1>1, SameWorld
<1> QED BY <1>1, <1>4, <1>5, <1>6 DEF Trimming

(* The last frame goes on to f, and c is called or not.                    *)
LEMMA TrimGoesOn ==
    ASSUME Base, NEW E \in SUBSET Item, Trimming(E), stack # <<>>, index' = index,
           NEW F \in SUBSET Item, Forward(E, F), NEW f \in InProgress(F)',
           NEW u, NEW d, u = Top.item, d = Top.dep, f.item = u, f.dep \in {d, d + 1},
           f.dep = d + 1 => Settled(F, u, d)',
           NEW c \in Item,
           \/ stack' = SetTop(f) /\ F = E
           \/ stack' = Append(SetTop(f), Frame(c)) /\ F = E \cup {c}
    PROVE  Trimming(F)'
<1>1. /\ Len(stack) \in Nat \ {0} /\ DOMAIN stack = 1..Len(stack) /\ Top = stack[Len(stack)]
      /\ d \in Nat /\ packages \in World /\ stack \in Seq(Frames)
  BY TopIs, Basics
<1>2. packages' = packages /\ Frames' = Frames /\ f \in Frames /\ Frame(c) \in Frames
      /\ Frame(c).item = c /\ Frame(c).dep = 1 /\ Frame(c).cand = 1
  BY <1>1, FramesAre, SameWorld DEF Forward, InProgress
<1>3. /\ Len(stack) \in DOMAIN stack' /\ stack'[Len(stack)] = f
      /\ \A m \in 1..(Len(stack) - 1) : m \in DOMAIN stack' /\ stack'[m] = stack[m]
      /\ \A m \in DOMAIN stack' : \/ m \in 1..(Len(stack) - 1) \/ m = Len(stack)
                                  \/ m = Len(stack) + 1 /\ stack'[m] = Frame(c) /\ c \in F
      /\ c \in F \ E => Len(stack) + 1 \in DOMAIN stack' /\ stack'[Len(stack) + 1] = Frame(c)
  <2>1. CASE stack' = SetTop(f) /\ F = E
    BY <1>1, <1>2, <2>1, Sets
  <2>2. CASE stack' = Append(SetTop(f), Frame(c)) /\ F = E \cup {c}
    <3>1. /\ DOMAIN stack' = 1..(Len(stack) + 1) /\ stack'[Len(stack)] = f
          /\ stack'[Len(stack) + 1] = Frame(c)
          /\ \A m \in 1..(Len(stack) - 1) : stack'[m] = stack[m]
      <4> DEFINE s == Append(SetTop(f), Frame(c))
      <4>1. /\ DOMAIN s = 1..(Len(stack) + 1) /\ s[Len(stack)] = f
            /\ s[Len(stack) + 1] = Frame(c)
            /\ \A m \in 1..(Len(stack) - 1) : s[m] = stack[m]
        BY <1>1, <1>2, Calls
      <4>2. stack' = s
        BY <2>2
      <4> HIDE DEF s
      <4> QED BY <4>1, <4>2
    <3>2. c \in F
      BY <2>2
    <3> QED BY <1>1, <3>1, <3>2
  <2> QED BY <2>1, <2>2
<1>4. \A m \in DOMAIN stack' : stack'[m] \in InProgress(F)'
  <2> SUFFICES ASSUME NEW m \in DOMAIN stack' PROVE stack'[m] \in InProgress(F)'
    OBVIOUS
  <2>1. CASE m \in 1..(Len(stack) - 1)
    <3>1. stack[m] \in InProgress(E) /\ stack'[m] = stack[m]
      BY <1>1, <1>3, <2>1 DEF Trimming
    <3> QED BY <3>1, ProgressKeeps
  <2>2. CASE m = Len(stack)
    BY <1>3, <2>2
  <2>3. CASE stack'[m] = Frame(c) /\ c \in F
    BY <1>1, <1>2, <2>3, Begins
  <2> QED BY <1>3, <2>1, <2>2, <2>3
<1>5. ASSUME NEW i \in F, NEW k \in DOMAIN DependsOf(i)
      PROVE  Settled(F, i, k)' \/ Pending(i, k)'
  <2>0. DOMAIN DependsOf(i) = 1..Len(DependsOf(i)) /\ Len(DependsOf(i)) \in Nat
    BY <1>1, TheList
  <2>1. CASE i \in E
    <3>1. Settled(E, i, k) => Settled(F, i, k)'
      BY SettledKeeps
    <3>2. ASSUME Pending(i, k) PROVE Settled(F, i, k)' \/ Pending(i, k)'
      <4>1. PICK m \in DOMAIN stack : stack[m].item = i /\ stack[m].dep <= k
        BY <3>2 DEF Pending
      <4>2. CASE m # Len(stack)
        <5>1. m \in DOMAIN stack' /\ stack'[m] = stack[m]
          BY <1>1, <1>3, <4>1, <4>2
        <5> QED BY <4>1, <5>1 DEF Pending
      <4>3. CASE m = Len(stack)
        <5>1. i = u /\ d <= k /\ k \in Nat
          BY <1>1, <2>0, <4>1, <4>3
        <5>2. CASE f.dep <= k
          BY <1>3, <5>1, <5>2 DEF Pending
        <5>3. CASE ~(f.dep <= k)
          <6>1. f.dep = d + 1 /\ k = d
            BY <1>1, <5>1, <5>3
          <6> QED BY <5>1, <6>1
        <5> QED BY <5>2, <5>3
      <4> QED BY <4>2, <4>3
    <3> QED BY <2>1, <3>1, <3>2 DEF Trimming
  <2>2. CASE i \notin E
    <3>1. i = c /\ c \in F \ E /\ 1 <= k
      BY <2>0, <2>2
    <3> QED BY <1>2, <1>3, <3>1 DEF Pending
  <2> QED BY <2>1, <2>2
<1>6. Given' = Given /\ \A i : DependsOf(i)' = DependsOf(i)
  BY <1>2, SameWorld
<1>7. index' # 0 /\ \A i \in Given : i < index' => i \in F
  BY DEF Trimming, Forward
<1> QED BY <1>4, <1>5, <1>6, <1>7 DEF Trimming

LEMMA TrimsExplicit ==
    ASSUME Base, NEW E \in SUBSET Item, Trimming(E), stack # <<>>,
           NEW c \in Explicit(type) \cap NameOf(Dependency),
           TrimForm(Without(Dependency), Append(SetTop(NextDep), Frame(c)), choices)
    PROVE  \E F \in SUBSET Item : Trimming(F)'
<1> DEFINE F == E \cup {c}
<1>1. /\ packages' = packages /\ type' = Without(Dependency) /\ choices' = choices
      /\ stack' = Append(SetTop(NextDep), Frame(c)) /\ index' = index /\ Fewer(type, type')
  BY DEF TrimForm, TrimStep
<1>2. c \in Item /\ packages \in World /\ stack \in Seq(Frames)
  BY Basics DEF Explicit
<1>t. PICK u \in Item, d \in Nat \ {0} : u = Top.item /\ d = Top.dep
  BY <1>2, TopIs
<1>3. Forward(E, F) /\ F \in SUBSET Item
  BY <1>1, <1>2 DEF Forward
<1>4. /\ NextDep \in Frames /\ NextDep.item = u /\ NextDep.dep = d + 1
      /\ NextDep.cand = 1
  BY <1>2, <1>t, FramesAre, Basics
<1>5. u \in E
  <2>1. Len(stack) \in DOMAIN stack /\ Top = stack[Len(stack)]
    BY TopIs, Basics
  <2> QED BY <1>t, <2>1 DEF Trimming, InProgress
<1>6. NextDep \in InProgress(F)'
  BY <1>1, <1>2, <1>4, <1>5, Begins
<1>7. Settled(F, u, d)'
  <2>1. Dependency = DependsOf(u)[d]
    BY <1>t DEF Dependency
  <2>2. \A j \in NameOf(Dependency) : type'[j] # "available"
    BY <1>1 DEF Without, NameOf
  <2>3. DependsOf(u)' = DependsOf(u) /\ \A e : NameOf(e)' = NameOf(e)
    BY <1>1, SameWorld
  <2>4. Rest(u, d)' = {}
    BY <2>1, <2>2, <2>3 DEF Rest
  <2> QED BY <2>4 DEF Settled
<1> HIDE DEF F
<1>8. Trimming(F)'
  BY <1>1, <1>2, <1>3, <1>4, <1>6, <1>7, <1>t, TrimGoesOn DEF F
<1> QED BY <1>3, <1>8

(* The frame that runs, with names for where it is.                        *)
LEMMA TheFrame ==
    ASSUME Base, NEW E \in SUBSET Item, Trimming(E), stack # <<>>
    PROVE  \E u \in Item, d \in Nat \ {0} :
               /\ u = Top.item /\ d = Top.dep /\ Dependency = DependsOf(u)[d]
               /\ u \in E /\ Top \in InProgress(E)
               /\ Passed(Top) = {j \in Rest(u, d) : j < Top.cand}
               /\ DOMAIN DependsOf(u) = 1..Len(DependsOf(u)) /\ Len(DependsOf(u)) \in Nat
               /\ Exhausted <=> d > Len(DependsOf(u))
<1>1. Len(stack) \in DOMAIN stack /\ Top = stack[Len(stack)] /\ packages \in World
  BY TopIs, Basics
<1>2. PICK u \in Item, d \in Nat \ {0} : u = Top.item /\ d = Top.dep
  BY TopIs, Basics
<1>3. Top \in InProgress(E) /\ u \in E
  BY <1>1, <1>2 DEF Trimming, InProgress
<1>4. /\ Dependency = DependsOf(u)[d] /\ Passed(Top) = {j \in Rest(u, d) : j < Top.cand}
      /\ Exhausted <=> d > Len(DependsOf(u))
  BY <1>2 DEF Dependency, Passed, Exhausted
<1>5. DOMAIN DependsOf(u) = 1..Len(DependsOf(u)) /\ Len(DependsOf(u)) \in Nat
  BY <1>1, TheList
<1> QED BY <1>2, <1>3, <1>4, <1>5

(* What a candidate that was passed, or not offered, says.                 *)
LEMMA PassedIs ==
    ASSUME Base, phase \in Busy, NEW E \in SUBSET Item, Trimming(E), stack # <<>>,
           ~Exhausted, NoneGiven, NEW u \in Item, NEW d \in Nat \ {0},
           u = Top.item, d = Top.dep
    PROVE  /\ Dependency = DependsOf(u)[d] /\ d \in DOMAIN DependsOf(u)
           /\ Given \cap NameOf(DependsOf(u)[d]) = {}
           /\ \A j \in Rest(u, d) : j \in Item /\ type[j] = "available" /\ j \in Nat
                                    /\ j \in NameOf(Dependency) /\ OnDisk(j) = Present
           /\ \A j \in Passed(Top) : OnDisk(j) # {} \/
                (j \in E /\ Top.count # 0 /\ (Top.count = 1 => Unique(j, Passed(Top))))
           /\ \A j \in Rest(u, d) : \/ j \in Passed(Top) \/ Present # {}
                                    \/ j \in Candidates
           /\ \A j \in Rest(u, d) : j < Top.cand => j \in Passed(Top)
<1>1. /\ Dependency = DependsOf(u)[d] /\ Top \in InProgress(E)
      /\ Passed(Top) = {j \in Rest(u, d) : j < Top.cand}
      /\ DOMAIN DependsOf(u) = 1..Len(DependsOf(u)) /\ Len(DependsOf(u)) \in Nat
      /\ Exhausted <=> d > Len(DependsOf(u))
  BY TheFrame
<1>2. d \in DOMAIN DependsOf(u)
  BY <1>1
<1>3. Given \cap NameOf(DependsOf(u)[d]) = {}
  BY <1>1, GivenIs DEF NoneGiven
<1>4. ASSUME NEW j \in Rest(u, d)
      PROVE  /\ j \in Item /\ type[j] = "available" /\ j \in Nat
             /\ j \in NameOf(Dependency) /\ OnDisk(j) = Present
  <2>1. j \in NameOf(Dependency) /\ type[j] = "available"
    BY <1>1 DEF Rest
  <2>2. j \in Item /\ Name(j) = Dependency.name
    BY <2>1 DEF NameOf
  <2>3. OnDisk(j) = Present
    BY <2>2, PresentIs DEF Present
  <2> QED BY <2>1, <2>2, <2>3, Basics
<1>5. \A j \in Passed(Top) : OnDisk(j) # {} \/
          (j \in E /\ Top.count # 0 /\ (Top.count = 1 => Unique(j, Passed(Top))))
  BY <1>1, <1>2 DEF InProgress
<1>6. ASSUME NEW j \in Rest(u, d), j \notin Passed(Top), Present = {}
      PROVE  j \in Candidates
  <2>1. j \in Nat /\ Top.cand \in Nat /\ ~(j < Top.cand)
    BY <1>1, <1>4, <1>6, TopIs, Basics
  <2> QED BY <1>4, <1>6, <2>1 DEF Candidates
<1> QED BY <1>1, <1>2, <1>3, <1>4, <1>5, <1>6

LEMMA TrimsNext ==
    ASSUME Base, NEW E \in SUBSET Item, Trimming(E), NEW c, TrimNextForm(c), choices => c,
           Met \/ (Candidates = {} /\ (Top.count > 1 => c))
    PROVE  Trimming(E)'
<1>1. /\ packages' = packages /\ type' = type /\ choices' = c /\ index' = index
      /\ stack' = SetTop(NextDep) /\ phase \in Busy /\ stack # <<>> /\ ~Exhausted /\ NoneGiven
  BY DEF TrimNextForm, TrimForm, TrimStep, Busy
<1>2. Forward(E, E) /\ packages \in World /\ stack \in Seq(Frames)
  BY <1>1, Basics DEF Forward
<1>3. PICK u \in Item, d \in Nat \ {0} : u = Top.item /\ d = Top.dep /\ u \in E
  BY <1>1, TheFrame
<1>4. /\ NextDep \in Frames /\ NextDep.item = u /\ NextDep.dep = d + 1 /\ NextDep.cand = 1
  BY <1>1, <1>2, <1>3, FramesAre
<1>5. NextDep \in InProgress(E)'
  BY <1>1, <1>2, <1>3, <1>4, Begins
<1>6. ASSUME NEW j \in Rest(u, d), OnDisk(j) = {}
      PROVE  j \in E /\ (choices' \/ Unique(j, Rest(u, d)))
  <2>1. Present = {}
    BY <1>1, <1>3, <1>6, PassedIs
  <2>2. Candidates = {} /\ (Top.count > 1 => c)
    BY <2>1 DEF Met
  <2>3. \A l \in Rest(u, d) : l \in Passed(Top)
    BY <1>1, <1>3, <2>1, <2>2, PassedIs
  <2>4. j \in E /\ Top.count # 0 /\ (Top.count = 1 => Unique(j, Passed(Top)))
    BY <1>1, <1>3, <1>6, <2>3, PassedIs
  <2>5. Top.count = 1 => Unique(j, Rest(u, d))
    BY <2>3, <2>4 DEF Unique
  <2>6. Top.count = 1 \/ Top.count > 1
    BY <1>1, <2>4, TopIs, Basics
  <2> QED BY <1>1, <2>2, <2>4, <2>5, <2>6
<1>7. Settled(E, u, d)'
  <2>1. Rest(u, d)' \subseteq Rest(u, d)
    BY <1>2, LessRest
  <2>2. /\ Given' = Given /\ DependsOf(u)' = DependsOf(u)
        /\ \A e : NameOf(e)' = NameOf(e)
        /\ \A j : OnDisk(j)' = OnDisk(j)
    BY <1>1, SameWorld
  <2>3. Given \cap NameOf(DependsOf(u)[d]) = {}
    BY <1>1, <1>3, PassedIs
  <2>4. \A j \in Rest(u, d) : OnDisk(j) # {} \/ (j \in E /\ (choices' \/ Unique(j, Rest(u, d))))
    BY <1>6
  <2> QED BY <2>1, <2>2, <2>3, <2>4 DEF Settled, Unique
<1> QED BY <1>1, <1>2, <1>3, <1>4, <1>5, <1>7, TrimGoesOn

LEMMA Counts ==
    ASSUME NEW f \in Frames, NEW c \in Nat
    PROVE  LET g == [f EXCEPT !.cand = c + 1]
               h == [g EXCEPT !.count = @ + 1]
           IN  /\ g \in Frames /\ g.item = f.item /\ g.dep = f.dep /\ g.cand = c + 1
               /\ g.count = f.count
               /\ h \in Frames /\ h.item = f.item /\ h.dep = f.dep /\ h.cand = c + 1
               /\ h.count = f.count + 1
<1> DEFINE g == [f EXCEPT !.cand = c + 1]
<1>1. /\ g \in Frames /\ g.item = f.item /\ g.dep = f.dep /\ g.cand = c + 1
      /\ g.count = f.count
  BY DEF Frames
<1> HIDE DEF g
<1> DEFINE h == [g EXCEPT !.count = @ + 1]
<1>2. h \in Frames /\ h.item = g.item /\ h.dep = g.dep /\ h.cand = g.cand
      /\ h.count = g.count + 1
  BY <1>1 DEF Frames
<1> HIDE DEF h
<1>3. /\ h \in Frames /\ h.item = f.item /\ h.dep = f.dep /\ h.cand = c + 1
      /\ h.count = f.count + 1
  BY <1>1, <1>2
<1> QED BY <1>1, <1>3 DEF g, h

LEMMA TrimsCandidate ==
    ASSUME Base, NEW E \in SUBSET Item, Trimming(E), stack # <<>>, ~Exhausted, NoneGiven,
           NEW c \in Candidates, \A j \in Candidates : c <= j,
           LET next == [Top EXCEPT !.cand = c + 1]
           IN  \/ TrimForm([type EXCEPT ![c] = "invalid"], SetTop(next), choices)
               \/ TrimForm(type, Append(SetTop([next EXCEPT !.count = @ + 1]), Frame(c)), choices)
    PROVE  \E F \in SUBSET Item : Trimming(F)'
<1> DEFINE next == [Top EXCEPT !.cand = c + 1]
           called == [next EXCEPT !.count = @ + 1]
<1>1. \/ TrimForm([type EXCEPT ![c] = "invalid"], SetTop(next), choices)
      \/ TrimForm(type, Append(SetTop(called), Frame(c)), choices)
  OBVIOUS
<1>2. /\ packages' = packages /\ choices' = choices /\ index' = index /\ phase \in Busy
      /\ Fewer(type, type') /\ packages \in World
      /\ \/ type' = [type EXCEPT ![c] = "invalid"] /\ stack' = SetTop(next)
         \/ type' = type /\ stack' = Append(SetTop(called), Frame(c))
  BY <1>1, Basics DEF TrimForm, TrimStep, Busy
<1>3. c \in Item /\ c \in Nat /\ type[c] = "available" /\ c \in NameOf(Dependency)
  BY Basics DEF Candidates, NameOf
<1>4. PICK u \in Item, d \in Nat \ {0} : u = Top.item /\ d = Top.dep /\ u \in E
  BY TheFrame
<1>5. Top.count \in Nat /\ Top \in Frames
  BY TopIs, Basics
<1>6. /\ next \in Frames /\ next.item = u /\ next.dep = d /\ next.cand = c + 1
      /\ next.count = Top.count
      /\ called \in Frames /\ called.item = u /\ called.dep = d /\ called.cand = c + 1
      /\ called.count = Top.count + 1
  <2> DEFINE f == Top
  <2>1. f \in Frames /\ f.item = u /\ f.dep = d /\ f.count = Top.count
    BY <1>4, <1>5
  <2> HIDE DEF f
  <2>2. LET g == [f EXCEPT !.cand = c + 1]
            h == [g EXCEPT !.count = @ + 1]
        IN  /\ g \in Frames /\ g.item = f.item /\ g.dep = f.dep /\ g.cand = c + 1
            /\ g.count = f.count
            /\ h \in Frames /\ h.item = f.item /\ h.dep = f.dep /\ h.cand = c + 1
            /\ h.count = f.count + 1
    BY <1>3, <2>1, Counts
  <2>3. /\ [f EXCEPT !.cand = c + 1] = next
        /\ [[f EXCEPT !.cand = c + 1] EXCEPT !.count = @ + 1] = called
    BY DEF f
  <2> QED BY <2>1, <2>2, <2>3
<1>g. PICK g \in Frames, h \in Frames :
           /\ g = next /\ g.item = u /\ g.dep = d /\ g.cand = c + 1 /\ g.count = Top.count
           /\ h = called /\ h.item = u /\ h.dep = d /\ h.cand = c + 1
           /\ h.count = Top.count + 1
  BY <1>6
<1> HIDE DEF next, called
<1>7. /\ Dependency = DependsOf(u)[d] /\ d \in DOMAIN DependsOf(u)
      /\ Given \cap NameOf(DependsOf(u)[d]) = {}
      /\ c \in Rest(u, d)
  BY <1>2, <1>3, <1>4, PassedIs DEF Rest
<1>8. ASSUME NEW j \in Rest(u, d), j < c, OnDisk(j) = {}
      PROVE  j \in Passed(Top) /\ j \in E /\ Top.count # 0
             /\ (Top.count = 1 => Unique(j, Passed(Top)))
  <2>1. Present = {} /\ j \in Nat
    BY <1>2, <1>4, <1>8, PassedIs
  <2>2. j \notin Candidates
    BY <1>3, <1>8, <2>1
  <2>3. j \in Passed(Top)
    BY <1>2, <1>4, <2>1, <2>2, PassedIs
  <2> QED BY <1>2, <1>4, <1>8, <2>3, PassedIs
<1>9. \A j \in Rest(u, d) : j \in Nat /\ OnDisk(j) = OnDisk(c)
  BY <1>2, <1>4, <1>7, PassedIs
<1>10. CASE type' = [type EXCEPT ![c] = "invalid"] /\ stack' = SetTop(next)
  <2>1. Forward(E, E)
    BY <1>2 DEF Forward
  <2>2. Rest(u, d)' \subseteq Rest(u, d) /\ c \notin Rest(u, d)'
    <3>1. type'[c] # "available"
      BY <1>3, <1>10, Basics
    <3> QED BY <2>1, <3>1, LessRest DEF Rest
  <2>3. \A j \in Passed(g)' : j \in Rest(u, d) /\ j < c
    BY <1>3, <1>g, <1>9, <2>2 DEF Passed
  <2>4. g \in InProgress(E)'
    <3>1. ASSUME NEW j \in Passed(g)', OnDisk(j) = {}
          PROVE  j \in E /\ g.count # 0 /\ (g.count = 1 => Unique(j, Passed(g)'))
      <4>1. j \in E /\ Top.count # 0 /\ (Top.count = 1 => Unique(j, Passed(Top)))
        BY <1>8, <2>3, <3>1
      <4>2. \A l \in Passed(g)' : l \in Passed(Top)
        BY <1>8, <1>9, <2>3, <3>1
      <4> QED BY <1>g, <4>1, <4>2 DEF Unique
    <3>2. /\ Given' = Given /\ DependsOf(u)' = DependsOf(u) /\ Frames' = Frames
          /\ \A e : NameOf(e)' = NameOf(e)
          /\ \A j : OnDisk(j)' = OnDisk(j)
      BY <1>2, SameWorld
    <3> QED BY <1>4, <1>g, <1>7, <3>1, <3>2 DEF InProgress, Unique
  <2>5. Trimming(E)'
    BY <1>2, <1>3, <1>4, <1>g, <1>10, <2>1, <2>4, TrimGoesOn
  <2> QED BY <2>5
<1>11. CASE type' = type /\ stack' = Append(SetTop(called), Frame(c))
  <2> DEFINE F == E \cup {c}
  <2>1. Forward(E, F) /\ F \in SUBSET Item /\ E \subseteq F /\ c \in F
    BY <1>2, <1>3 DEF Forward
  <2>2. Rest(u, d)' \subseteq Rest(u, d)
    BY <2>1, LessRest
  <2>f. F = E \cup {c}
    OBVIOUS
  <2> HIDE DEF F
  <2>3. \A j \in Passed(h)' : j \in Rest(u, d) /\ (j < c \/ j = c)
    BY <1>3, <1>g, <1>9, <2>2 DEF Passed
  <2>4. h \in InProgress(F)'
    <3>1. ASSUME NEW j \in Passed(h)', OnDisk(j) = {}
          PROVE  j \in F /\ h.count # 0
                 /\ (h.count = 1 => Unique(j, Passed(h)'))
      <4>1. h.count # 0 /\ (h.count = 1 => Top.count = 0)
        BY <1>5, <1>g
      <4>2. Top.count = 0 => \A l \in Passed(h)' : l = c
        BY <1>8, <1>9, <2>3, <3>1
      <4>3. j \in F
        BY <1>8, <2>1, <2>3, <3>1
      <4> QED BY <3>1, <4>1, <4>2, <4>3 DEF Unique
    <3>2. /\ Given' = Given /\ DependsOf(u)' = DependsOf(u) /\ Frames' = Frames
          /\ \A e : NameOf(e)' = NameOf(e)
          /\ \A j : OnDisk(j)' = OnDisk(j)
      BY <1>2, SameWorld
    <3> QED BY <1>4, <1>g, <1>7, <2>1, <3>1, <3>2 DEF InProgress, Unique
  <2>5. stack' = Append(SetTop(h), Frame(c)) /\ index' = index
    BY <1>2, <1>g, <1>11
  <2>6. h.item = u /\ h.dep \in {d, d + 1} /\ (h.dep = d + 1 => Settled(F, u, d)')
    BY <1>g
  <2>7. Trimming(F)'
    BY <1>3, <1>4, <2>1, <2>4, <2>5, <2>6, <2>f, TrimGoesOn
  <2> QED BY <2>1, <2>7
<1> QED BY <1>2, <1>10, <1>11

(* Before a tree is selected nothing in the list is implicit.              *)
LEMMA NoneImplicit ==
    ASSUME Base, phase \in Busy
    PROVE  type \in Singles /\ type \in Inside
<1>1. Trimmed /\ packages \in World
  BY Basics DEF Base, Busy
<1>2. \A i \in Item : type[i] # "implicit"
  BY <1>1, TheList DEF Trimmed, StartTypes
<1> QED BY <1>2, Basics DEF Singles, Inside, Soft

LEMMA FewerKeeps ==
    ASSUME NEW t \in [Item -> Types], NEW r, Fewer(t, r)
    PROVE  /\ t \in Inside => r \in Inside
           /\ t \in Singles => r \in Singles
           /\ t \in Sparse => r \in Sparse
<1>1. r \in [Item -> Types] /\ \A j \in Item : r[j] = t[j] \/ r[j] = "invalid"
  BY DEF Fewer
<1> QED BY <1>1 DEF Inside, Singles, Sparse, Soft

(* The tree generator keeps one candidate of a name.                       *)
LEMMA TreeSparse ==
    ASSUME Base, phase \in Busy, NEW m
    PROVE  Tree(m) \in Sparse
<1> DEFINE t == Tree(m)
<1>1. Fewer(type, t) /\ t \in [Item -> Types]
  BY TreeIs DEF Fewer
<1>2. t \in Inside
  BY <1>1, NoneImplicit, FewerKeeps, Basics
<1>3. ASSUME NEW i \in Item, NEW j \in Item, t[i] \in Soft, t[j] \in Soft, Name(i) = Name(j)
      PROVE  i = j
  <2>1. type[i] = "available" /\ type[j] = "available"
    BY <1>2, <1>3 DEF Inside
  <2> DEFINE T == {x \in Item : Name(x) = Name(i)}
             g == Min(T)
  <2>2. g \in T /\ g \in Item /\ \A x \in T : g <= x
    <3>1. T \in SUBSET Item /\ T # {}
      OBVIOUS
    <3> HIDE DEF T
    <3> QED BY <3>1, MinItem, Basics
  <2> HIDE DEF g
  <2>3. g \in Item /\ Name(g) = Name(i) /\ g \in Nat
    BY <2>2, Basics
  <2>4. i \in Options(g) /\ j \in Options(g)
    BY <1>3, <2>1, <2>3 DEF Options
  <2>5. \A x \in 1..(g - 1) : Name(x) # Name(g)
    <3> SUFFICES ASSUME NEW x \in 1..(g - 1), Name(x) = Name(g) PROVE FALSE
      OBVIOUS
    <3>1. Item = 1..Len(packages) /\ Len(packages) \in Nat
      BY TheList, Basics
    <3>2. x \in Item /\ ~(g <= x)
      BY <2>3, <3>1
    <3> QED BY <2>2, <2>3, <3>2
  <2>6. g \in Groups
    BY <2>3, <2>4, <2>5 DEF Groups
  <2>7. \A x \in Item : t[x] = IF \E h \in Groups : x \in Options(h) \ {Chosen(h, m)}
                               THEN "invalid" ELSE type[x]
    BY DEF Tree
  <2> HIDE DEF t
  <2>8. t[i] # "invalid" /\ t[j] # "invalid"
    BY <1>3 DEF Soft
  <2>9. i = Chosen(g, m) /\ j = Chosen(g, m)
    BY <2>4, <2>6, <2>7, <2>8
  <2> QED BY <2>9
<1> HIDE DEF t
<1>4. t \in Sparse
  BY <1>1, <1>3 DEF Sparse
<1> QED BY <1>4 DEF t

(* What has been covered stays so as long as the list does.                *)
LEMMA CoveredKeeps ==
    ASSUME NEW E \in SUBSET Item, Covered(E), packages' = packages, type' = type,
           choices' = choices, phase' = "verify" => \A m \in DOMAIN stack' :
               stack'[m].item \in E \cup Renewals
    PROVE  Covered(E)' /\ E \in SUBSET Item'
<1>1. /\ Given' = Given /\ Renewals' = Renewals /\ Item' = Item
      /\ \A i : OnDisk(i)' = OnDisk(i) /\ DependsOf(i)' = DependsOf(i)
      /\ \A d : NameOf(d)' = NameOf(d)
  BY SameWorld
<1>2. \A i, k : Settled(E, i, k)' = Settled(E, i, k)
  BY <1>1 DEF Settled, Rest, Unique
<1> QED BY <1>1, <1>2 DEF Covered

(* What find_dependencies() may promote: it is the only one of its name.   *)
LEMMA PromotedAlone ==
    ASSUME Base, phase = "verify", stack # <<>>, ~Exhausted, SelfReliant,
           NEW E \in SUBSET Item, Covered(E),
           tree \in Inside, choices => tree \in Sparse,
           NEW c \in Item, c \in Usable, tree[c] = "available", MayUpgrade(c), ~NotFound(c)
    PROVE  /\ c \in E \cup Renewals
           /\ \A j \in Item : j # c /\ Name(j) = Name(c) => tree[j] \notin {"explicit", "implicit"}
<1>1. PICK u \in Item, d \in Nat \ {0} : u = Top.item /\ d = Top.dep
  BY TopIs, Basics
<1>2. Dependency = DependsOf(u)[d] /\ d \in DOMAIN DependsOf(u)
  <2>1. DOMAIN DependsOf(u) = 1..Len(DependsOf(u)) /\ Len(DependsOf(u)) \in Nat
    BY TheList, Basics
  <2> QED BY <1>1, <2>1 DEF Dependency, Exhausted
<1>3. u \in E \cup Renewals
  <2>1. Len(stack) \in DOMAIN stack /\ Top = stack[Len(stack)]
    BY TopIs, Basics
  <2> QED BY <1>1, <2>1 DEF Covered
<1>4. type[c] = "available" /\ c \in NameOf(Dependency) /\ Name(c) = Dependency.name
  BY DEF Inside, Soft, Usable, NameOf
<1>5. c \in Rest(u, d)
  BY <1>2, <1>4 DEF Rest
<1>6. c \in Offers
  BY SeenPromoted, Basics DEF Offers
<1>7. u \in E
  BY <1>2, <1>3, <1>4, <1>6 DEF SelfReliant, Renewals
<1>8. /\ Given \cap NameOf(Dependency) = {}
      /\ OnDisk(c) # {} \/ (c \in E /\ (choices \/ Unique(c, Rest(u, d))))
  BY <1>2, <1>5, <1>7 DEF Covered, Settled
<1>9. ASSUME NEW j \in Item, j # c, Name(j) = Name(c), tree[j] \in {"explicit", "implicit"}
      PROVE  FALSE
  <2>1. j \in NameOf(Dependency)
    BY <1>4, <1>9 DEF NameOf
  <2>2. tree[j] = "implicit" /\ type[j] = "available"
    BY <1>8, <1>9, <2>1, GivenIs DEF Inside, Soft
  <2>3. CASE OnDisk(c) # {}
    <3>1. PICK k \in OnDisk(c) : TRUE
      BY <2>3
    <3>2. k \in OnDisk(j)
      BY <1>9, <3>1 DEF OnDisk
    <3>3. tree[k] = "upgrade"
      BY <2>2, <3>2, Basics DEF Lists, Raised
    <3>4. tree[k] = "installed"
      BY <3>1, MayPromote, Basics
    <3> QED BY <3>3, <3>4
  <2>4. CASE choices
    BY <1>9, <2>2, <2>4 DEF Sparse, Soft
  <2>5. CASE Unique(c, Rest(u, d))
    <3>1. j \in Rest(u, d)
      BY <1>2, <2>1, <2>2 DEF Rest
    <3> QED BY <1>9, <2>5, <3>1 DEF Unique
  <2> QED BY <1>8, <2>3, <2>4, <2>5
<1> QED BY <1>6, <1>8, <1>9 DEF Renewals

LEMMA PromotedOne ==
    ASSUME Base, phase = "verify", stack # <<>>, ~Exhausted, SelfReliant,
           NEW E \in SUBSET Item, Covered(E),
           tree \in Inside \cap Singles, choices => tree \in Sparse,
           NEW c \in Item, c \in Usable, tree[c] = "available", MayUpgrade(c), ~NotFound(c)
    PROVE  /\ c \in E \cup Renewals /\ Promoted(c) \in [Item -> Types]
           /\ Promoted(c) \in Inside \cap Singles /\ (choices => Promoted(c) \in Sparse)
<1> DEFINE p == Promoted(c)
<1>1. /\ p \in [Item -> Types]
      /\ \A i \in Item : p[i] = IF i = c THEN "implicit"
                                ELSE IF i \in OnDisk(c) THEN "upgrade" ELSE tree[i]
  BY SeenPromoted, Basics DEF Lists
<1>2. /\ c \in E \cup Renewals
      /\ \A j \in Item : j # c /\ Name(j) = Name(c) => tree[j] \notin {"explicit", "implicit"}
  BY PromotedAlone
<1> HIDE DEF p
<1>3. \A i \in Item : /\ p[i] \in Soft => tree[i] \in Soft
                      /\ i # c /\ p[i] \in {"explicit", "implicit"} => tree[i] = p[i]
                      /\ i = c => p[i] = "implicit" /\ tree[i] = "available"
  BY <1>1 DEF Soft
<1>4. p \in Inside
  BY <1>1, <1>3 DEF Inside
<1>5. tree \in Sparse => p \in Sparse
  BY <1>1, <1>3 DEF Sparse
<1>6. p \in Singles
  <2> SUFFICES ASSUME NEW i \in Item, NEW j \in Item, p[i] = "implicit",
                      p[j] \in {"explicit", "implicit"}, Name(i) = Name(j)
               PROVE  i = j
    BY <1>1 DEF Singles
  <2> QED BY <1>2, <1>3 DEF Singles
<1> QED BY <1>1, <1>2, <1>4, <1>5, <1>6 DEF p

-----------------------------------------------------------------------------
(* One version of each: every step keeps it.                               *)

LEMMA OnesFail ==
    ASSUME Base, OneOfEach, NEW why \in Errors, Fail(why)
    PROVE  OneOfEach'
<1>1. /\ phase' = "done" /\ result' = why /\ packages' = packages /\ best' = best
      /\ why # "selected"
  BY DEF Fail, Errors
<1>2. Singles' = Singles /\ Item' = Item
  BY <1>1, SameWorld
<1> QED BY <1>1, <1>2 DEF OneOfEach, Selected

LEMMA OnesSelect ==
    ASSUME Base, OneOfEach, NEW t \in Singles, Select(t)
    PROVE  OneOfEach'
<1>1. /\ phase' = "done" /\ type' = t /\ packages' = packages /\ best' = best
  BY DEF Select
<1>2. Singles' = Singles /\ Item' = Item
  BY <1>1, SameWorld
<1> QED BY <1>1, <1>2 DEF OneOfEach

(* Not selected yet: only the loop that runs next says something.          *)
LEMMA OnesBusy ==
    ASSUME Base, phase \in Busy, OneOfEach, packages' = packages, result' = result, phase' \in Busy,
           best' # <<>> => best' \in Singles,
           phase' \in {"installed", "conflicts", "tree"} => stack' = <<>>,
           phase' = "trim" => (\E E \in SUBSET Item : Trimming(E)'),
           phase' \in {"tree", "verify"} => (\E E \in SUBSET Item : Covered(E)'),
           phase' = "verify" => tree' \in Inside' \cap Singles /\ (choices' => tree' \in Sparse)
    PROVE  OneOfEach'
<1>1. Singles' = Singles /\ Item' = Item /\ Sparse' = Sparse
  BY SameWorld
<1>2. ~Selected'
  BY DEF Base, Busy, Selected
<1> QED BY <1>1, <1>2 DEF OneOfEach

LEMMA OnesInit == ASSUME Init PROVE OneOfEach
BY DEF Init, OneOfEach, Selected

LEMMA OnesConflicts ==
    ASSUME Base, OneOfEach, ValidateInstalled \/ TrimConflicts \/ EndTrimConflicts
    PROVE  OneOfEach'
<1>1. /\ phase \in {"installed", "conflicts"} /\ phase' \in {"conflicts", "trim"}
      /\ UNCHANGED <<packages, best, stack, result>>
      /\ phase' = "trim" => index' = 1
  BY DEF ValidateInstalled, TrimConflicts, EndTrimConflicts
<1>2. stack' = <<>> /\ (best' # <<>> => best' \in Singles) /\ phase \in Busy /\ phase' \in Busy
  BY <1>1 DEF OneOfEach, Busy
<1>3. ASSUME phase' = "trim" PROVE Trimming({})'
  <2>1. Given' = Given /\ \A i \in Given : ~(i < 1)
    BY <1>1, SameWorld, TheList, Basics DEF Given
  <2> QED BY <1>1, <1>2, <1>3, <2>1 DEF Trimming
<1>4. {} \in SUBSET Item
  OBVIOUS
<1>5. phase' = "trim" => \E E \in SUBSET Item : Trimming(E)'
  BY <1>3, <1>4
<1> QED BY <1>1, <1>2, <1>5, OnesBusy

LEMMA TrimsRoot ==
    ASSUME Base, phase = "trim", NEW E \in SUBSET Item, Trimming(E), TrimRoot
    PROVE  \E F \in SUBSET Item : Trimming(F)'
<1>1. /\ stack = <<>> /\ index \in Item /\ index' = index + 1 /\ index \in Nat
      /\ stack' = IF type[index] = "explicit" THEN <<Frame(index)>> ELSE <<>>
      /\ packages' = packages /\ type' = type /\ choices' = choices /\ Fewer(type, type')
  BY Basics DEF TrimRoot
<1>x. PICK x \in Item : x = index
  BY <1>1
<1>f. PICK F \in SUBSET Item : F = IF type[x] = "explicit" THEN E \cup {x} ELSE E
  OBVIOUS
<1>2. Forward(E, F) /\ F \in SUBSET Item /\ E \subseteq F
  BY <1>1, <1>f DEF Forward
<1>3. /\ Given' = Given /\ Given \subseteq Item /\ Item \subseteq Nat
      /\ type[index] = "explicit" <=> index \in Given
      /\ \A i : DependsOf(i)' = DependsOf(i)
  BY <1>1, SameWorld, GivenIs, Basics
<1>4. \A i \in Given : i < index' => i \in F
  <2> SUFFICES ASSUME NEW i \in Given, i < index + 1 PROVE i \in F
    BY <1>1
  <2>1. i < index \/ i = index
    BY <1>1, <1>3
  <2> QED BY <1>3, <1>x, <1>f, <2>1 DEF Trimming
<1>5. \A m \in DOMAIN stack' : stack'[m] \in InProgress(F)'
  <2>1. CASE type[index] = "explicit"
    <3>1. PICK f \in Frames : f = Frame(x) /\ f.item = x /\ f.cand = 1
      BY FramesAre, Basics
    <3>2. f \in InProgress(F)'
      BY <1>1, <1>x, <1>f, <2>1, <3>1, Begins, Basics
    <3>3. DOMAIN stack' = 1..1 /\ stack'[1] = f
      BY <1>1, <1>x, <2>1, <3>1, OneFrame
    <3> QED BY <3>2, <3>3
  <2>2. CASE type[index] # "explicit"
    BY <1>1, <2>2
  <2> QED BY <2>1, <2>2
<1>6. ASSUME NEW i \in F, NEW k \in DOMAIN DependsOf(i)
      PROVE  Settled(F, i, k)' \/ Pending(i, k)'
  <2>1. CASE i \in E
    <3>1. Settled(E, i, k)
      BY <1>1, <2>1 DEF Trimming, Pending
    <3> QED BY <1>2, <3>1, SettledKeeps
  <2>2. CASE i \notin E
    <3>1. type[x] = "explicit" /\ i = x
      BY <1>f, <2>2
    <3>2. PICK f \in Frames : f = Frame(x) /\ f.item = x /\ f.dep = 1
      BY FramesAre, Basics
    <3>3. DOMAIN stack' = 1..1 /\ stack'[1] = f
      BY <1>1, <1>x, <3>1, <3>2, OneFrame
    <3>4. 1 <= k
      BY <1>f, TheList, Basics
    <3> QED BY <3>1, <3>2, <3>3, <3>4 DEF Pending
  <2> QED BY <2>1, <2>2
<1>7. index' # 0
  BY <1>1
<1>8. Trimming(F)'
  BY <1>3, <1>4, <1>5, <1>6, <1>7 DEF Trimming
<1> QED BY <1>2, <1>8

LEMMA OnesTrim ==
    ASSUME Base, OneOfEach, TrimRoot \/ TrimReturn \/ TrimExplicit \/ TrimInstalled
                              \/ TrimCandidate \/ TrimCandidatesEnd
    PROVE  OneOfEach'
<1>1. phase = "trim"
  BY DEF TrimRoot, TrimReturn, TrimExplicit, TrimInstalled, TrimCandidate, TrimCandidatesEnd, Running
<1>2. PICK E \in SUBSET Item : Trimming(E)
  BY <1>1 DEF OneOfEach
<1>3. ASSUME packages' = packages, best' = best, result' = result, phase' = phase,
             \E F \in SUBSET Item : Trimming(F)'
      PROVE  OneOfEach'
  <2>1. phase \in Busy /\ phase' \in Busy /\ phase' = "trim"
    BY <1>1, <1>3 DEF Busy
  <2>2. best' # <<>> => best' \in Singles
    BY <1>3 DEF OneOfEach
  <2> QED BY <1>3, <2>1, <2>2, OnesBusy
<1>4. ASSUME NEW t, NEW s, NEW c, TrimForm(t, s, c), \E F \in SUBSET Item : Trimming(F)'
      PROVE  OneOfEach'
  BY <1>3, <1>4 DEF TrimForm, TrimStep
<1>5. ASSUME NEW why \in Errors, Fail(why) PROVE OneOfEach'
  BY <1>5, OnesFail
<1>6. CASE TrimRoot
  <2>1. packages' = packages /\ best' = best /\ result' = result /\ phase' = phase
    BY <1>6 DEF TrimRoot
  <2> QED BY <1>1, <1>2, <1>3, <1>6, <2>1, TrimsRoot
<1>7. CASE TrimReturn
  <2>1. TrimReturnForm
    BY <1>7, TrimReturnIs
  <2>2. Trimming(E)'
    BY <1>2, <2>1, TrimReturns
  <2> QED BY <1>4, <2>1, <2>2 DEF TrimReturnForm
<1>8. CASE TrimExplicit
  <2> DEFINE c == Min(Explicit(type) \cap NameOf(Dependency))
  <2>1. \/ \E why \in Errors : Fail(why)
        \/ /\ stack # <<>> /\ c \in Explicit(type) \cap NameOf(Dependency)
           /\ TrimForm(Without(Dependency), Append(SetTop(NextDep), Frame(c)), choices)
    BY <1>8, TrimExplicitIs
  <2> HIDE DEF c
  <2> QED BY <1>2, <1>4, <1>5, <2>1, TrimsExplicit
<1>9. CASE TrimInstalled
  <2>1. TrimNextForm(choices) /\ Met
    BY <1>9, TrimInstalledIs
  <2>2. Trimming(E)'
    BY <1>2, <2>1, TrimsNext
  <2> QED BY <1>4, <2>1, <2>2 DEF TrimNextForm
<1>10. CASE TrimCandidate
  <2> DEFINE c == Min(Candidates)
             next == [Top EXCEPT !.cand = c + 1]
             t == [type EXCEPT ![c] = "invalid"]
             r == SetTop(next)
             s == Append(SetTop([next EXCEPT !.count = @ + 1]), Frame(c))
  <2>1. \/ \E why \in Errors : Fail(why)
        \/ /\ stack # <<>> /\ ~Exhausted /\ NoneGiven
           /\ c \in Candidates /\ \A j \in Candidates : c <= j
           /\ TrimForm(t, r, choices) \/ TrimForm(type, s, choices)
    BY <1>10, TrimCandidateIs
  <2>2. ASSUME stack # <<>>, ~Exhausted, NoneGiven,
               c \in Candidates, \A j \in Candidates : c <= j,
               TrimForm(t, r, choices) \/ TrimForm(type, s, choices)
        PROVE  \E F \in SUBSET Item : Trimming(F)'
    <3> HIDE DEF c
    <3> QED BY <1>2, <2>2, TrimsCandidate
  <2> HIDE DEF c, t, r, s
  <2> QED BY <1>4, <1>5, <2>1, <2>2
<1>11. CASE TrimCandidatesEnd
  <2> DEFINE c == choices \/ Top.count > 1
  <2>1. \/ \E why \in Errors : Fail(why)
        \/ TrimNextForm(c) /\ ~Met /\ Candidates = {}
    BY <1>11, TrimCandidatesEndIs
  <2>2. (choices => c) /\ (Top.count > 1 => c)
    OBVIOUS
  <2> HIDE DEF c
  <2>3. ASSUME TrimNextForm(c), Candidates = {} PROVE Trimming(E)'
    BY <1>2, <2>2, <2>3, TrimsNext
  <2> QED BY <1>4, <1>5, <2>1, <2>3 DEF TrimNextForm
<1> QED BY <1>6, <1>7, <1>8, <1>9, <1>10, <1>11

LEMMA OnesEndTrim ==
    ASSUME Base, OneOfEach, EndTrim
    PROVE  OneOfEach'
<1>1. /\ phase = "trim" /\ stack = <<>> /\ index \notin Item
      /\ \/ Select(type)
         \/ /\ phase' = IF choices THEN "tree" ELSE "verify"
            /\ tree' = type /\ index' = 1
            /\ UNCHANGED <<packages, type, selfContained, choices, missing, n, best,
                           stack, result>>
  BY DEF EndTrim
<1>2. type \in Singles /\ type \in Inside
  BY <1>1, NoneImplicit DEF Busy
<1>3. CASE Select(type)
  BY <1>2, <1>3, OnesSelect
<1>4. CASE /\ phase' = IF choices THEN "tree" ELSE "verify"
           /\ tree' = type /\ index' = 1
           /\ UNCHANGED <<packages, type, selfContained, choices, missing, n, best, stack, result>>
  <2>1. PICK E \in SUBSET Item : Trimming(E)
    BY <1>1 DEF OneOfEach
  <2>2. Given \subseteq E
    <3> SUFFICES ASSUME NEW i \in Given PROVE i \in E
      OBVIOUS
    <3>1. /\ Item = 1..Len(packages) /\ Len(packages) \in Nat /\ index \in Nat /\ i \in Item
      BY TheList, GivenIs, Basics
    <3>2. index # 0
      BY <2>1 DEF Trimming
    <3>3. i < index
      BY <1>1, <3>1, <3>2
    <3> QED BY <2>1, <3>3 DEF Trimming
  <2>3. Covered(E)
    BY <1>1, <2>1, <2>2 DEF Covered, Trimming, Pending
  <2>4. Covered(E)'
    BY <1>1, <1>4, <2>1, <2>3, CoveredKeeps
  <2>5. Inside' = Inside /\ Singles' = Singles
    BY <1>4, SameWorld DEF Inside
  <2>6. phase \in Busy /\ phase' \in {"tree", "verify"} /\ phase' \in Busy /\ stack' = <<>>
    BY <1>1, <1>4 DEF Busy
  <2>7. phase' = "verify" => ~choices'
    BY <1>4
  <2>8. best' # <<>> => best' \in Singles
    BY <1>4 DEF OneOfEach
  <2>9. \E F \in SUBSET Item : Covered(F)'
    BY <2>4
  <2>10. phase' = "verify" => tree' \in Inside' \cap Singles /\ (choices' => tree' \in Sparse)
    BY <1>2, <1>4, <2>5, <2>7
  <2> QED BY <1>4, <2>6, <2>8, <2>9, <2>10, OnesBusy
<1> QED BY <1>1, <1>3, <1>4

LEMMA OnesTree ==
    ASSUME Base, OneOfEach, NextTree \/ EndTrees
    PROVE  OneOfEach'
<1>1. CASE NextTree
  <2>1. /\ phase = "tree" /\ tree' = Tree(n) /\ phase' = "verify"
        /\ UNCHANGED <<packages, type, selfContained, choices, best, stack, result>>
    BY <1>1 DEF NextTree
  <2>2. PICK E \in SUBSET Item : Covered(E)
    BY <2>1 DEF OneOfEach
  <2>3. stack' = <<>> /\ (best' # <<>> => best' \in Singles) /\ phase \in Busy /\ phase' \in Busy
    BY <2>1 DEF OneOfEach, Busy
  <2>4. Covered(E)'
    BY <2>1, <2>2, <2>3, CoveredKeeps
  <2>5. Fewer(type, Tree(n)) /\ type \in Singles /\ type \in Inside /\ Tree(n) \in Sparse
    BY <2>3, TreeIs, NoneImplicit, TreeSparse
  <2>6. tree' \in Inside /\ tree' \in Singles /\ tree' \in Sparse
    BY <2>1, <2>5, FewerKeeps, Basics
  <2>7. Inside' = Inside
    BY <2>1, SameWorld DEF Inside
  <2>8. \E F \in SUBSET Item : Covered(F)'
    BY <2>4
  <2>9. phase' \notin {"installed", "conflicts", "tree", "trim"}
    BY <2>1
  <2> QED BY <2>1, <2>3, <2>6, <2>7, <2>8, <2>9, OnesBusy
<1>2. CASE EndTrees
  <2>1. CASE \E why \in Errors : Fail(why)
    BY <2>1, OnesFail
  <2>2. CASE best # <<>> /\ Select(best)
    BY <2>2, OnesSelect DEF OneOfEach
  <2> QED BY <1>2, <2>1, <2>2, EndTreesIs
<1> QED BY <1>1, <1>2

(* The steps of find_dependencies(): the frames stay among what has been   *)
(* covered, and the tree as it must be.                                    *)
LEMMA OnesFound ==
    ASSUME Base, phase = "verify", OneOfEach, NEW E \in SUBSET Item, Covered(E),
           UNCHANGED <<packages, type, choices, best, phase, result>>,
           \A m \in DOMAIN stack' : stack'[m].item \in E \cup Renewals,
           tree' \in Inside \cap Singles, choices => tree' \in Sparse
    PROVE  OneOfEach'
<1>1. phase \in Busy /\ phase' \in Busy /\ phase' = "verify"
  BY DEF Busy
<1>2. \E F \in SUBSET Item : Covered(F)'
  BY CoveredKeeps
<1>3. Inside' = Inside
  BY SameWorld DEF Inside
<1>4. best' # <<>> => best' \in Singles
  BY DEF OneOfEach
<1> QED BY <1>1, <1>2, <1>3, <1>4, OnesBusy

LEMMA StackItems ==
    ASSUME Base, stack # <<>>, NEW S, \A m \in DOMAIN stack : stack[m].item \in S
    PROVE  /\ \A m \in DOMAIN Pop : Pop[m].item \in S
           /\ \A m \in DOMAIN SetTop(NextDep) : SetTop(NextDep)[m].item \in S
           /\ \A c \in Item : LET s == Append(SetTop(NextDep), Frame(c))
                              IN  \A m \in DOMAIN s : s[m].item \in S \cup {c}
<1>1. /\ Len(stack) \in Nat \ {0} /\ DOMAIN stack = 1..Len(stack) /\ Top = stack[Len(stack)]
      /\ stack \in Seq(Frames) /\ packages \in World
  BY TopIs, Basics
<1>2. NextDep \in Frames /\ NextDep.item = Top.item /\ Top.item \in S
  BY <1>1, FramesAre
<1>3. \A m \in DOMAIN Pop : Pop[m].item \in S
  BY <1>1, Pops
<1>4. \A m \in DOMAIN SetTop(NextDep) : SetTop(NextDep)[m].item \in S
  BY <1>1, <1>2, Sets
<1>5. ASSUME NEW c \in Item
      PROVE  LET s == Append(SetTop(NextDep), Frame(c))
             IN  \A m \in DOMAIN s : s[m].item \in S \cup {c}
  <2> DEFINE s == Append(SetTop(NextDep), Frame(c))
  <2>1. Frame(c) \in Frames /\ Frame(c).item = c
    BY <1>1, FramesAre
  <2>2. /\ DOMAIN s = 1..(Len(stack) + 1) /\ s[Len(stack)] = NextDep
        /\ s[Len(stack) + 1] = Frame(c)
        /\ \A m \in 1..(Len(stack) - 1) : s[m] = stack[m]
    BY <1>1, <1>2, <2>1, Calls
  <2> HIDE DEF s
  <2>3. \A m \in DOMAIN s : s[m].item \in S \cup {c}
    BY <1>1, <1>2, <2>1, <2>2
  <2> QED BY <2>3 DEF s
<1> QED BY <1>3, <1>4, <1>5

LEMMA OnesFind ==
    ASSUME Base, OneOfEach, SelfReliant,
           VerifyRoot \/ VerifyReturn \/ FindDependency \/ DependencyMissing
    PROVE  OneOfEach'
<1>1. phase = "verify"
  BY DEF VerifyRoot, VerifyReturn, FindDependency, DependencyMissing, Running
<1>2. PICK E \in SUBSET Item : Covered(E)
  BY <1>1 DEF OneOfEach
<1>3. /\ \A m \in DOMAIN stack : stack[m].item \in E \cup Renewals
      /\ tree \in Inside \cap Singles /\ (choices => tree \in Sparse)
      /\ tree \in [Item -> Types]
  BY <1>1, <1>2, Basics DEF OneOfEach, Covered
<1>4. ASSUME NEW why \in Errors, Fail(why) PROVE OneOfEach'
  BY <1>4, OnesFail
<1>5. ASSUME NEW s, NEW m, VerifyStep(s, m), \A l \in DOMAIN s : s[l].item \in E \cup Renewals
      PROVE  OneOfEach'
  <2>1. /\ UNCHANGED <<packages, type, choices, best, phase, result>> /\ tree' = tree /\ stack' = s
    BY <1>5 DEF VerifyStep
  <2> QED BY <1>1, <1>2, <1>3, <1>5, <2>1, OnesFound
<1>6. ASSUME NEW t \in [Item -> Types], NEW i \in Item, NEW s, NEW pos, EnterForm(t, i, s, pos),
             t \in Inside \cap Singles, choices => t \in Sparse,
             \A l \in DOMAIN Append(s, Frame(i)) : Append(s, Frame(i))[l].item \in E \cup Renewals
      PROVE  OneOfEach'
  <2>1. /\ UNCHANGED <<packages, type, choices, best, phase, result>>
        /\ tree' = TrimmedConflicts(t, i, FALSE) /\ stack' = Append(s, Frame(i))
    BY <1>6 DEF EnterForm
  <2>2. Fewer(t, tree')
    BY <2>1, TrimmedIs
  <2>3. tree' \in Inside \cap Singles /\ (choices => tree' \in Sparse)
    BY <1>6, <2>2, FewerKeeps
  <2> QED BY <1>1, <1>2, <1>6, <2>1, <2>3, OnesFound
<1>7. CASE VerifyRoot
  <2> DEFINE i == Min(NextExplicit)
  <2>1. \/ Fail("conflict")
        \/ stack = <<>> /\ i \in Item /\ tree[i] = "explicit" /\ EnterForm(tree, i, <<>>, i + 1)
    BY <1>7, VerifyRootIs
  <2> HIDE DEF i
  <2>2. "conflict" \in Errors
    BY DEF Results, Errors
  <2>3. ASSUME i \in Item, tree[i] = "explicit", EnterForm(tree, i, <<>>, i + 1) PROVE OneOfEach'
    <3>1. i \in E
      BY <1>2, <2>3, GivenIs DEF Covered
    <3>2. Frame(i) \in Frames /\ Frame(i).item = i
      BY <2>3, FramesAre, Basics
    <3>3. Append(<<>>, Frame(i)) = <<Frame(i)>>
      OBVIOUS
    <3>4. DOMAIN <<Frame(i)>> = 1..1 /\ <<Frame(i)>>[1] = Frame(i)
      BY <3>2, OneFrame
    <3>5. \A l \in DOMAIN Append(<<>>, Frame(i)) : Append(<<>>, Frame(i))[l].item \in E \cup Renewals
      BY <3>1, <3>2, <3>3, <3>4
    <3> QED BY <1>3, <1>6, <2>3, <3>5
  <2> QED BY <1>4, <2>1, <2>2, <2>3
<1>8. CASE VerifyReturn
  <2>1. stack # <<>> /\ VerifyStep(Pop, missing)
    BY <1>8, VerifyReturnIs
  <2> QED BY <1>3, <1>5, <2>1, StackItems
<1>9. CASE DependencyMissing
  <2>1. stack # <<>> /\ VerifyStep(SetTop(NextDep), missing \/ Unpacked = {})
    BY <1>9, DependencyMissingIs
  <2>2. \A m \in DOMAIN SetTop(NextDep) : SetTop(NextDep)[m].item \in E \cup Renewals
    BY <1>3, <2>1, StackItems
  <2> QED BY <1>5, <2>1, <2>2
<1>10. CASE FindDependency
  <2> DEFINE c == Min(Usable)
             frames == SetTop(NextDep)
  <2>1. \/ \E why \in Errors : Fail(why)
        \/ /\ phase = "verify" /\ stack # <<>> /\ ~Exhausted
           /\ c \in Usable /\ c \in Item
           /\ \/ VerifyStep(frames, missing \/ Held(c))
              \/ /\ tree[c] = "available" /\ MayUpgrade(c) /\ ~NotFound(c)
                 /\ EnterForm(Promoted(c), c, frames, index)
    BY <1>10, FindDependencyIs
  <2> HIDE DEF c
  <2>2. ASSUME stack # <<>>, VerifyStep(frames, missing \/ Held(c)) PROVE OneOfEach'
    <3>1. \A m \in DOMAIN frames : frames[m].item \in E \cup Renewals
      BY <1>3, <2>2, StackItems
    <3> HIDE DEF frames
    <3> QED BY <1>5, <2>2, <3>1
  <2>3. ASSUME stack # <<>>, ~Exhausted, c \in Usable, c \in Item,
               tree[c] = "available", MayUpgrade(c), ~NotFound(c),
               EnterForm(Promoted(c), c, frames, index)
        PROVE  OneOfEach'
    <3>1. /\ c \in E \cup Renewals /\ Promoted(c) \in [Item -> Types]
          /\ Promoted(c) \in Inside \cap Singles /\ (choices => Promoted(c) \in Sparse)
      BY <1>1, <1>2, <1>3, <2>3, PromotedOne
    <3>2. \A m \in DOMAIN Append(frames, Frame(c)) :
              Append(frames, Frame(c))[m].item \in (E \cup Renewals) \cup {c}
      <4>1. \A x \in Item : LET s == Append(SetTop(NextDep), Frame(x))
                            IN  \A m \in DOMAIN s : s[m].item \in (E \cup Renewals) \cup {x}
        BY <1>3, <2>3, StackItems
      <4> QED BY <2>3, <4>1
    <3> HIDE DEF frames
    <3> QED BY <1>6, <2>3, <3>1, <3>2
  <2> HIDE DEF frames
  <2> QED BY <1>4, <2>1, <2>2, <2>3
<1> QED BY <1>7, <1>8, <1>9, <1>10

LEMMA OnesVerified ==
    ASSUME Base, OneOfEach, VerifiedOnly \/ VerifiedTree
    PROVE  OneOfEach'
<1>1. phase = "verify" /\ stack = <<>>
  BY VerifiedIs DEF Verified
<1>2. CASE \E why \in Errors : Fail(why)
  BY <1>2, OnesFail
<1>3. CASE Select(tree)
  BY <1>1, <1>3, OnesSelect DEF OneOfEach
<1>4. CASE KeepForm
  <2>1. /\ best' \in {tree, best} /\ phase' = "tree"
        /\ UNCHANGED <<packages, type, choices, stack, result>>
    BY <1>4 DEF KeepForm
  <2>2. best' # <<>> => best' \in Singles
    BY <1>1, <2>1 DEF OneOfEach
  <2>3. PICK E \in SUBSET Item : Covered(E)
    BY <1>1 DEF OneOfEach
  <2>4. Covered(E)' /\ E \in SUBSET Item'
    BY <2>1, <2>3, CoveredKeeps
  <2>5. \E F \in SUBSET Item : Covered(F)'
    BY <2>4
  <2>6. phase \in Busy /\ phase' \in Busy
    BY <1>1, <2>1 DEF Busy
  <2> QED BY <1>1, <2>1, <2>2, <2>5, <2>6, OnesBusy
<1> QED BY <1>2, <1>3, <1>4, VerifiedIs

LEMMA NextSame ==
    ASSUME [Next]_vars
    PROVE  packages' = packages
BY DEF Next, vars, ValidateInstalled, ValidateInstalledFails, TrimConflicts, TrimConflictsFails,
       EndTrimConflicts, TrimRoot, TrimReturn, TrimExplicit, TrimInstalled, TrimCandidate,
       TrimCandidatesEnd, EndTrim, NextTree, EndTrees, VerifyRoot, VerifyReturn, FindDependency,
       DependencyMissing, VerifiedOnly, VerifiedTree, Fail, Select, TrimStep, VerifyStep, Enter,
       KeepBest

LEMMA OnesNext == Base /\ Ones /\ [Next]_vars => Ones'
<1> SUFFICES ASSUME Base, Ones, [Next]_vars, (GivenOnce /\ SelfReliant)' PROVE OneOfEach'
  BY DEF Ones
<1>1. packages' = packages
  BY NextSame
<1>2. GivenOnce /\ SelfReliant
  BY <1>1, SameWorld
<1>3. OneOfEach
  BY <1>2 DEF Ones
<1>4. CASE UNCHANGED vars
  <2>1. /\ Singles' = Singles /\ Item' = Item /\ Sparse' = Sparse /\ Inside' = Inside
        /\ Selected' = Selected
    BY <1>1, <1>4, SameWorld DEF vars, Inside, Selected
  <2>2. \A E : Trimming(E)' = Trimming(E) /\ Covered(E)' = Covered(E)
    BY <1>1, <1>4, SameWorld DEF vars, Trimming, Covered, Settled, Pending, InProgress, Passed,
                                 Rest, Unique
  <2> QED BY <1>3, <1>4, <2>1, <2>2 DEF OneOfEach, vars
<1>5. CASE ValidateInstalledFails \/ TrimConflictsFails
  BY <1>3, <1>5, OnesFail DEF ValidateInstalledFails, TrimConflictsFails, Results, Errors
<1> QED BY <1>2, <1>3, <1>4, <1>5, OnesConflicts, OnesTrim, OnesEndTrim, OnesTree, OnesFind,
           OnesVerified DEF Next

(* Where the command line has no package twice, and what upgrades the      *)
(* target needs nothing else of the repositories, two versions of a        *)
(* package are never selected for an installation: neither by a choice of  *)
(* trees, nor beside what the target keeps (validate_dependencies).        *)
THEOREM OneOfEachName == Spec => []OneVersion
<1>1. Init => Ones
  BY OnesInit DEF Ones
<1>2. Base /\ Ones /\ Base' /\ [Next]_vars => Ones'
  BY OnesNext
<1>3. Base /\ Ones => OneVersion
  <2> SUFFICES ASSUME Base, Ones, Selected, GivenOnce, SelfReliant,
                      NEW i \in After, NEW j \in After, Name(i) = Name(j)
               PROVE  i = j
    BY DEF OneVersion
  <2>1. type \in Singles /\ Grown(type) /\ Raised(type) /\ packages \in World
    BY Basics DEF Ones, OneOfEach, Lists
  <2>2. \A x \in After : /\ x \in Item /\ type[x] \in {"explicit", "implicit", "installed"}
                         /\ type[x] # "implicit" => packages[x].type = type[x]
    BY <2>1 DEF After, Installs, Grown
  <2>3. ASSUME NEW x \in After, NEW y \in After, Name(x) = Name(y), x # y,
               type[x] = "installed"
        PROVE  FALSE
    <3>1. packages[x].type = "installed" /\ packages[x].type \in OnTarget
      BY <2>2, <2>3 DEF OnTarget
    <3>2. packages[y].type = "available"
      BY <2>1, <2>2, <2>3, <3>1, TheTarget
    <3>3. type[y] = "implicit" /\ x \in OnDisk(y)
      BY <2>2, <2>3, <3>1, <3>2 DEF OnDisk
    <3> QED BY <2>1, <2>2, <2>3, <3>3 DEF Raised
  <2>4. CASE type[i] = "installed" \/ type[j] = "installed"
    BY <2>3, <2>4
  <2>5. CASE type[i] = "implicit" \/ type[j] = "implicit"
    BY <2>1, <2>2, <2>4, <2>5 DEF Singles
  <2>6. CASE type[i] = "explicit" /\ type[j] = "explicit"
    BY <2>2, <2>6 DEF GivenOnce
  <2> QED BY <2>2, <2>4, <2>5, <2>6
<1> QED BY <1>1, <1>2, <1>3, BaseAlways, PTL DEF Spec

-----------------------------------------------------------------------------
(* Every dependency is met: the lists.                                     *)

LEMMA SameSupplies ==
    ASSUME packages' = packages
    PROVE  /\ Item' = Item /\ Given' = Given /\ Replacing' = Replacing /\ Supplied' = Supplied
           /\ Configured' = Configured /\ Peaceful' = Peaceful /\ Uncapped' = Uncapped
           /\ \A t : Users(t)' = Users(t)
           /\ \A t, i, k : MetIn(t, i, k)' = MetIn(t, i, k)
           /\ \A i, j : Clash(i, j)' = Clash(i, j)
           /\ \A i : DependsOf(i)' = DependsOf(i) /\ OnDisk(i)' = OnDisk(i)
<1>1. /\ Item' = Item /\ Given' = Given /\ Offers' = Offers
      /\ \A i : OnDisk(i)' = OnDisk(i) /\ DependsOf(i)' = DependsOf(i) /\ Name(i)' = Name(i)
  BY SameWorld
<1>2. \A d, j : Match(d, j)' = Match(d, j)
  BY <1>1 DEF Match
<1>3. /\ \A t : Users(t)' = Users(t)
      /\ \A t, i, k : MetIn(t, i, k)' = MetIn(t, i, k)
      /\ \A i, j : Clash(i, j)' = Clash(i, j)
  BY <1>1, <1>2 DEF Users, MetIn, Clash, Clashes
<1>4. Replacing' = Replacing
  BY <1>1, <1>3 DEF Replacing
<1>5. Supplied' = Supplied
  BY <1>1, <1>3, <1>4 DEF Supplied
<1>6. Configured' = Configured
  BY <1>1 DEF Configured
<1>7. Peaceful' = Peaceful
  BY <1>1, <1>2 DEF Peaceful, Clashes
<1>8. Uncapped' = Uncapped
  BY <1>1, <1>2 DEF Uncapped
<1> QED BY <1>1, <1>3, <1>4, <1>5, <1>6, <1>7, <1>8

(* What upgrades a package of the target at first is on the command line.  *)
LEMMA ListReplaces ==
    ASSUME Base, phase \in Busy, NEW t, Fewer(type, t)
    PROVE  /\ t \in Replacing /\ t \in Inside
           /\ Users(t) = Given /\ \A i \in Given : t[i] = "explicit"
<1>1. Trimmed /\ packages \in World
  BY Basics DEF Base, Busy
<1>2. t \in [Item -> Types] /\ \A j \in Item : \/ t[j] = packages[j].type
                                               \/ packages[j].type = "available" /\ t[j] = "invalid"
  BY <1>1, TrimmedFewer DEF Fewer
<1>3. /\ Given \subseteq Item /\ \A j \in Given : t[j] = "explicit"
      /\ \A j \in Item : t[j] # "implicit" /\ (t[j] = "explicit" => j \in Given)
  BY <1>1, <1>2, TheList DEF Given, StartTypes
<1>4. Users(t) = Given
  BY <1>3 DEF Users
<1>5. t \in Inside
  BY <1>2, NoneImplicit, FewerKeeps, Basics
<1>6. ASSUME NEW j \in Item, t[j] = "upgrade"
      PROVE  \E c \in Users(t) : Name(c) = Name(j) /\ packages[j].version <= packages[c].version
  <2>1. packages[j].type = "upgrade" /\ packages[j].type \in OnTarget
    BY <1>2, <1>6 DEF OnTarget
  <2>2. \E c \in Item : /\ Name(c) = Name(j) /\ packages[c].type = "explicit"
                        /\ packages[j].version <= packages[c].version
    BY <1>1, <2>1, TheTarget
  <2> QED BY <1>4, <2>2 DEF Given
<1> QED BY <1>2, <1>3, <1>4, <1>5, <1>6 DEF Replacing

LEMMA AloneSupplied ==
    ASSUME Base, phase = "installed", ValidateInstalled, selfContained'
    PROVE  type' \in Supplied /\ \A i \in Item : type'[i] # "available"
<1>1. /\ \A x \in Needed : \A j \in GivenFor(x[1], x[2]) : Match(x[2], j)
      /\ \A x \in Needed : GivenFor(x[1], x[2]) \cup InstalledFor(x[2]) # {}
  BY DEF ValidateInstalled
<1>2. type' = Alone
  BY DEF ValidateInstalled
<1>3. /\ \A i \in Item : type'[i] = IF type[i] = "available" THEN "invalid" ELSE type[i]
      /\ Fewer(type, type')
  BY <1>2, Basics DEF Alone, Fewer, Soft, Types, StartTypes
<1>4. type' \in Replacing /\ Users(type') = Given
  BY <1>3, ListReplaces DEF Busy
<1>5. ASSUME NEW i \in Given, NEW k \in DOMAIN DependsOf(i) PROVE MetIn(type', i, k)
  <2> DEFINE d == DependsOf(i)[k]
  <2>1. <<i, d>> \in Needed
    BY GivenIs DEF Needed
  <2>2. GivenFor(i, d) \cup InstalledFor(d) # {} /\ \A j \in GivenFor(i, d) : Match(d, j)
    <3> DEFINE x == <<i, d>>
    <3>1. x[1] = i /\ x[2] = d /\ x \in Needed
      BY <2>1
    <3> HIDE DEF x, d
    <3> QED BY <1>1, <3>1
  <2>3. PICK j \in GivenFor(i, d) \cup InstalledFor(d) : TRUE
    BY <2>2
  <2>4. Match(d, j) /\ j \in Item /\ type[j] \in {"explicit", "installed"}
    BY <2>2, <2>3 DEF GivenFor, InstalledFor, Explicit, NameOf
  <2> QED BY <1>3, <2>4 DEF MetIn
<1> QED BY <1>3, <1>4, <1>5 DEF Supplied

(* Nothing can be lost where there is no candidate.                        *)
LEMMA NothingLost ==
    ASSUME Base, phase \in Busy, NEW t, Fewer(type, t), \A i \in Item : type[i] # "available"
    PROVE  t = type
<1>1. \A i \in Item : type[i] # "implicit"
  BY NoneImplicit DEF Inside, Soft
<1>2. t \in [Item -> Types] /\ type \in [Item -> Types] /\ \A j \in Item : t[j] = type[j]
  BY <1>1, Basics DEF Fewer, Soft
<1> QED BY <1>2

(* A step before the verification.                                         *)
LEMMA ServesList ==
    ASSUME Base, phase \in Busy, Served, packages' = packages, result' = result, best' = best,
           selfContained' = selfContained, Fewer(type, type'), phase' \in Busy,
           phase' # "installed", phase' = "conflicts" => index' # 0, phase' # "verify", Calm'
    PROVE  Served'
<1>1. Item' = Item /\ Supplied' = Supplied
  BY SameSupplies
<1>2. ~Selected'
  BY DEF Base, Busy, Selected
<1>3. selfContained' => type' = type
  BY NothingLost DEF Served, Busy
<1>4. selfContained' => type' \in Supplied /\ \A i \in Item : type'[i] # "available"
  BY <1>3 DEF Served, Busy
<1> QED BY <1>1, <1>2, <1>4 DEF Served

LEMMA ServesFail ==
    ASSUME Base, Served, NEW why \in Errors, Fail(why)
    PROVE  Served'
<1>1. phase' = "done" /\ result' = why /\ why # "selected" /\ packages' = packages /\ best' = best
  BY DEF Fail, Errors
<1>2. Supplied' = Supplied
  BY <1>1, SameSupplies
<1> QED BY <1>1, <1>2 DEF Served, Selected, Calm

LEMMA ServesSelect ==
    ASSUME Base, Served, NEW t \in Supplied, Select(t)
    PROVE  Served'
<1>1. phase' = "done" /\ type' = t /\ packages' = packages /\ best' = best
  BY DEF Select
<1>2. Supplied' = Supplied
  BY <1>1, SameSupplies
<1> QED BY <1>1, <1>2 DEF Served, Calm

LEMMA ServesInit == ASSUME Init PROVE Served
BY DEF Init, Served, Selected, Calm

LEMMA ServesInstalled ==
    ASSUME Base, Served, ValidateInstalled
    PROVE  Served'
<1>1. /\ phase = "installed" /\ phase' = "conflicts"
      /\ UNCHANGED <<packages, best, index, result>>
  BY DEF ValidateInstalled
<1>2. index' = 1
  BY <1>1 DEF Served
<1>3. Calm'
  <2>1. Given' = Given /\ Item' = Item /\ \A i \in Item : ~(i < 1)
    BY <1>1, SameSupplies, TheList, Basics
  <2>2. Given \subseteq Item
    BY GivenIs
  <2> QED BY <1>1, <1>2, <2>1, <2>2 DEF Calm
<1>4. Item' = Item /\ Supplied' = Supplied
  BY <1>1, SameSupplies
<1>5. ~Selected'
  BY <1>1 DEF Base, Selected
<1>6. selfContained' => type' \in Supplied /\ \A i \in Item : type'[i] # "available"
  BY <1>1, AloneSupplied
<1>7. best' # <<>> => best' \in Supplied
  BY <1>1 DEF Served
<1> QED BY <1>1, <1>2, <1>3, <1>4, <1>5, <1>6, <1>7 DEF Served

LEMMA ServesConflicts ==
    ASSUME Base, Served, TrimConflicts
    PROVE  Served'
<1>1. /\ phase = "conflicts" /\ index \in Item /\ index' = index + 1 /\ index \in Nat
      /\ UNCHANGED <<packages, selfContained, tree, missing, n, best, phase, stack, result>>
      /\ \/ type[index] = "invalid" /\ type' = type
         \/ type' = TrimmedConflicts(type, index, type[index] # "explicit")
      /\ packages \in World /\ Item \subseteq Nat /\ type \in [Item -> Types]
  BY Basics DEF TrimConflicts
<1>2. Fewer(type, type')
  BY BaseConflicts
<1>3. /\ Given' = Given /\ Item' = Item /\ Given \subseteq Item
      /\ \A i, j : Clash(i, j)' = Clash(i, j)
  BY <1>1, SameSupplies, GivenIs
<1>4. ASSUME NEW i \in Given, NEW j \in Item, type'[j] = "available"
      PROVE  /\ i < index + 1 => ~Clash(i, j)
             /\ j < index + 1 => ~Clash(j, i)
  <2>1. type[j] = "available" /\ type[i] = "explicit" /\ i # j /\ i \in Nat /\ j \in Nat
    BY <1>1, <1>2, <1>3, <1>4, GivenIs DEF Fewer
  <2>2. (i < index => ~Clash(i, j)) /\ (j < index => ~Clash(j, i))
    BY <1>1, <2>1 DEF Served, Calm
  <2>3. CASE i = index
    <3> DEFINE hits == Hits(type, index, FALSE)
               lost == {x \in hits : type[x] \in Soft}
                         \cup {x \in {index} : type[x] \in Soft /\ hits # {}}
    <3>1. type' = TrimmedConflicts(type, index, FALSE)
      BY <1>1, <2>1, <2>3
    <3>2. Clash(i, j) => j \in hits
      BY <1>4, <2>1, <2>3 DEF Hits, Clash, Hard
    <3>3. type'[j] = IF j \in lost THEN "invalid" ELSE type[j]
      BY <1>4, <3>1 DEF TrimmedConflicts
    <3>4. ~Clash(i, j)
      BY <1>4, <2>1, <3>2, <3>3 DEF Soft
    <3>5. j < index + 1 => j < index
      BY <1>1, <2>1, <2>3
    <3> QED BY <2>2, <3>4, <3>5
  <2>4. CASE j = index
    <3> DEFINE hits == Hits(type, index, TRUE)
               lost == {x \in hits : type[x] \in Soft}
                         \cup {x \in {index} : type[x] \in Soft /\ hits # {}}
    <3>1. type' = TrimmedConflicts(type, index, TRUE)
      BY <1>1, <2>1, <2>4
    <3>2. Clash(j, i) => i \in hits
      BY <1>3, <2>1, <2>4 DEF Hits, Clash
    <3>3. type'[j] = IF j \in lost THEN "invalid" ELSE type[j]
      BY <1>4, <3>1 DEF TrimmedConflicts
    <3>4. hits # {} => j \in lost
      BY <2>1, <2>4 DEF Soft
    <3>5. ~Clash(j, i)
      <4> HIDE DEF hits, lost
      <4> QED BY <1>4, <3>2, <3>3, <3>4
    <3>6. i < index + 1 => i < index
      BY <1>1, <2>1, <2>4
    <3> QED BY <2>2, <3>5, <3>6
  <2>5. CASE i # index /\ j # index
    BY <1>1, <2>1, <2>2, <2>5
  <2> QED BY <2>3, <2>4, <2>5
<1>5. Calm'
  BY <1>1, <1>3, <1>4 DEF Calm
<1>6. phase \in Busy /\ phase' \in Busy /\ index' # 0
  BY <1>1 DEF Busy
<1> QED BY <1>1, <1>2, <1>5, <1>6, ServesList

LEMMA CalmKeeps ==
    ASSUME phase \in {"trim", "tree", "verify"}, phase' \in {"trim", "tree", "verify"}, Calm,
           packages' = packages, Fewer(type, type')
    PROVE  Calm'
<1>1. /\ Given' = Given /\ Item' = Item
      /\ \A i, j : Clash(i, j)' = Clash(i, j)
  BY SameSupplies
<1>2. \A j \in Item : type'[j] = "available" => type[j] = "available"
  BY DEF Fewer
<1> QED BY <1>1, <1>2 DEF Calm

LEMMA ServesEndConflicts ==
    ASSUME Base, Served, EndTrimConflicts
    PROVE  Served'
<1>1. /\ phase = "conflicts" /\ index \notin Item /\ phase' = "trim" /\ type' = type
      /\ UNCHANGED <<packages, selfContained, best, result>> /\ index # 0
  BY DEF EndTrimConflicts, Served
<1>2. \A i \in Item : i < index
  BY <1>1, TheList, Basics
<1>3. /\ Given' = Given /\ Item' = Item /\ Given \subseteq Item
      /\ \A i, j : Clash(i, j)' = Clash(i, j)
  BY <1>1, SameSupplies, GivenIs
<1>4. Calm'
  BY <1>1, <1>2, <1>3 DEF Calm, Served
<1>5. phase \in Busy /\ phase' \in Busy /\ Fewer(type, type')
  BY <1>1, Basics DEF Busy
<1> QED BY <1>1, <1>4, <1>5, ServesList

LEMMA ServesTrim ==
    ASSUME Base, Served, TrimRoot \/ TrimReturn \/ TrimExplicit \/ TrimInstalled
                           \/ TrimCandidate \/ TrimCandidatesEnd
    PROVE  Served'
<1>1. ASSUME phase = "trim", packages' = packages, best' = best, result' = result,
             phase' = phase, selfContained' = selfContained, Fewer(type, type')
      PROVE  Served'
  <2>1. phase \in Busy /\ phase' \in Busy
    BY <1>1 DEF Busy
  <2>2. Calm'
    BY <1>1, CalmKeeps DEF Served
  <2> QED BY <1>1, <2>1, <2>2, ServesList
<1>2. ASSUME NEW t, NEW s, NEW c, TrimForm(t, s, c) PROVE Served'
  BY <1>1, <1>2 DEF TrimForm, TrimStep
<1>3. ASSUME NEW why \in Errors, Fail(why) PROVE Served'
  BY <1>3, ServesFail
<1>4. CASE TrimRoot
  BY <1>1, <1>4, Basics DEF TrimRoot
<1>5. CASE TrimReturn
  BY <1>2, <1>5, TrimReturnIs DEF TrimReturnForm
<1>6. CASE TrimExplicit
  BY <1>2, <1>3, <1>6, TrimExplicitIs
<1>7. CASE TrimInstalled
  BY <1>2, <1>7, TrimInstalledIs DEF TrimNextForm
<1>8. CASE TrimCandidate
  BY <1>2, <1>3, <1>8, TrimCandidateIs
<1>9. CASE TrimCandidatesEnd
  BY <1>2, <1>3, <1>9, TrimCandidatesEndIs DEF TrimNextForm
<1> QED BY <1>4, <1>5, <1>6, <1>7, <1>8, <1>9

-----------------------------------------------------------------------------
(* Every dependency is met: the verification of a tree.                    *)

(* A step that begins to verify a tree.                                    *)
LEMMA ServesBegin ==
    ASSUME Base, phase \in Busy, Served, packages' = packages, type' = type, best' = best,
           selfContained' = selfContained, result' = result, phase' = "verify",
           phase \in {"trim", "tree"}, Fewer(type, tree'), index' = 1, stack' = <<>>
    PROVE  Served'
<1>1. /\ Item' = Item /\ Given' = Given /\ Supplied' = Supplied /\ Replacing' = Replacing
      /\ \A t : Users(t)' = Users(t)
  BY SameSupplies
<1>2. /\ tree' \in Replacing /\ tree' \in Inside /\ Users(tree') = Given
      /\ \A i \in Given : tree'[i] = "explicit"
  BY ListReplaces
<1>3. Inside' = Inside
  BY <1>1 DEF Inside
<1>4. Begun' = {}
  <2>1. \A i \in Given : ~(i < 1)
    BY GivenIs, Basics, TheList
  <2> QED BY <1>1, <1>2, <2>1 DEF Begun
<1>5. Serving'
  BY <1>1, <1>2, <1>3, <1>4 DEF Serving
<1>6. Calm'
  BY CalmKeeps, Basics DEF Served
<1>7. ~Selected'
  BY DEF Base, Busy, Selected
<1> QED BY <1>1, <1>5, <1>6, <1>7 DEF Served, Busy

LEMMA ServesEndTrim ==
    ASSUME Base, Served, EndTrim
    PROVE  Served'
<1>1. /\ phase = "trim" /\ stack = <<>> /\ phase \in Busy
      /\ \/ selfContained /\ Select(type)
         \/ /\ phase' = IF choices THEN "tree" ELSE "verify"
            /\ tree' = type /\ index' = 1
            /\ UNCHANGED <<packages, type, selfContained, choices, missing, n, best,
                           stack, result>>
  BY DEF EndTrim, Busy
<1>2. CASE selfContained /\ Select(type)
  <2>1. type \in Supplied
    BY <1>1, <1>2 DEF Served
  <2> QED BY <1>2, <2>1, ServesSelect
<1>3. CASE /\ phase' = IF choices THEN "tree" ELSE "verify"
           /\ tree' = type /\ index' = 1
           /\ UNCHANGED <<packages, type, selfContained, choices, missing, n, best, stack, result>>
  <2>1. Fewer(type, type') /\ Fewer(type, tree') /\ stack' = <<>>
    BY <1>1, <1>3, Basics
  <2>2. CASE phase' = "verify"
    BY <1>1, <1>3, <2>1, <2>2, ServesBegin
  <2>3. CASE phase' = "tree"
    <3>1. Calm' /\ phase' \in Busy
      BY <1>1, <1>3, <2>1, <2>3, CalmKeeps DEF Served, Busy
    <3> QED BY <1>1, <1>3, <2>1, <2>3, <3>1, ServesList
  <2> QED BY <1>3, <2>2, <2>3
<1> QED BY <1>1, <1>2, <1>3

LEMMA ServesTree ==
    ASSUME Base, Served, stack = <<>>, NextTree \/ EndTrees
    PROVE  Served'
<1>1. CASE NextTree
  <2>1. /\ phase = "tree" /\ tree' = Tree(n) /\ phase' = "verify" /\ index' = 1
        /\ UNCHANGED <<packages, type, selfContained, choices, best, stack, result>>
    BY <1>1 DEF NextTree
  <2>2. Fewer(type, tree') /\ phase \in Busy
    BY <2>1, TreeIs DEF Busy
  <2> QED BY <2>1, <2>2, ServesBegin
<1>2. CASE EndTrees
  <2>1. CASE \E why \in Errors : Fail(why)
    BY <2>1, ServesFail
  <2>2. CASE best # <<>> /\ Select(best)
    BY <2>2, ServesSelect DEF Served
  <2> QED BY <1>2, <2>1, <2>2, EndTreesIs
<1> QED BY <1>1, <1>2

(* A step of the verification, with what it must leave.                    *)
LEMMA ServesFound ==
    ASSUME Base, phase = "verify", Served, Serving',
           UNCHANGED <<packages, type, selfContained, best, phase, result>>
    PROVE  Served'
<1>1. Item' = Item /\ Supplied' = Supplied
  BY SameSupplies
<1>2. Calm'
  BY CalmKeeps, Basics DEF Served
<1>3. ~Selected'
  BY DEF Base, Selected
<1> QED BY <1>1, <1>2, <1>3 DEF Served

(* What a package enters with is not disturbed by its conflicts.           *)
LEMMA NothingHit ==
    ASSUME Base, Peaceful, Calm, phase = "verify", NEW t \in Lists, t \in Inside,
           NEW i \in Users(t), ~HardConflict(t, i, FALSE)
    PROVE  TrimmedConflicts(t, i, FALSE) = t
<1>1. /\ i \in Item /\ t[i] \in {"explicit", "implicit"} /\ t \in [Item -> Types]
  BY DEF Users, Lists
<1>2. \A j \in Item : t[j] = "explicit" <=> j \in Given
  <2> SUFFICES ASSUME NEW j \in Item PROVE t[j] = "explicit" <=> j \in Given
    OBVIOUS
  <2>1. \/ t[j] = packages[j].type
        \/ packages[j].type = "available" /\ t[j] \in {"implicit", "invalid"}
        \/ packages[j].type = "installed" /\ t[j] = "upgrade"
    BY DEF Lists, Grown
  <2> QED BY <2>1 DEF Given
<1>3. \A j \in Item : t[j] \in Soft => type[j] = "available" /\ packages[j].type = "available"
  <2> SUFFICES ASSUME NEW j \in Item, t[j] \in Soft
               PROVE  type[j] = "available" /\ packages[j].type = "available"
    OBVIOUS
  <2>1. type[j] = "available"
    BY DEF Inside
  <2>2. Trimmed
    BY DEF Base
  <2> QED BY <2>1, <2>2 DEF Trimmed
<1>4. ASSUME NEW j \in Hits(t, i, FALSE) PROVE FALSE
  <2>1. /\ j \in Item /\ j # i /\ Clash(i, j)
        /\ t[j] \in Hard \cup {"implicit"} \/ (t[i] \in Hard /\ t[j] = "available")
    BY <1>4 DEF Hits, Clash
  <2>2. CASE t[i] = "explicit"
    <3>1. t[j] \notin Hard
      BY <1>4, <2>2 DEF HardConflict, Hard
    <3>2. type[j] = "available"
      BY <1>3, <2>1, <3>1 DEF Soft
    <3> QED BY <1>1, <1>2, <2>1, <2>2, <3>2 DEF Calm
  <2>3. CASE t[i] = "implicit"
    <3>1. type[i] = "available" /\ i \in Offers
      BY <1>1, <1>3, <2>3 DEF Soft, Offers
    <3>2. packages[j].type = "explicit"
      BY <2>1, <3>1 DEF Peaceful, Clash
    <3> QED BY <1>1, <2>1, <3>1, <3>2 DEF Calm, Given
  <2> QED BY <1>1, <2>2, <2>3
<1>5. Hits(t, i, FALSE) = {}
  BY <1>4
<1> QED BY <1>1, <1>5 DEF TrimmedConflicts

(* A frame leaves its last dependency, or one that is met.                 *)
LEMMA PendingSteps ==
    ASSUME Base, stack # <<>>, packages' = packages, NEW u, NEW d, u = Top.item, d = Top.dep,
           \/ stack' = Pop /\ Exhausted
           \/ stack' = SetTop(NextDep)
           \/ \E c \in Item : stack' = Append(SetTop(NextDep), Frame(c))
    PROVE  /\ ~Exhausted => d \in DOMAIN DependsOf(u) /\ Dependency = DependsOf(u)[d]
           /\ \A i \in Item : \A k \in DOMAIN DependsOf(i) :
                  Pending(i, k) => Pending(i, k)' \/ (~Exhausted /\ i = u /\ k = d)
           /\ \A c \in Item : stack' = Append(SetTop(NextDep), Frame(c)) =>
                  \A k \in DOMAIN DependsOf(c) : Pending(c, k)'
<1>1. /\ Len(stack) \in Nat \ {0} /\ DOMAIN stack = 1..Len(stack) /\ Top = stack[Len(stack)]
      /\ stack \in Seq(Frames) /\ packages \in World /\ u \in Item /\ d \in Nat \ {0}
  BY TopIs, Basics
<1>2. NextDep \in Frames /\ NextDep.item = u /\ NextDep.dep = d + 1
  BY <1>1, FramesAre
<1>3. \A i \in Item : DOMAIN DependsOf(i) = 1..Len(DependsOf(i)) /\ Len(DependsOf(i)) \in Nat
  BY <1>1, TheList
<1>4. Exhausted <=> d > Len(DependsOf(u))
  BY DEF Exhausted
<1>5. ~Exhausted => d \in DOMAIN DependsOf(u) /\ Dependency = DependsOf(u)[d]
  BY <1>1, <1>3, <1>4 DEF Dependency
<1>6. PICK v \in Item, e \in Nat \ {0}, g \in Frames :
          v = u /\ e = d /\ g = NextDep /\ g.item = v /\ g.dep = e + 1
  BY <1>1, <1>2
<1>7. ASSUME NEW c \in Item, stack' = Append(SetTop(NextDep), Frame(c))
      PROVE  /\ DOMAIN stack' = 1..(Len(stack) + 1) /\ stack'[Len(stack)] = g
             /\ stack'[Len(stack) + 1].item = c /\ stack'[Len(stack) + 1].dep = 1
             /\ \A m \in 1..(Len(stack) - 1) : stack'[m] = stack[m]
  <2> DEFINE s == Append(SetTop(g), Frame(c))
  <2>1. Frame(c) \in Frames /\ Frame(c).item = c /\ Frame(c).dep = 1
    BY <1>1, FramesAre
  <2>2. /\ DOMAIN s = 1..(Len(stack) + 1) /\ s[Len(stack)] = g
        /\ s[Len(stack) + 1] = Frame(c)
        /\ \A m \in 1..(Len(stack) - 1) : s[m] = stack[m]
    <3>1. g \in Frames /\ stack \in Seq(Frames)
      BY <1>1
    <3>2. Frame(c) \in Frames
      BY <2>1
    <3> QED BY <3>1, <3>2, Calls
  <2>3. stack' = s
    BY <1>6, <1>7
  <2> HIDE DEF s
  <2> QED BY <2>1, <2>2, <2>3
<1>8. /\ \A m \in 1..(Len(stack) - 1) : m \in DOMAIN stack' /\ stack'[m] = stack[m]
      /\ ~Exhausted => Len(stack) \in DOMAIN stack' /\ stack'[Len(stack)] = g
  <2>1. CASE stack' = Pop /\ Exhausted
    BY <1>1, <1>6, <2>1, Pops
  <2>2. CASE stack' = SetTop(NextDep)
    <3>1. /\ DOMAIN stack' = DOMAIN stack /\ stack'[Len(stack)] = g
          /\ \A m \in 1..(Len(stack) - 1) : stack'[m] = stack[m]
      BY <1>1, <1>2, <1>6, <2>2, Sets
    <3>2. Len(stack) \in DOMAIN stack' /\ \A m \in 1..(Len(stack) - 1) : m \in DOMAIN stack'
      <4>1. Len(stack) \in 1..Len(stack) /\ \A m \in 1..(Len(stack) - 1) : m \in 1..Len(stack)
        BY <1>1
      <4> QED BY <1>1, <3>1, <4>1
    <3> QED BY <3>1, <3>2
  <2>3. CASE \E c \in Item : stack' = Append(SetTop(NextDep), Frame(c))
    <3>1. /\ DOMAIN stack' = 1..(Len(stack) + 1) /\ stack'[Len(stack)] = g
          /\ \A m \in 1..(Len(stack) - 1) : stack'[m] = stack[m]
      BY <1>7, <2>3
    <3> QED BY <1>1, <3>1
  <2> QED BY <2>1, <2>2, <2>3
<1>9. ASSUME NEW i \in Item, NEW k \in DOMAIN DependsOf(i), Pending(i, k)
      PROVE  Pending(i, k)' \/ (~Exhausted /\ i = u /\ k = d)
  <2>1. PICK m \in DOMAIN stack : stack[m].item = i /\ stack[m].dep <= k
    BY <1>9 DEF Pending
  <2>2. CASE m # Len(stack)
    <3>1. m \in DOMAIN stack' /\ stack'[m] = stack[m]
      BY <1>1, <1>8, <2>1, <2>2
    <3> QED BY <2>1, <3>1 DEF Pending
  <2>3. CASE m = Len(stack)
    <3>1. i = v /\ e <= k /\ k \in Nat /\ k <= Len(DependsOf(v)) /\ Len(DependsOf(v)) \in Nat
      BY <1>1, <1>3, <1>6, <2>1, <2>3
    <3>2. ~Exhausted
      BY <1>4, <1>6, <3>1
    <3>3. Len(stack) \in DOMAIN stack' /\ stack'[Len(stack)] = g
      BY <1>6, <1>8, <3>2
    <3>4. CASE e + 1 <= k
      BY <1>6, <3>1, <3>3, <3>4 DEF Pending
    <3>5. CASE ~(e + 1 <= k)
      BY <1>6, <3>1, <3>2, <3>5
    <3> QED BY <3>4, <3>5
  <2> QED BY <2>2, <2>3
<1>10. ASSUME NEW c \in Item, stack' = Append(SetTop(NextDep), Frame(c)),
              NEW k \in DOMAIN DependsOf(c)
       PROVE  Pending(c, k)'
  <2>1. 1 <= k
    BY <1>3
  <2>2. /\ DOMAIN stack' = 1..(Len(stack) + 1)
        /\ stack'[Len(stack) + 1].item = c /\ stack'[Len(stack) + 1].dep = 1
    BY <1>7, <1>10
  <2>3. Len(stack) + 1 \in DOMAIN stack'
    BY <1>1, <2>2
  <2> QED BY <2>1, <2>2, <2>3 DEF Pending
<1> QED BY <1>5, <1>9, <1>10

LEMMA PromotedServes ==
    ASSUME Base, tree \in Inside, tree \in Replacing,
           NEW c \in Item, tree[c] = "available", MayUpgrade(c), ~NotFound(c)
    PROVE  /\ Promoted(c) \in Lists /\ Promoted(c) \in Inside /\ Promoted(c) \in Replacing
           /\ Users(Promoted(c)) = Users(tree) \cup {c}
           /\ \A j \in Item : Promoted(c)[j] = "explicit" <=> tree[j] = "explicit"
           /\ \A i, k : MetIn(tree, i, k) => MetIn(Promoted(c), i, k)
<1> DEFINE p == Promoted(c)
<1>1. /\ p \in Lists /\ p \in [Item -> Types] /\ c \notin OnDisk(c)
      /\ \A i \in Item : p[i] = IF i = c THEN "implicit"
                                ELSE IF i \in OnDisk(c) THEN "upgrade" ELSE tree[i]
  BY SeenPromoted, Basics DEF Lists
<1>2. \A k \in OnDisk(c) : /\ k \in Item /\ tree[k] = "installed" /\ Name(k) = Name(c)
                           /\ packages[k].version <= packages[c].version
  <2> SUFFICES ASSUME NEW k \in OnDisk(c)
               PROVE  /\ k \in Item /\ tree[k] = "installed" /\ Name(k) = Name(c)
                      /\ packages[k].version <= packages[c].version
    OBVIOUS
  <2>1. k \in Item /\ tree[k] = "installed" /\ Version(k) < Version(c)
    BY MayPromote, Basics
  <2>2. packages[k].version \in Nat /\ packages[c].version \in Nat
    BY <2>1, TheList, Basics
  <2> QED BY <2>1, <2>2 DEF OnDisk, Version
<1> HIDE DEF p
<1>3. /\ Users(p) = Users(tree) \cup {c}
      /\ \A j \in Item : p[j] = "explicit" <=> tree[j] = "explicit"
  BY <1>1, <1>2 DEF Users
<1>4. p \in Inside
  BY <1>1 DEF Inside, Soft
<1>5. \A i, k : MetIn(tree, i, k) => MetIn(p, i, k)
  BY <1>1, <1>2 DEF MetIn
<1>6. ASSUME NEW j \in Item, p[j] = "upgrade"
      PROVE  \E x \in Users(p) : Name(x) = Name(j) /\ packages[j].version <= packages[x].version
  <2>1. CASE j \in OnDisk(c)
    BY <1>2, <1>3, <2>1
  <2>2. CASE j \notin OnDisk(c)
    <3>1. tree[j] = "upgrade"
      BY <1>1, <1>6, <2>2
    <3> QED BY <1>3, <3>1 DEF Replacing
  <2> QED BY <2>1, <2>2
<1>7. p \in Replacing
  BY <1>1, <1>6 DEF Replacing
<1> QED BY <1>1, <1>3, <1>4, <1>5, <1>7 DEF p

(* A step of the verification serves what it has begun with.               *)
LEMMA ServingNext ==
    ASSUME Base, Serving, packages' = packages, type' = type, NEW p, tree' = p,
           p \in Inside, p \in Replacing, missing => missing',
           missing' \/ \A i \in Begun' : \A k \in DOMAIN DependsOf(i) :
                           MetIn(p, i, k) \/ Pending(i, k)'
    PROVE  Serving'
<1>1. /\ Inside' = Inside /\ Replacing' = Replacing
      /\ \A t, i, k : MetIn(t, i, k)' = MetIn(t, i, k)
      /\ \A i : DependsOf(i)' = DependsOf(i)
  BY SameSupplies DEF Inside
<1> QED BY <1>1 DEF Serving

LEMMA ServesRoot ==
    ASSUME Base, Served, Peaceful, VerifyRoot
    PROVE  Served'
<1> DEFINE r == Min(NextExplicit)
<1>1. \/ Fail("conflict")
      \/ /\ stack = <<>> /\ r \in Item /\ tree[r] = "explicit" /\ index <= r
         /\ \A j \in NextExplicit : r <= j
         /\ EnterForm(tree, r, <<>>, r + 1)
  BY VerifyRootIs
<1> HIDE DEF r
<1>2. CASE Fail("conflict")
  <2>1. "conflict" \in Errors
    BY DEF Results, Errors
  <2> QED BY <1>2, <2>1, ServesFail
<1>3. ASSUME NEW i \in Item, stack = <<>>, tree[i] = "explicit", index <= i,
             \A j \in NextExplicit : i <= j, EnterForm(tree, i, <<>>, i + 1)
      PROVE  Served'
  <2>1. /\ phase = "verify" /\ ~HardConflict(tree, i, FALSE)
        /\ tree' = TrimmedConflicts(tree, i, FALSE)
        /\ stack' = Append(<<>>, Frame(i)) /\ index' = i + 1
        /\ UNCHANGED <<packages, type, selfContained, choices, missing, n, best, phase, result>>
    BY <1>3 DEF EnterForm
  <2>2. Serving /\ Calm /\ tree \in Lists /\ packages \in World /\ Item \subseteq Nat
        /\ index \in Nat
    BY <2>1, Basics DEF Served
  <2>3. tree' = tree
    <3>1. i \in Users(tree) /\ tree \in Inside
      BY <1>3, <2>2 DEF Users, Serving
    <3> QED BY <2>1, <2>2, <3>1, NothingHit
  <2>4. \A x \in Begun' : x \in Begun \/ x = i
    <3> SUFFICES ASSUME NEW x \in Users(tree), tree[x] = "explicit", x < i + 1, ~(x < index)
                 PROVE  x = i
      BY <2>1, <2>3, SameSupplies DEF Begun
    <3>1. x \in NextExplicit /\ x \in Nat
      BY <2>2 DEF NextExplicit, Explicit, Users
    <3>2. i <= x
      BY <1>3, <3>1
    <3> QED BY <2>2, <3>1, <3>2
  <2>5. \A x, k : ~Pending(x, k)
    BY <1>3 DEF Pending
  <2>6. \A k \in DOMAIN DependsOf(i) : Pending(i, k)'
    <3>1. PICK f \in Frames : f = Frame(i) /\ f.item = i /\ f.dep = 1
      BY <2>2, FramesAre
    <3>2. stack' = <<f>>
      BY <2>1, <3>1
    <3>3. DOMAIN stack' = 1..1 /\ stack'[1] = f
      BY <3>2, OneFrame
    <3>4. \A k \in DOMAIN DependsOf(i) : 1 <= k
      BY <2>2, TheList
    <3> QED BY <3>1, <3>3, <3>4 DEF Pending
  <2>7. missing' \/ \A x \in Begun' : \A k \in DOMAIN DependsOf(x) :
                        MetIn(tree, x, k) \/ Pending(x, k)'
    BY <2>1, <2>2, <2>4, <2>5, <2>6 DEF Serving
  <2>8. tree \in Inside /\ tree \in Replacing
    BY <2>2 DEF Serving
  <2>9. Serving'
    BY <2>1, <2>2, <2>3, <2>7, <2>8, ServingNext
  <2> QED BY <2>1, <2>9, ServesFound
<1> QED BY <1>1, <1>2, <1>3

LEMMA ServesFind ==
    ASSUME Base, Served, Configured, Peaceful, VerifyReturn \/ FindDependency \/ DependencyMissing
    PROVE  Served'
<1>1. phase = "verify" /\ stack # <<>>
  BY DEF VerifyReturn, FindDependency, DependencyMissing, Running
<1>2. Serving /\ Calm /\ tree \in Lists /\ packages \in World /\ tree \in [Item -> Types]
  BY <1>1, Basics DEF Served
<1>t. PICK u \in Item, d \in Nat \ {0} : u = Top.item /\ d = Top.dep
  BY <1>1, TopIs, Basics
<1>3. ASSUME NEW s, NEW m, VerifyStep(s, m), missing => m,
             \/ s = Pop /\ Exhausted
             \/ s = SetTop(NextDep) /\ (m \/ (~Exhausted /\ MetIn(tree, u, d)))
      PROVE  Served'
  <2>1. /\ UNCHANGED <<packages, type, selfContained, choices, tree, n, best, phase, index, result>>
        /\ stack' = s /\ missing' = m
    BY <1>3 DEF VerifyStep
  <2>2. Begun' = Begun
    BY <2>1, SameSupplies DEF Begun
  <2>3. \A i \in Item : \A k \in DOMAIN DependsOf(i) :
            Pending(i, k) => Pending(i, k)' \/ (~Exhausted /\ i = u /\ k = d)
    <3>1. (stack' = Pop /\ Exhausted) \/ stack' = SetTop(NextDep)
      BY <1>3, <2>1
    <3> QED BY <1>1, <1>t, <2>1, <3>1, PendingSteps
  <2>4. missing' \/ \A i \in Begun' : \A k \in DOMAIN DependsOf(i) :
                        MetIn(tree, i, k) \/ Pending(i, k)'
    <3> SUFFICES ASSUME ~m, NEW i \in Begun, NEW k \in DOMAIN DependsOf(i)
                 PROVE  MetIn(tree, i, k) \/ Pending(i, k)'
      BY <2>1, <2>2
    <3>1. i \in Item /\ (MetIn(tree, i, k) \/ Pending(i, k))
      BY <1>2, <1>3 DEF Serving, Begun, Users
    <3>2. ~Exhausted => MetIn(tree, u, d)
      BY <1>3
    <3> QED BY <2>3, <3>1, <3>2
  <2>5. tree \in Inside /\ tree \in Replacing /\ (missing => missing')
    BY <1>2, <1>3, <2>1 DEF Serving
  <2>6. Serving'
    BY <1>2, <2>1, <2>4, <2>5, ServingNext
  <2> QED BY <1>1, <2>1, <2>6, ServesFound
<1>4. CASE VerifyReturn
  <2>1. Exhausted /\ VerifyStep(Pop, missing)
    BY <1>4, VerifyReturnIs
  <2> QED BY <1>3, <2>1
<1>5. CASE DependencyMissing
  <2>1. VerifyStep(SetTop(NextDep), missing \/ Unpacked = {})
    BY <1>5, DependencyMissingIs
  <2>2. Unpacked = {}
    <3> SUFFICES ASSUME NEW j \in Item, tree[j] = "unpacked" PROVE FALSE
      BY DEF Unpacked, NameOf
    <3>1. \/ tree[j] = packages[j].type
          \/ packages[j].type = "available" /\ tree[j] \in {"implicit", "invalid"}
          \/ packages[j].type = "installed" /\ tree[j] = "upgrade"
      BY <1>2 DEF Lists, Grown
    <3> QED BY <3>1 DEF Configured
  <2> DEFINE s == SetTop(NextDep)
             m == missing \/ Unpacked = {}
  <2>3. /\ VerifyStep(s, m) /\ s = SetTop(NextDep) /\ (missing => m)
        /\ m \/ (~Exhausted /\ MetIn(tree, u, d))
    BY <2>1, <2>2
  <2> HIDE DEF s, m
  <2> QED BY <1>3, <2>3
<1>6. CASE FindDependency
  <2> DEFINE c == Min(Usable)
             s == SetTop(NextDep)
  <2>1. \/ \E why \in Errors : Fail(why)
        \/ /\ ~Exhausted /\ c \in Usable /\ c \in Item
           /\ \/ tree[c] # "available" /\ VerifyStep(s, missing \/ Held(c))
              \/ /\ tree[c] = "available" /\ MayUpgrade(c) /\ ~NotFound(c)
                 /\ EnterForm(Promoted(c), c, s, index)
    BY <1>6, FindDependencyIs
  <2>2. s = SetTop(NextDep)
    OBVIOUS
  <2> HIDE DEF c, s
  <2>3. ~Exhausted => d \in DOMAIN DependsOf(u) /\ Dependency = DependsOf(u)[d]
    <3>1. Exhausted <=> d > Len(DependsOf(u))
      BY <1>t DEF Exhausted
    <3>2. DOMAIN DependsOf(u) = 1..Len(DependsOf(u)) /\ Len(DependsOf(u)) \in Nat
      BY <1>2, TheList
    <3> QED BY <1>t, <3>1, <3>2 DEF Dependency
  <2>4. ASSUME ~Exhausted, c \in Usable, c \in Item, tree[c] # "available",
               VerifyStep(s, missing \/ Held(c))
        PROVE  Served'
    <3>1. Match(Dependency, c) /\ tree[c] \in {"explicit", "implicit", "installed", "upgrade"}
      BY <2>4 DEF Usable
    <3>2. MetIn(tree, u, d)
      BY <2>3, <2>4, <3>1 DEF MetIn
    <3> DEFINE m == missing \/ Held(c)
    <3>3. VerifyStep(s, m) /\ (missing => m)
      BY <2>4
    <3> HIDE DEF m
    <3> QED BY <1>3, <2>2, <2>4, <3>2, <3>3
  <2>5. ASSUME NEW x \in Item, ~Exhausted, x \in Usable, tree[x] = "available", MayUpgrade(x),
               ~NotFound(x), EnterForm(Promoted(x), x, s, index)
        PROVE  Served'
    <3>1. PICK p \in Lists : p = Promoted(x)
      BY <2>5, SeenPromoted, Basics
    <3>2. /\ p \in Inside /\ p \in Replacing /\ Users(p) = Users(tree) \cup {x}
          /\ \A j \in Item : p[j] = "explicit" <=> tree[j] = "explicit"
          /\ \A i, k : MetIn(tree, i, k) => MetIn(p, i, k)
      BY <1>2, <2>5, <3>1, PromotedServes DEF Serving
    <3>3. /\ ~HardConflict(p, x, FALSE) /\ tree' = TrimmedConflicts(p, x, FALSE)
          /\ stack' = Append(s, Frame(x)) /\ index' = index
          /\ UNCHANGED <<packages, type, selfContained, choices, missing, n, best, phase, result>>
      BY <2>5, <3>1 DEF EnterForm
    <3>4. tree' = p
      BY <1>1, <1>2, <3>2, <3>3, NothingHit
    <3>5. \A i \in Begun' : i \in Begun \/ i = x
      BY <3>2, <3>3, <3>4, SameSupplies DEF Begun, Users
    <3>6. /\ \A i \in Item : \A k \in DOMAIN DependsOf(i) :
                 Pending(i, k) => Pending(i, k)' \/ (~Exhausted /\ i = u /\ k = d)
          /\ \A k \in DOMAIN DependsOf(x) : Pending(x, k)'
      <4>1. stack' = Append(SetTop(NextDep), Frame(x))
        BY <2>2, <3>3
      <4> QED BY <1>1, <1>t, <3>3, <4>1, PendingSteps
    <3>7. MetIn(p, u, d)
      <4>1. Match(Dependency, x) /\ p[x] = "implicit"
        BY <1>2, <2>5, <3>1, SeenPromoted DEF Usable
      <4> QED BY <2>3, <2>5, <4>1 DEF MetIn
    <3>8. missing' \/ \A i \in Begun' : \A k \in DOMAIN DependsOf(i) :
                          MetIn(p, i, k) \/ Pending(i, k)'
      <4> SUFFICES ASSUME ~missing, NEW i \in Begun', NEW k \in DOMAIN DependsOf(i)
                   PROVE  MetIn(p, i, k) \/ Pending(i, k)'
        BY <3>3
      <4>1. CASE i \in Begun
        <5>1. i \in Item /\ (MetIn(tree, i, k) \/ Pending(i, k))
          BY <1>2, <4>1 DEF Serving, Begun, Users
        <5> QED BY <3>2, <3>6, <3>7, <5>1
      <4> QED BY <3>5, <3>6, <4>1
    <3>9. Serving'
      BY <1>2, <3>2, <3>3, <3>4, <3>8, ServingNext
    <3> QED BY <1>1, <3>3, <3>9, ServesFound
  <2>6. ASSUME NEW why \in Errors, Fail(why) PROVE Served'
    BY <2>6, ServesFail
  <2> QED BY <2>1, <2>4, <2>5, <2>6
<1> QED BY <1>4, <1>5, <1>6

(* A tree that has been verified has what it depends on.                   *)
LEMMA VerifiedSupplied ==
    ASSUME Base, Serving, stack = <<>>, NextExplicit = {}, ~missing
    PROVE  tree \in Supplied
<1> SUFFICES ASSUME NEW i \in Users(tree), NEW k \in DOMAIN DependsOf(i) PROVE MetIn(tree, i, k)
  BY DEF Supplied, Serving
<1>1. i \in Begun
  <2>1. i \in Nat /\ index \in Nat /\ i \in Item
    BY Basics DEF Users
  <2>2. tree[i] = "explicit" => ~(i >= index)
    BY <2>1 DEF NextExplicit, Explicit
  <2> QED BY <2>1, <2>2 DEF Begun
<1>2. ~Pending(i, k)
  BY DEF Pending
<1> QED BY <1>1, <1>2 DEF Serving

LEMMA ServesVerified ==
    ASSUME Base, Served, VerifiedOnly \/ VerifiedTree
    PROVE  Served'
<1>1. phase = "verify" /\ stack = <<>> /\ NextExplicit = {} /\ Serving
  BY VerifiedIs DEF Verified, Served
<1>2. ~missing => tree \in Supplied
  BY <1>1, VerifiedSupplied
<1>3. CASE \E why \in Errors : Fail(why)
  BY <1>3, ServesFail
<1>4. CASE Select(tree) /\ ~missing
  BY <1>2, <1>4, ServesSelect
<1>5. CASE KeepForm
  <2>1. /\ best' \in {tree, best} /\ (best' = tree => ~missing \/ tree = best) /\ phase' = "tree"
        /\ UNCHANGED <<packages, type, selfContained, choices, stack, result>>
    BY <1>5 DEF KeepForm
  <2>2. best' # <<>> => best' \in Supplied
    BY <1>2, <2>1 DEF Served
  <2>3. Item' = Item /\ Supplied' = Supplied
    BY <2>1, SameSupplies
  <2>4. Calm'
    BY <1>1, <2>1, CalmKeeps, Basics DEF Served
  <2>5. ~Selected'
    BY <1>1, <2>1 DEF Base, Selected
  <2> QED BY <1>1, <2>1, <2>2, <2>3, <2>4, <2>5 DEF Served
<1> QED BY <1>3, <1>4, <1>5, VerifiedIs

LEMMA MeetsNext == Base /\ Meets /\ (phase = "tree" => stack = <<>>) /\ [Next]_vars => Meets'
<1> SUFFICES ASSUME Base, Meets, phase = "tree" => stack = <<>>, [Next]_vars,
                    (Configured /\ Peaceful /\ Uncapped)'
             PROVE  Served'
  BY DEF Meets
<1>1. packages' = packages
  BY NextSame
<1>2. Configured /\ Peaceful /\ Uncapped
  BY <1>1, SameSupplies
<1>3. Served
  BY <1>2 DEF Meets
<1>4. CASE UNCHANGED vars
  <2>1. /\ Supplied' = Supplied /\ Item' = Item /\ Replacing' = Replacing /\ Inside' = Inside
        /\ Selected' = Selected /\ Calm' = Calm /\ Begun' = Begun
        /\ \A i, k : Pending(i, k)' = Pending(i, k)
        /\ \A t, i, k : MetIn(t, i, k)' = MetIn(t, i, k)
        /\ \A i : DependsOf(i)' = DependsOf(i)
    BY <1>1, <1>4, SameSupplies DEF vars, Inside, Selected, Calm, Begun, Pending
  <2>2. Serving' = Serving
    BY <1>4, <2>1 DEF Serving, vars
  <2> QED BY <1>3, <1>4, <2>1, <2>2 DEF Served, vars
<1>5. CASE ValidateInstalledFails \/ TrimConflictsFails
  BY <1>3, <1>5, ServesFail DEF ValidateInstalledFails, TrimConflictsFails, Results, Errors
<1>6. CASE NextTree \/ EndTrees
  <2>1. stack = <<>>
    BY <1>6 DEF NextTree, EndTrees
  <2> QED BY <1>3, <1>6, <2>1, ServesTree
<1> QED BY <1>2, <1>3, <1>4, <1>5, <1>6, ServesInstalled, ServesConflicts, ServesEndConflicts,
           ServesTrim, ServesEndTrim, ServesRoot, ServesFind, ServesVerified DEF Next

(* The recursive functions have returned when a loop goes on.              *)
Returned == phase = "tree" => stack = <<>>

LEMMA ReturnedNext == Base /\ Returned /\ [Next]_vars => Returned'
<1> SUFFICES ASSUME Base, Returned, [Next]_vars, phase' = "tree" PROVE stack' = <<>>
  BY DEF Returned
<1>1. CASE EndTrim
  BY <1>1 DEF EndTrim, Select
<1>2. CASE VerifiedOnly \/ VerifiedTree
  <2>1. Verified /\ ((\E why \in Errors : Fail(why)) \/ Select(tree) \/ KeepForm)
    BY <1>2, VerifiedIs
  <2> QED BY <2>1 DEF Verified, Fail, Select, KeepForm
<1>3. CASE UNCHANGED vars
  BY <1>3 DEF Returned, vars
<1> QED BY <1>1, <1>2, <1>3 DEF Next, ValidateInstalled, ValidateInstalledFails, TrimConflicts,
       TrimConflictsFails, EndTrimConflicts, TrimRoot, TrimReturn, TrimExplicit, TrimInstalled,
       TrimCandidate, TrimCandidatesEnd, NextTree, EndTrees, VerifyRoot, VerifyReturn,
       FindDependency, DependencyMissing, Fail, Select, TrimStep, VerifyStep, Enter, Running

(* Where the target is configured, the packages of the repositories do not *)
(* conflict with one another nor with the target, and what accepts the     *)
(* version of the target accepts later ones, whatever is selected finds    *)
(* each of its dependencies among what the target holds in the end         *)
(* (find_dependencies, verify_tree).                                       *)
THEOREM AllMet == Spec => []DependenciesMet
<1>1. Init => Meets /\ Returned
  BY ServesInit DEF Meets, Init, Returned
<1>2. Base /\ Meets /\ Returned /\ [Next]_vars => Meets' /\ Returned'
  BY MeetsNext, ReturnedNext DEF Returned
<1>3. Base /\ Meets => DependenciesMet
  <2> SUFFICES ASSUME Base, Meets, Selected, Configured, Peaceful, Uncapped,
                      NEW i \in Installs, NEW k \in DOMAIN DependsOf(i)
               PROVE  \E j \in After : Match(DependsOf(i)[k], j)
    BY DEF DependenciesMet, Satisfied
  <2>1. type \in Supplied /\ type \in Lists
    BY Basics DEF Meets, Served
  <2>2. Users(type) = Installs /\ type \in Replacing
    BY <2>1 DEF Users, Installs, Supplied
  <2>3. MetIn(type, i, k)
    BY <2>1, <2>2 DEF Supplied
  <2>4. PICK j \in Item : /\ Match(DependsOf(i)[k], j)
                          /\ type[j] \in {"explicit", "implicit", "installed", "upgrade"}
    BY <2>3 DEF MetIn
  <2>5. CASE type[j] # "upgrade"
    BY <2>4, <2>5 DEF After, Installs
  <2>6. CASE type[j] = "upgrade"
    <3>1. PICK c \in Installs : Name(c) = Name(j) /\ packages[j].version <= packages[c].version
      BY <2>2, <2>6 DEF Replacing
    <3>2. packages[j].type \in OnTarget
      BY <2>1, <2>6 DEF Lists, Grown, OnTarget
    <3>3. Match(DependsOf(i)[k], c)
      BY <2>4, <3>1, <3>2 DEF Uncapped, Installs
    <3> QED BY <3>1, <3>3 DEF After
  <2> QED BY <2>5, <2>6
<1> QED BY <1>1, <1>2, <1>3, BaseAlways, PTL DEF Spec

-----------------------------------------------------------------------------
(* The trees: the generator counts in a number system with a digit per     *)
(* group, and comes to every choice of candidates.                         *)

LEMMA DivMod ==
    ASSUME NEW d \in Nat \ {0}, NEW a \in Nat, NEW k \in Nat, k < d
    PROVE  (a * d + k) \div d = a /\ (a * d + k) % d = k /\ a * d + k \in Nat
OBVIOUS

LEMMA Digits ==
    ASSUME NEW w \in Nat \ {0}, NEW f \in Nat \ {0}, NEW a \in Nat, a < w,
           NEW k \in Nat, k < f, NEW q \in Nat
    PROVE  /\ a * f + k \in Nat /\ a * f + k < w * f
           /\ q * (w * f) + (a * f + k) = (q * w + a) * f + k
           /\ q * w + a \in Nat /\ w * f \in Nat \ {0}
<1>1. q * (w * f) + (a * f + k) = (q * w + a) * f + k
  OBVIOUS
<1>2. a * f + k \in Nat /\ q * w + a \in Nat
  BY DivMod
<1>3. a * f + k < w * f
  <2>1. PICK x \in Nat : w = a + 1 + x
    <3>1. w - a - 1 \in Nat
      OBVIOUS
    <3>2. w = a + 1 + (w - a - 1)
      OBVIOUS
    <3> QED BY <3>1, <3>2
  <2>2. w * f = a * f + f + x * f
    BY <2>1
  <2>3. x * f \in Nat
    OBVIOUS
  <2>4. a * f \in Nat
    OBVIOUS
  <2> QED BY <2>2, <2>3, <2>4
<1>4. w * f \in Nat \ {0}
  OBVIOUS
<1> QED BY <1>1, <1>2, <1>3, <1>4

LEMMA Products ==
    ASSUME NEW N \in Nat, NEW w \in [1..N -> Nat \ {0}]
    PROVE  \E f \in [0..N -> Nat \ {0}] : f[0] = 1 /\ \A m \in 1..N : f[m] = w[m] * f[m - 1]
<1> DEFINE Upto(l) == \E f \in [0..l -> Nat \ {0}] : f[0] = 1 /\ \A m \in 1..l : f[m] = w[m] * f[m - 1]
           T == {l \in 0..N : ~Upto(l)}
<1>1. Upto(0)
  <2> DEFINE f == [m \in 0..0 |-> 1]
  <2>1. f \in [0..0 -> Nat \ {0}] /\ f[0] = 1 /\ 1..0 = {}
    OBVIOUS
  <2> QED BY <2>1
<1>2. ASSUME NEW l \in Nat, l < N, Upto(l) PROVE Upto(l + 1)
  <2>1. PICK f \in [0..l -> Nat \ {0}] : f[0] = 1 /\ \A m \in 1..l : f[m] = w[m] * f[m - 1]
    BY <1>2
  <2>x. PICK x \in Nat \ {0} : x = w[l + 1] * f[l]
    <3>1. w[l + 1] \in Nat \ {0} /\ f[l] \in Nat \ {0}
      BY <1>2, <2>1
    <3> QED BY <3>1, Digits
  <2> DEFINE h == [m \in 0..l + 1 |-> IF m = l + 1 THEN x ELSE f[m]]
  <2>2. h \in [0..l + 1 -> Nat \ {0}]
    BY <2>1
  <2>3. h[0] = 1
    BY <2>1
  <2>4. ASSUME NEW m \in 1..l + 1 PROVE h[m] = w[m] * h[m - 1]
    <3>1. CASE m = l + 1
      <4>1. m - 1 = l /\ l \in 0..l + 1 /\ l # l + 1
        BY <1>2, <3>1
      <4> QED BY <2>x, <3>1, <4>1
    <3>2. CASE m # l + 1
      <4>1. m \in 1..l /\ m - 1 \in 0..l + 1 /\ m - 1 # l + 1 /\ m \in 0..l + 1
        BY <3>2
      <4> QED BY <2>1, <3>2, <4>1
    <3> QED BY <3>1, <3>2
  <2> HIDE DEF h
  <2> QED BY <2>2, <2>3, <2>4
<1> HIDE DEF Upto
<1>3. T = {}
  <2> SUFFICES ASSUME T # {} PROVE FALSE
    OBVIOUS
  <2>1. T \in SUBSET Nat
    OBVIOUS
  <2>2. PICK x \in T : \A y \in T : x <= y
    BY <2>1, MinIs
  <2>3. x \in 0..N /\ ~Upto(x) /\ x # 0
    BY <1>1, <2>2
  <2>4. x - 1 \in Nat /\ x - 1 \notin T /\ x - 1 < N /\ x - 1 \in 0..N
    BY <2>2, <2>3
  <2> QED BY <1>2, <2>3, <2>4
<1>4. Upto(N)
  BY <1>3
<1> QED BY <1>4 DEF Upto

LEMMA OptionsAre ==
    ASSUME packages \in World, NEW i \in Item
    PROVE  /\ Options(i) \subseteq Item /\ IsFiniteSet(Options(i)) /\ Size(i) \in Nat
           /\ Weight(i) \in Nat \ {0}
           /\ i \in Groups => Size(i) # 0 /\ Weight(i) = Size(i)
           /\ i \notin Groups => Weight(i) = 1
<1>1. Options(i) \subseteq Item
  BY DEF Options
<1>2. IsFiniteSet(Item)
  BY TheList, FS_Interval
<1>3. IsFiniteSet(Options(i))
  BY <1>1, <1>2, FS_Subset
<1>4. Size(i) \in Nat /\ (Size(i) = 0 <=> Options(i) = {})
  BY <1>3, FS_CardinalityType, FS_EmptySet DEF Size
<1> QED BY <1>1, <1>3, <1>4 DEF Weight, Groups

(* The numbers of the trees that the last packages of the list make.       *)
LEMMA FactorsAre ==
    ASSUME packages \in World
    PROVE  LET L == Len(packages)
           IN  /\ Factors[0] = 1
               /\ \A m \in 1..L : Factors[m] = Weight(L + 1 - m) * Factors[m - 1]
               /\ \A m \in 0..L : Factors[m] \in Nat \ {0}
<1> DEFINE N == Len(packages)
           factor(m) == Weight(N + 1 - m)
           w == [m \in 1..N |-> factor(m)]
<1>1. N \in Nat /\ Item = 1..N
  BY TheList
<1>2. w \in [1..N -> Nat \ {0}]
  <2> SUFFICES ASSUME NEW m \in 1..N PROVE Weight(N + 1 - m) \in Nat \ {0}
    OBVIOUS
  <2>1. N + 1 - m \in Item
    BY <1>1
  <2> QED BY <2>1, OptionsAre
<1>3. PICK f \in [0..N -> Nat \ {0}] : f[0] = 1 /\ \A m \in 1..N : f[m] = w[m] * f[m - 1]
  <2> HIDE DEF w, N
  <2> QED BY <1>1, <1>2, Products
<1> DEFINE values(d) == [m \in 0..N |-> IF m = 0 THEN 1 ELSE factor(m) * d[m - 1]]
           all == CHOOSE d : d = values(d)
<1>5. f = values(f)
  <2>1. ASSUME NEW m \in 0..N PROVE f[m] = values(f)[m]
    <3>1. CASE m = 0
      BY <1>3, <3>1
    <3>2. CASE m # 0
      <4>1. m \in 1..N
        BY <1>1, <3>2
      <4>2. f[m] = w[m] * f[m - 1] /\ w[m] = factor(m)
        BY <1>3, <4>1
      <4> QED BY <3>2, <4>2
    <3> QED BY <3>1, <3>2
  <2>2. values(f) = [m \in 0..N |-> values(f)[m]] /\ f = [m \in 0..N |-> f[m]]
    BY <1>3
  <2> HIDE DEF values
  <2> QED BY <2>1, <2>2
<1>6. all = values(all)
  <2> HIDE DEF values
  <2> QED BY <1>5
<1>7. Factors = all
  BY DEF Factors
<1>8. /\ all[0] = 1 /\ \A m \in 1..N : all[m] = factor(m) * all[m - 1]
      /\ all = [m \in 0..N |-> all[m]]
  <2>1. \A m \in 0..N : all[m] = values(all)[m]
    <3> HIDE DEF values, all
    <3> QED BY <1>6
  <2>2. all = [m \in 0..N |-> all[m]]
    <3>1. \A d : values(d) = [m \in 0..N |-> values(d)[m]]
      OBVIOUS
    <3> HIDE DEF values, all
    <3> QED BY <1>6, <3>1
  <2> HIDE DEF all, factor
  <2>3. values(all)[0] = 1 /\ \A m \in 1..N : values(all)[m] = factor(m) * all[m - 1]
    BY <1>1
  <2> QED BY <1>1, <2>1, <2>2, <2>3
<1> HIDE DEF all
<1>9. \A m \in 0..N : all[m] \in Nat \ {0}
  <2> DEFINE T == {m \in 0..N : all[m] \notin Nat \ {0}}
  <2> SUFFICES ASSUME T # {} PROVE FALSE
    OBVIOUS
  <2>1. T \in SUBSET Nat
    OBVIOUS
  <2>2. PICK x \in T : \A y \in T : x <= y
    <3> HIDE DEF T
    <3> QED BY <2>1, MinIs
  <2>3. x # 0 /\ x \in 1..N /\ x - 1 \in 0..N
    BY <1>1, <1>8, <2>2
  <2>4. all[x - 1] \in Nat \ {0}
    BY <2>2, <2>3
  <2>5. factor(x) \in Nat \ {0} /\ all[x] = factor(x) * all[x - 1]
    <3>1. w[x] = factor(x) /\ w[x] \in Nat \ {0}
      BY <1>2, <2>3
    <3> HIDE DEF w, factor
    <3> QED BY <1>8, <2>3, <3>1
  <2>6. all[x] \in Nat \ {0}
    <3> HIDE DEF factor
    <3> QED BY <2>4, <2>5, Digits
  <2> QED BY <2>2, <2>6
<1> QED BY <1>7, <1>8, <1>9

(* Whatever is chosen of each group, some tree has it.                     *)
LEMMA SomeTree ==
    ASSUME packages \in World, NEW r \in [Groups -> Nat], \A g \in Groups : r[g] < Size(g)
    PROVE  \E k \in Nat : k < TreeCount /\ \A g \in Groups : (k \div Divisor(g)) % Size(g) = r[g]
<1> DEFINE N == Len(packages)
           F == Factors
           Upto(m) == \E k \in Nat : /\ k < F[m]
                                     /\ \A g \in Groups : g > N - m => \A q \in Nat :
                                            ((q * F[m] + k) \div F[N - g]) % Size(g) = r[g]
           T == {m \in 0..N : ~Upto(m)}
<1>1. N \in Nat /\ Item = 1..N /\ Groups \subseteq Item
  BY TheList DEF Groups
<1>2. /\ F[0] = 1 /\ \A m \in 0..N : F[m] \in Nat \ {0}
      /\ \A m \in 1..N : F[m] = Weight(N + 1 - m) * F[m - 1]
  BY FactorsAre
<1>r. \A g \in Groups : Size(g) \in Nat /\ Weight(g) = Size(g) /\ r[g] \in Nat /\ r[g] < Size(g)
  BY <1>1, OptionsAre
<1>w. \A i \in Item : Weight(i) \in Nat \ {0}
  BY OptionsAre
<1> HIDE DEF N, F
<1>3. Upto(0)
  BY <1>1, <1>2
<1>4. ASSUME NEW l \in Nat, l < N, Upto(l) PROVE Upto(l + 1)
  <2>1. PICK k \in Nat : /\ k < F[l]
                         /\ \A g \in Groups : g > N - l => \A q \in Nat :
                                ((q * F[l] + k) \div F[N - g]) % Size(g) = r[g]
    BY <1>4
  <2>2. PICK i \in Item : i = N - l
    BY <1>1, <1>4
  <2>3. PICK w \in Nat \ {0}, f \in Nat \ {0} : w = Weight(i) /\ f = F[l] /\ F[l + 1] = w * f
    <3>1. F[l] \in Nat \ {0} /\ F[l + 1] = Weight(N + 1 - (l + 1)) * F[(l + 1) - 1]
      BY <1>1, <1>2, <1>4
    <3>2. N + 1 - (l + 1) = i /\ (l + 1) - 1 = l
      BY <1>1, <2>2
    <3> QED BY <1>w, <3>1, <3>2
  <2>4. PICK a \in Nat : a < w /\ (i \in Groups => a = r[i])
    <3>1. CASE i \in Groups
      BY <1>r, <2>3, <3>1
    <3>2. CASE i \notin Groups
      BY <2>3, <3>2
    <3> QED BY <3>1, <3>2
  <2>5. PICK h \in Nat : h = a * f + k /\ h < w * f
    BY <2>1, <2>3, <2>4, Digits
  <2>6. ASSUME NEW g \in Groups, g > N - (l + 1), NEW q \in Nat
        PROVE  ((q * F[l + 1] + h) \div F[N - g]) % Size(g) = r[g]
    <3>1. PICK p \in Nat : p = q * w + a
      BY Digits, <2>4
    <3>2. q * F[l + 1] + h = p * f + k
      BY <2>1, <2>3, <2>4, <2>5, <3>1, Digits
    <3>3. CASE g = i
      <4>1. F[N - g] = f /\ Size(g) = w /\ a = r[g]
        <5>1. N - g = l
          BY <1>1, <2>2, <3>3
        <5> QED BY <1>r, <2>3, <2>4, <3>3, <5>1
      <4>2. (p * f + k) \div f = p
        BY <2>1, <2>3, DivMod
      <4>3. p % w = a
        BY <2>4, <3>1, DivMod
      <4> QED BY <3>2, <4>1, <4>2, <4>3
    <3>4. CASE g # i
      <4>1. g > N - l
        BY <1>1, <2>2, <2>6, <3>4
      <4>2. ((p * F[l] + k) \div F[N - g]) % Size(g) = r[g]
        BY <2>1, <4>1
      <4> QED BY <2>3, <3>2, <4>2
    <3> QED BY <3>3, <3>4
  <2> QED BY <2>3, <2>5, <2>6
<1> HIDE DEF Upto
<1>5. T = {}
  <2> SUFFICES ASSUME T # {} PROVE FALSE
    OBVIOUS
  <2>1. T \in SUBSET Nat
    OBVIOUS
  <2>2. PICK x \in T : \A y \in T : x <= y
    <3> HIDE DEF T
    <3> QED BY <2>1, MinIs
  <2>3. x \in 0..N /\ ~Upto(x) /\ x # 0
    BY <1>3, <2>2
  <2>4. x - 1 \in Nat /\ x - 1 \notin T /\ x - 1 < N /\ x - 1 \in 0..N
    BY <1>1, <2>2, <2>3
  <2> QED BY <1>4, <2>3, <2>4
<1>6. Upto(N)
  BY <1>1, <1>5
<1>7. PICK k \in Nat : /\ k < F[N]
                       /\ \A g \in Groups : g > N - N => \A q \in Nat :
                              ((q * F[N] + k) \div F[N - g]) % Size(g) = r[g]
  BY <1>6 DEF Upto
<1>8. ASSUME NEW g \in Groups PROVE (k \div Divisor(g)) % Size(g) = r[g]
  <2>1. g > N - N
    BY <1>1
  <2>2. ((0 * F[N] + k) \div F[N - g]) % Size(g) = r[g]
    BY <1>7, <2>1
  <2>3. 0 * F[N] + k = k
    BY <1>1, <1>2
  <2>4. Divisor(g) = F[N - g]
    BY DEF Divisor, F, N
  <2> QED BY <2>2, <2>3, <2>4
<1>9. TreeCount = F[N]
  BY DEF TreeCount, F, N
<1> QED BY <1>7, <1>8, <1>9

(* A candidate is known by how many of its group come before it.           *)
Before(i, j) == {o \in Options(i) : o < j}

LEMMA Ranks ==
    ASSUME packages \in World, NEW g \in Item, NEW i \in Options(g)
    PROVE  /\ Cardinality(Before(g, i)) \in Nat /\ Cardinality(Before(g, i)) < Size(g)
           /\ \A j \in Options(g) :
                  Cardinality(Before(g, j)) = Cardinality(Before(g, i)) => j = i
<1>1. /\ Options(g) \subseteq Nat /\ IsFiniteSet(Options(g)) /\ Size(g) = Cardinality(Options(g))
  BY OptionsAre, TheList DEF Size
<1>2. ASSUME NEW T \in SUBSET Options(g), NEW j \in Options(g), j \notin T
      PROVE  IsFiniteSet(T) /\ Cardinality(T) \in Nat /\ Cardinality(T) < Cardinality(Options(g))
  <2>1. IsFiniteSet(T) /\ Cardinality(T) <= Cardinality(Options(g))
        /\ (Cardinality(Options(g)) = Cardinality(T) => Options(g) = T)
    BY <1>1, FS_Subset
  <2>2. Cardinality(T) \in Nat /\ Cardinality(Options(g)) \in Nat
    BY <1>1, <2>1, FS_CardinalityType
  <2> QED BY <1>2, <2>1, <2>2
<1>3. \A j \in Options(g) : Before(g, j) \in SUBSET Options(g) /\ j \notin Before(g, j)
  BY <1>1 DEF Before
<1>4. \A j \in Options(g) : IsFiniteSet(Before(g, j)) /\ Cardinality(Before(g, j)) \in Nat
                            /\ Cardinality(Before(g, j)) < Size(g)
  BY <1>1, <1>2, <1>3
<1>5. ASSUME NEW x \in Options(g), NEW y \in Options(g), x < y
      PROVE  Cardinality(Before(g, x)) < Cardinality(Before(g, y))
  <2>1. Before(g, x) \in SUBSET Before(g, y) /\ x \in Before(g, y) /\ x \notin Before(g, x)
    BY <1>1, <1>5 DEF Before
  <2>2. /\ Cardinality(Before(g, x)) <= Cardinality(Before(g, y))
        /\ Cardinality(Before(g, y)) = Cardinality(Before(g, x)) => Before(g, y) = Before(g, x)
    BY <1>4, <2>1, FS_Subset
  <2> QED BY <1>4, <2>1, <2>2
<1>6. ASSUME NEW j \in Options(g), Cardinality(Before(g, j)) = Cardinality(Before(g, i))
      PROVE  j = i
  <2>1. i \in Nat /\ j \in Nat /\ Cardinality(Before(g, i)) \in Nat
    BY <1>1, <1>4
  <2>2. ~(i < j) /\ ~(j < i)
    BY <1>5, <1>6, <2>1
  <2> QED BY <2>1, <2>2
<1> QED BY <1>4, <1>6

(* A tree picks candidates of their groups.                                *)
LEMMA ChosenIs ==
    ASSUME packages \in World, NEW g \in Groups, NEW k, NEW i \in Options(g),
           (k \div Divisor(g)) % Size(g) = Cardinality(Before(g, i))
    PROVE  Chosen(g, k) = i
<1>1. g \in Item
  BY DEF Groups
<1> DEFINE place == (k \div Divisor(g)) % Size(g)
           j == CHOOSE j \in Options(g) : Cardinality(Before(g, j)) = place
<1>2. j \in Options(g) /\ Cardinality(Before(g, j)) = place
  <2>1. \E x \in Options(g) : Cardinality(Before(g, x)) = place
    OBVIOUS
  <2> HIDE DEF place
  <2> QED BY <2>1
<1>3. Chosen(g, k) = j
  BY DEF Chosen, Before
<1> HIDE DEF j
<1>4. Cardinality(Before(g, j)) = Cardinality(Before(g, i))
  BY <1>2
<1> QED BY <1>1, <1>2, <1>3, <1>4, Ranks

-----------------------------------------------------------------------------
(* A set of packages that could be installed: the steps leave all of it.   *)

Uniform      == Alike /\ Fresh
Echoes(U)    == {i \in Item : \E j \in U : Name(j) = Name(i) /\ DependsOf(j) = DependsOf(i)}
Tracked(S)   == {f \in Frames :
    /\ f.item \in Echoes(S)
    /\ f.dep \in DOMAIN DependsOf(f.item) => \A j \in S :
           Match(DependsOf(f.item)[f.dep], j) /\ j < f.cand => j \in Given \/ f.count # 0}
Hit(S, k)    == \A g \in Groups : \A i \in Options(g) \cap S : Chosen(g, k) = i
Current(S)   == ~choices \/ \E k \in Nat : n = k + 1 /\ Hit(S, k)
Tried(k)     == k < n /\ (phase = "verify" => k + 1 < n)
Follows(S)   ==
    /\ ~missing
    /\ Users(tree) \subseteq S
    /\ \A m \in DOMAIN stack : stack[m].item \in S
    /\ \A i \in S : tree[i] \in {"explicit", "implicit", "available"}

Outset ==
    /\ phase \in {"installed", "conflicts", "trim"} => n = 0 /\ best = <<>> /\ ~missing
    /\ phase \in {"installed", "tree", "verify"} => ~selfContained
    /\ choices => Item # {}
    /\ phase = "tree" => choices
Kept(S)     == phase \in Busy /\ ~selfContained => \A i \in S : type[i] = packages[i].type
Sole        == phase \in Busy /\ selfContained => \A i \in Given : \A k \in DOMAIN DependsOf(i) :
                   Given \cap NameOf(DependsOf(i)[k]) # {}
InTrim(S)   == phase = "trim" => \A m \in DOMAIN stack :
                   IF selfContained THEN stack[m].item \in Given ELSE stack[m] \in Tracked(S)
InVerify(S) == phase = "verify" /\ Current(S) => Follows(S)
Found(S)    == phase \in {"tree", "verify"} => \A k \in Nat : Tried(k) /\ Hit(S, k) => best # <<>>
Good(S)     == Kept(S) /\ Sole /\ InTrim(S) /\ InVerify(S) /\ Found(S) /\ ~GaveUp

LEMMA SameChances ==
    ASSUME packages' = packages
    PROVE  /\ Possible' = Possible /\ Uniform' = Uniform
           /\ \A U : Echoes(U)' = Echoes(U)
           /\ \A S : Tracked(S)' = Tracked(S)
<1>1. /\ Item' = Item /\ Given' = Given /\ Offers' = Offers /\ Frames' = Frames
      /\ \A i : OnDisk(i)' = OnDisk(i) /\ DependsOf(i)' = DependsOf(i) /\ Name(i)' = Name(i)
      /\ \A d : NameOf(d)' = NameOf(d)
  BY SameWorld
<1>2. \A d, j : Match(d, j)' = Match(d, j)
  BY <1>1 DEF Match
<1>3. \A U : Echoes(U)' = Echoes(U)
  BY <1>1 DEF Echoes
<1>4. \A S : Tracked(S)' = Tracked(S)
  BY <1>1, <1>2, <1>3 DEF Tracked
<1>5. Uniform' = Uniform
  BY <1>1 DEF Uniform, Alike, Fresh
<1>6. \A S : Consistent(S)' = Consistent(S)
  BY <1>1, <1>2 DEF Consistent, Clashes, Keeps, Version
<1>7. Possible' = Possible
  BY <1>1, <1>6 DEF Possible
<1> QED BY <1>3, <1>4, <1>5, <1>7

LEMMA FreshIs ==
    ASSUME Fresh
    PROVE  /\ \A i \in Item : OnDisk(i) = {} /\ ~packages[i].held /\ (i \in Given \/ i \in Offers)
           /\ Given \subseteq Item /\ Offers \subseteq Item /\ Given \cap Offers = {} /\ Renewals = {}
<1>1. \A i \in Item : packages[i].type \in {"explicit", "available"} /\ ~packages[i].held
  BY DEF Fresh
<1>2. \A i \in Item : OnDisk(i) = {}
  BY <1>1 DEF OnDisk, OnTarget
<1> QED BY <1>1, <1>2 DEF Given, Offers, Renewals

(* What makes a set of packages possible, on an empty target.              *)
LEMMA PossibleIs ==
    ASSUME packages \in World, Uniform, NEW S \in Possible
    PROVE  /\ S \subseteq Item /\ Given \subseteq S
           /\ \A i \in S : \A k \in DOMAIN DependsOf(i) : \E j \in S : Match(DependsOf(i)[k], j)
           /\ \A i, j \in S : Name(i) = Name(j) => i = j
           /\ \A i, j \in S : ~Clash(i, j)
           /\ GivenOnce /\ SelfReliant /\ Fresh /\ Alike
<1>1. S \subseteq Item /\ Consistent(S) /\ Fresh /\ Alike
  BY DEF Possible, Uniform
<1>2. /\ Given \subseteq S
      /\ \A i \in S : \A k \in DOMAIN DependsOf(i) : \E j \in S : Match(DependsOf(i)[k], j)
      /\ \A i, j \in S : Name(i) = Name(j) => i = j
      /\ \A i, j \in S : ~Clash(i, j)
  BY <1>1 DEF Consistent, Given, Clash
<1>3. GivenOnce
  BY <1>2 DEF GivenOnce, Given
<1>4. SelfReliant
  BY <1>1, FreshIs DEF SelfReliant
<1> QED BY <1>1, <1>2, <1>3, <1>4

(* A dependency of something like a package of the set is met in the set,  *)
(* by what the command line has of that name or by something like any      *)
(* other candidate of it.                                                  *)
LEMMA EchoMet ==
    ASSUME packages \in World, Uniform, NEW S \in Possible, NEW u \in Echoes(S),
           NEW d \in DOMAIN DependsOf(u)
    PROVE  \E j \in S :
               /\ Match(DependsOf(u)[d], j) /\ j \in NameOf(DependsOf(u)[d]) /\ j \in Item
               /\ \A i \in S : i \in NameOf(DependsOf(u)[d]) => i = j
               /\ Given \cap NameOf(DependsOf(u)[d]) \subseteq {j}
               /\ j \in Offers => \A i \in Offers \cap NameOf(DependsOf(u)[d]) : i \in Echoes(S)
<1>1. PICK v \in S : DependsOf(v) = DependsOf(u)
  BY DEF Echoes
<1>2. PICK j \in S : Match(DependsOf(v)[d], j)
  BY <1>1, PossibleIs
<1>3. /\ j \in Item /\ Match(DependsOf(u)[d], j) /\ j \in NameOf(DependsOf(u)[d])
      /\ Name(j) = DependsOf(u)[d].name
  BY <1>1, <1>2, PossibleIs DEF Match, NameOf
<1>4. \A i \in S : i \in NameOf(DependsOf(u)[d]) => i = j
  BY <1>3, PossibleIs DEF NameOf
<1>5. Given \cap NameOf(DependsOf(u)[d]) \subseteq {j}
  BY <1>4, PossibleIs
<1>6. ASSUME j \in Offers, NEW i \in Offers \cap NameOf(DependsOf(u)[d]) PROVE i \in Echoes(S)
  <2>1. Name(i) = Name(j) /\ i \in Item
    BY <1>3, <1>6 DEF NameOf
  <2>2. DependsOf(i) = DependsOf(j)
    BY <1>6, <2>1, PossibleIs DEF Alike
  <2> QED BY <2>1, <2>2 DEF Echoes
<1> QED BY <1>3, <1>4, <1>5, <1>6

(* What the loops leave as it was.                                         *)
LEMMA OutsetInit == ASSUME Init PROVE Outset
BY DEF Init, Outset

LEMMA GoodFail ==
    ASSUME NEW S, NEW why, why \notin {"missing", "unsatisfied", "incompatible"}, Fail(why)
    PROVE  Good(S)'
BY DEF Fail, Good, Kept, Sole, InTrim, InVerify, Found, GaveUp, Busy

LEMMA GoodSelect ==
    ASSUME NEW S, NEW t, Select(t)
    PROVE  Good(S)'
BY DEF Select, Good, Kept, Sole, InTrim, InVerify, Found, GaveUp, Busy

LEMMA GoodInit ==
    ASSUME Init, NEW S \in Possible
    PROVE  Good(S)
<1>1. /\ type = [i \in Item |-> packages[i].type] /\ phase = "installed" /\ ~selfContained
      /\ result = "none"
  BY DEF Init
<1>2. S \subseteq Item
  BY DEF Possible
<1> QED BY <1>1, <1>2 DEF Good, Kept, Sole, InTrim, InVerify, Found, GaveUp, Busy

LEMMA OutsetNext == Base /\ Outset /\ [Next]_vars => Outset'
<1> SUFFICES ASSUME Base, Outset, [Next]_vars PROVE Outset'
  OBVIOUS
<1>1. Item' = Item
  BY NextSame, SameWorld
<1>2. CASE ValidateInstalled \/ TrimConflicts \/ EndTrimConflicts \/ TrimRoot
  <2>1. /\ phase \in {"installed", "conflicts", "trim"} /\ phase' \in {"conflicts", "trim"}
        /\ choices' = choices /\ n' = n /\ best' = best /\ missing' = missing
    BY <1>2 DEF ValidateInstalled, TrimConflicts, EndTrimConflicts, TrimRoot
  <2> QED BY <1>1, <2>1 DEF Outset
<1>3. ASSUME NEW why, Fail(why) PROVE Outset'
  BY <1>1, <1>3 DEF Fail, Outset
<1>4. ASSUME NEW t, Select(t) PROVE Outset'
  BY <1>1, <1>4 DEF Select, Outset
<1>5. ASSUME NEW t, NEW s, NEW c, TrimForm(t, s, c), c => choices \/ stack # <<>> PROVE Outset'
  <2>1. /\ phase = "trim" /\ phase' = "trim" /\ choices' = c
        /\ n' = n /\ best' = best /\ missing' = missing
    BY <1>5 DEF TrimForm, TrimStep
  <2>2. stack # <<>> => Item # {}
    BY TopIs, Basics
  <2> QED BY <1>1, <1>5, <2>1, <2>2 DEF Outset
<1>6. CASE TrimReturn
  BY <1>5, <1>6, TrimReturnIs DEF TrimReturnForm
<1>7. CASE TrimExplicit
  BY <1>3, <1>5, <1>7, TrimExplicitIs
<1>8. CASE TrimInstalled
  BY <1>5, <1>8, TrimInstalledIs DEF TrimNextForm
<1>9. CASE TrimCandidate
  BY <1>3, <1>5, <1>9, TrimCandidateIs
<1>10. CASE TrimCandidatesEnd
  BY <1>3, <1>5, <1>10, TrimCandidatesEndIs DEF TrimNextForm
<1>11. CASE EndTrim
  <2>1. \/ Select(type)
        \/ /\ ~selfContained /\ selfContained' = selfContained /\ choices' = choices
           /\ phase' = IF choices THEN "tree" ELSE "verify"
    BY <1>11 DEF EndTrim
  <2> QED BY <1>1, <1>4, <2>1 DEF Outset
<1>12. CASE NextTree
  BY <1>1, <1>12 DEF NextTree, Outset
<1>13. CASE EndTrees
  BY <1>3, <1>4, <1>13, EndTreesIs
<1>14. ASSUME phase = "verify", phase' = "verify", choices' = choices, selfContained' = selfContained
       PROVE  Outset'
  BY <1>1, <1>14 DEF Outset
<1>15. CASE VerifyRoot
  BY <1>3, <1>14, <1>15, VerifyRootIs DEF EnterForm
<1>16. CASE VerifyReturn
  BY <1>14, <1>16, VerifyReturnIs DEF VerifyStep
<1>17. CASE DependencyMissing
  BY <1>14, <1>17, DependencyMissingIs DEF VerifyStep
<1>18. CASE FindDependency
  BY <1>3, <1>14, <1>18, FindDependencyIs DEF EnterForm, VerifyStep
<1>19. CASE VerifiedOnly
  BY <1>3, <1>4, <1>19 DEF VerifiedOnly
<1>20. CASE VerifiedTree
  <2>1. choices /\ phase = "verify"
    BY <1>20 DEF VerifiedTree, Verified
  <2>2. (\E why : Fail(why)) \/ (\E t : Select(t)) \/ KeepForm
    BY <1>20, VerifiedIs
  <2>3. ASSUME KeepForm PROVE Outset'
    BY <1>1, <2>1, <2>3 DEF KeepForm, Outset
  <2> QED BY <1>3, <1>4, <2>2, <2>3
<1>21. CASE ValidateInstalledFails \/ TrimConflictsFails
  BY <1>3, <1>21 DEF ValidateInstalledFails, TrimConflictsFails
<1>22. CASE UNCHANGED vars
  BY <1>1, <1>22 DEF Outset, vars
<1> QED BY <1>2, <1>6, <1>7, <1>8, <1>9, <1>10, <1>11, <1>12, <1>13, <1>15, <1>16, <1>17, <1>18,
           <1>19, <1>20, <1>21, <1>22 DEF Next

LEMMA GoodInstalled ==
    ASSUME Base, Outset, Uniform, NEW S \in Possible, Good(S),
           ValidateInstalled \/ ValidateInstalledFails
    PROVE  Good(S)'
<1>1. phase = "installed" /\ phase \in Busy /\ ~selfContained /\ packages \in World
  BY Basics DEF ValidateInstalled, ValidateInstalledFails, Outset, Busy
<1>2. ASSUME NEW x \in Needed
      PROVE  \E i \in Given : \E k \in DOMAIN DependsOf(i) : x[1] = i /\ x[2] = DependsOf(i)[k]
  BY <1>2, GivenIs DEF Needed
<1>3. ~ValidateInstalledFails
  <2> SUFFICES ASSUME NEW x \in Needed, NEW j \in GivenFor(x[1], x[2]),
                      ~Match(x[2], j) \/ GivenFor(x[1], x[2]) # {j}
               PROVE  FALSE
    BY DEF ValidateInstalledFails
  <2>1. PICK i \in Given : \E k \in DOMAIN DependsOf(i) : x[1] = i /\ x[2] = DependsOf(i)[k]
    BY <1>2
  <2>2. PICK k \in DOMAIN DependsOf(i) : x[1] = i /\ x[2] = DependsOf(i)[k]
    BY <2>1
  <2>3. j \in Given \cap NameOf(DependsOf(i)[k])
    BY <2>2, GivenIs DEF GivenFor
  <2>4. i \in Echoes(S)
    BY <1>1, PossibleIs DEF Echoes
  <2>5. PICK l \in S : /\ Match(DependsOf(i)[k], l)
                       /\ Given \cap NameOf(DependsOf(i)[k]) \subseteq {l}
    BY <1>1, <2>4, EchoMet
  <2>6. GivenFor(x[1], x[2]) \subseteq Given \cap NameOf(DependsOf(i)[k])
    BY <2>2, GivenIs DEF GivenFor
  <2>7. GivenFor(x[1], x[2]) = {j}
    BY <2>3, <2>5, <2>6
  <2> QED BY <2>2, <2>3, <2>5, <2>7
<1>4. /\ selfContained' = \A x \in Needed : GivenFor(x[1], x[2]) \cup InstalledFor(x[2]) # {}
      /\ type' = IF selfContained' THEN Alone ELSE type
      /\ phase' = "conflicts" /\ UNCHANGED <<packages, result>>
  BY <1>3 DEF ValidateInstalled
<1>5. /\ Given' = Given /\ \A i : DependsOf(i)' = DependsOf(i)
      /\ \A d : NameOf(d)' = NameOf(d)
  BY <1>4, SameWorld
<1>6. Kept(S)'
  BY <1>1, <1>4 DEF Good, Kept, Busy
<1>7. ASSUME selfContained', NEW i \in Given, NEW k \in DOMAIN DependsOf(i)
      PROVE  Given \cap NameOf(DependsOf(i)[k]) # {}
  <2>1. PICK x \in Needed : x[1] = i /\ x[2] = DependsOf(i)[k]
    <3>1. <<i, DependsOf(i)[k]>> \in Needed
      BY GivenIs DEF Needed
    <3> QED BY <3>1
  <2>2. GivenFor(x[1], x[2]) \cup InstalledFor(x[2]) # {}
    BY <1>4, <1>7
  <2>3. InstalledFor(x[2]) = {}
    <3>1. \A j \in Item : packages[j].type # "installed"
      BY <1>1, PossibleIs DEF Fresh
    <3>2. \A j \in Item : type[j] # "installed"
      BY <3>1, Basics DEF Lists, Grown
    <3> QED BY <3>2 DEF InstalledFor, NameOf
  <2> QED BY <2>1, <2>2, <2>3, GivenIs DEF GivenFor
<1>8. Sole'
  BY <1>5, <1>7 DEF Sole
<1> QED BY <1>4, <1>6, <1>8 DEF Good, InTrim, InVerify, Found, GaveUp

LEMMA GoodConflicts ==
    ASSUME Base, Uniform, NEW S \in Possible, Good(S),
           TrimConflicts \/ TrimConflictsFails \/ EndTrimConflicts, phase' = "trim" => stack = <<>>
    PROVE  Good(S)'
<1>0. packages \in World /\ Item \subseteq Nat /\ S \subseteq Item /\ Given \subseteq S
  BY PossibleIs, Basics
<1>1. CASE TrimConflictsFails
  BY <1>1, GoodFail DEF TrimConflictsFails
<1>2. ASSUME packages' = packages, phase \in Busy, phase' \in {"conflicts", "trim"},
             selfContained' = selfContained, result' = result, stack' = stack,
             \A j \in S : type'[j] = type[j]
      PROVE  Good(S)'
  <2>1. /\ Given' = Given /\ \A i : DependsOf(i)' = DependsOf(i)
        /\ \A d : NameOf(d)' = NameOf(d)
    BY <1>2, SameWorld
  <2>2. Kept(S)' /\ Sole'
    BY <1>2, <2>1 DEF Good, Kept, Sole
  <2> QED BY <1>2, <2>2 DEF Good, InTrim, InVerify, Found, GaveUp
<1>3. CASE EndTrimConflicts
  BY <1>2, <1>3 DEF EndTrimConflicts, Busy
<1>4. CASE TrimConflicts
  <2>1. /\ phase = "conflicts" /\ index \in Item
        /\ UNCHANGED <<packages, selfContained, phase, stack, result>>
        /\ type' = IF type[index] = "invalid" THEN type
                   ELSE TrimmedConflicts(type, index, type[index] # "explicit")
    BY <1>4 DEF TrimConflicts
  <2>2. PICK x \in Item : x = index
    BY <2>1
  <2> DEFINE o == type[x] # "explicit"
             hits == Hits(type, x, o)
             lost == {j \in hits : type[j] \in Soft} \cup {j \in {x} : type[x] \in Soft /\ hits # {}}
  <2>3. ASSUME NEW j \in S, j \in lost PROVE FALSE
    <3>1. CASE type[x] = "explicit"
      <4>1. x \in S
        BY <1>0, <3>1, GivenIs
      <4>2. j \in hits
        BY <2>3, <3>1 DEF Soft
      <4>3. Clash(x, j)
        BY <4>2 DEF Hits, Clash
      <4> QED BY <1>0, <4>1, <4>3, PossibleIs
    <3>2. CASE type[x] # "explicit"
      <4>1. \A i \in hits : type[i] = "explicit" /\ i \in S /\ Clash(x, i)
        BY <1>0, <3>2, GivenIs DEF Hits, Clash
      <4>2. j = x /\ hits # {}
        BY <2>3, <4>1 DEF Soft
      <4> QED BY <1>0, <4>1, <4>2, PossibleIs
    <3> QED BY <3>1, <3>2
  <2>4. \A j \in Item : TrimmedConflicts(type, x, o)[j] = IF j \in lost THEN "invalid" ELSE type[j]
    BY DEF TrimmedConflicts
  <2> HIDE DEF lost, o
  <2>5. \A j \in S : TrimmedConflicts(type, x, o)[j] = type[j]
    BY <1>0, <2>3, <2>4
  <2>6. \A j \in S : type'[j] = type[j]
    BY <2>1, <2>2, <2>5 DEF o
  <2> QED BY <1>2, <2>1, <2>6 DEF Busy
<1> QED BY <1>1, <1>3, <1>4

(* What all the frames are, they stay.                                     *)
LEMMA StackIn ==
    ASSUME stack \in Seq(Frames), stack # <<>>, NEW G, \A m \in DOMAIN stack : stack[m] \in G
    PROVE  /\ Top \in G
           /\ \A m \in DOMAIN Pop : Pop[m] \in G
           /\ \A f \in Frames \cap G : \A m \in DOMAIN SetTop(f) : SetTop(f)[m] \in G
           /\ \A f \in Frames \cap G, g \in Frames \cap G :
                  \A m \in DOMAIN Append(SetTop(f), g) : Append(SetTop(f), g)[m] \in G
<1>1. /\ Len(stack) \in Nat \ {0} /\ DOMAIN stack = 1..Len(stack) /\ Top = stack[Len(stack)]
  BY TopIs
<1>2. Top \in G /\ \A m \in DOMAIN Pop : Pop[m] \in G
  BY <1>1, Pops
<1>3. ASSUME NEW f \in Frames \cap G, NEW m \in DOMAIN SetTop(f) PROVE SetTop(f)[m] \in G
  <2>1. /\ DOMAIN SetTop(f) = DOMAIN stack /\ SetTop(f)[Len(stack)] = f
        /\ \A l \in 1..(Len(stack) - 1) : SetTop(f)[l] = stack[l]
    BY Sets
  <2> QED BY <1>1, <1>3, <2>1
<1>4. ASSUME NEW f \in Frames \cap G, NEW g \in Frames \cap G, NEW m \in DOMAIN Append(SetTop(f), g)
      PROVE  Append(SetTop(f), g)[m] \in G
  <2> DEFINE s == Append(SetTop(f), g)
  <2>1. /\ DOMAIN s = 1..(Len(stack) + 1) /\ s[Len(stack)] = f /\ s[Len(stack) + 1] = g
        /\ \A l \in 1..(Len(stack) - 1) : s[l] = stack[l]
    BY Calls
  <2>2. m \in DOMAIN s
    BY <1>4
  <2> HIDE DEF s
  <2>3. s[m] \in G
    BY <1>1, <2>1, <2>2
  <2> QED BY <2>3 DEF s
<1> QED BY <1>2, <1>3, <1>4

LEMMA TracksFirst ==
    ASSUME packages \in World, NEW S \in SUBSET Item, NEW f \in Frames, f.cand = 1,
           f.item \in Echoes(S)
    PROVE  f \in Tracked(S)
<1>1. \A j \in S : ~(j < 1)
  BY TheList
<1> QED BY <1>1 DEF Tracked

(* The dependency the trimming is at can be met.                           *)
LEMMA TrimMet ==
    ASSUME Base, Uniform, NEW S \in Possible, Good(S), phase = "trim", stack # <<>>, ~Exhausted
    PROVE  /\ Top.item \in Echoes(S) /\ Present = {}
           /\ selfContained => ~NoneGiven
           /\ \E j \in S :
               /\ Match(Dependency, j) /\ j \in NameOf(Dependency) /\ j \in Item
               /\ \A i \in S : i \in NameOf(Dependency) => i = j
               /\ Given \cap NameOf(Dependency) \subseteq {j}
               /\ j \in Offers => \A i \in Offers \cap NameOf(Dependency) : i \in Echoes(S)
               /\ ~selfContained /\ NoneGiven =>
                      j \in Offers /\ type[j] = "available" /\ (j < Top.cand => Top.count # 0)
<1>0. /\ packages \in World /\ stack \in Seq(Frames) /\ phase \in Busy
      /\ S \subseteq Item /\ Given \subseteq S
  BY PossibleIs, Basics DEF Busy
<1>1. PICK u \in Item, d \in Nat \ {0} : u = Top.item /\ d = Top.dep
  BY <1>0, TopIs
<1>2. Dependency = DependsOf(u)[d] /\ d \in DOMAIN DependsOf(u)
  <2>1. DOMAIN DependsOf(u) = 1..Len(DependsOf(u)) /\ Len(DependsOf(u)) \in Nat
    BY <1>0, TheList
  <2> QED BY <1>1, <2>1 DEF Dependency, Exhausted
<1>3. /\ selfContained => u \in Given
      /\ ~selfContained => Top \in Tracked(S)
  <2>1. Len(stack) \in DOMAIN stack /\ Top = stack[Len(stack)]
    BY <1>0, TopIs
  <2> QED BY <1>1, <2>1 DEF Good, InTrim
<1>4. u \in Echoes(S)
  <2>1. selfContained => u \in Echoes(S)
    BY <1>0, <1>3 DEF Echoes
  <2>2. ~selfContained => u \in Echoes(S)
    BY <1>1, <1>3 DEF Tracked
  <2> QED BY <2>1, <2>2
<1>5. Present = {}
  <2>1. \A i \in Item : packages[i].type \in {"explicit", "available"}
    BY DEF Uniform, Fresh
  <2>2. \A i \in Item : type[i] \notin OnTarget
    BY <2>1, Basics DEF Lists, Grown, OnTarget, Base, Trimmed, Busy
  <2> QED BY <2>2 DEF Present, NameOf, OnTarget
<1>6. selfContained => ~NoneGiven
  BY <1>0, <1>2, <1>3, GivenIs DEF Good, Sole, NoneGiven
<1>7. PICK j \in S :
          /\ Match(Dependency, j) /\ j \in NameOf(Dependency) /\ j \in Item
          /\ \A i \in S : i \in NameOf(Dependency) => i = j
          /\ Given \cap NameOf(Dependency) \subseteq {j}
          /\ j \in Offers => \A i \in Offers \cap NameOf(Dependency) : i \in Echoes(S)
  BY <1>0, <1>2, <1>4, EchoMet
<1>8. ASSUME ~selfContained, NoneGiven
      PROVE  j \in Offers /\ type[j] = "available" /\ (j < Top.cand => Top.count # 0)
  <2>1. j \notin Given
    BY <1>7, <1>8, GivenIs DEF NoneGiven
  <2>2. j \in Offers
    BY <1>7, <2>1, PossibleIs, FreshIs, <1>0
  <2>3. type[j] = "available"
    BY <1>0, <1>8, <2>2 DEF Good, Kept, Offers
  <2>4. j < Top.cand => Top.count # 0
    BY <1>1, <1>2, <1>3, <1>7, <1>8, <2>1 DEF Tracked
  <2> QED BY <2>2, <2>3, <2>4
<1> QED BY <1>1, <1>4, <1>5, <1>6, <1>7, <1>8

LEMMA GoodTrimmed ==
    ASSUME Base, NEW S \in Possible, Good(S), phase = "trim",
           UNCHANGED <<packages, selfContained, phase, result>>,
           ~selfContained => \A j \in S : type'[j] = type[j],
           \A m \in DOMAIN stack' :
               IF selfContained THEN stack'[m].item \in Given ELSE stack'[m] \in Tracked(S)
    PROVE  Good(S)'
<1>1. /\ Given' = Given /\ \A i : DependsOf(i)' = DependsOf(i)
      /\ \A d : NameOf(d)' = NameOf(d)
  BY SameWorld
<1>2. Tracked(S)' = Tracked(S)
  BY SameChances
<1>3. Kept(S)' /\ Sole'
  BY <1>1 DEF Good, Kept, Sole, Busy
<1>4. InTrim(S)'
  BY <1>1, <1>2 DEF InTrim
<1> QED BY <1>3, <1>4 DEF Good, InVerify, Found, GaveUp

(* The last frame goes on to f, or beyond it g is called.                  *)
LEMMA GoodTrims ==
    ASSUME Base, NEW S \in Possible, Good(S), phase = "trim", stack # <<>>,
           NEW t, NEW s, NEW c, TrimStep(t, s, c), NEW f \in Frames, NEW g \in Frames,
           s = Pop \/ s = SetTop(f) \/ s = Append(SetTop(f), g),
           s # Pop => IF selfContained THEN f.item \in Given ELSE f \in Tracked(S),
           s # Pop /\ s # SetTop(f) => IF selfContained THEN g.item \in Given ELSE g \in Tracked(S),
           ~selfContained => \A j \in S : t[j] = type[j]
    PROVE  Good(S)'
<1>1. /\ UNCHANGED <<packages, selfContained, phase, result>> /\ type' = t /\ stack' = s
      /\ stack \in Seq(Frames)
  BY Basics DEF TrimStep
<1>2. PICK G : G = IF selfContained THEN {x \in Frames : x.item \in Given} ELSE Tracked(S)
  OBVIOUS
<1>3. \A m \in DOMAIN stack : stack[m] \in G
  <2>1. \A m \in DOMAIN stack : stack[m] \in Frames
    BY <1>1
  <2> QED BY <1>2, <2>1 DEF Good, InTrim
<1>4. \A m \in DOMAIN s : s[m] \in G
  <2>1. CASE s = Pop
    BY <1>1, <1>3, <2>1, StackIn
  <2>2. CASE s # Pop /\ s = SetTop(f)
    <3>1. f \in G
      BY <1>2, <2>2
    <3> QED BY <1>1, <1>3, <2>2, <3>1, StackIn
  <2>3. CASE s # Pop /\ s # SetTop(f)
    <3>1. f \in G /\ g \in G
      BY <1>2, <2>3
    <3> QED BY <1>1, <1>3, <2>3, <3>1, StackIn
  <2> QED BY <2>1, <2>2, <2>3
<1>5. \A m \in DOMAIN stack' :
          IF selfContained THEN stack'[m].item \in Given ELSE stack'[m] \in Tracked(S)
  BY <1>1, <1>2, <1>4
<1> QED BY <1>1, <1>5, GoodTrimmed

LEMMA GoodTrimRoot ==
    ASSUME Base, Uniform, NEW S \in Possible, Good(S), TrimRoot
    PROVE  Good(S)'
<1>1. /\ phase = "trim" /\ stack = <<>> /\ index \in Item
      /\ stack' = IF type[index] = "explicit" THEN <<Frame(index)>> ELSE <<>>
      /\ UNCHANGED <<packages, type, selfContained, phase, result>>
      /\ packages \in World /\ S \subseteq Item /\ Given \subseteq S
  BY PossibleIs, Basics DEF TrimRoot
<1>2. ASSUME NEW m \in DOMAIN stack'
      PROVE  IF selfContained THEN stack'[m].item \in Given ELSE stack'[m] \in Tracked(S)
  <2>1. type[index] = "explicit"
    BY <1>1, <1>2
  <2>2. PICK x \in Given : x = index
    BY <1>1, <2>1, GivenIs
  <2>3. PICK f \in Frames : f = Frame(x) /\ f.item = x /\ f.cand = 1
    BY <1>1, <2>2, FramesAre
  <2>4. stack' = <<f>> /\ stack'[m] = f
    <3>1. stack' = <<f>>
      BY <1>1, <2>1, <2>2, <2>3
    <3>2. DOMAIN stack' = 1..1 /\ stack'[1] = f
      BY <3>1, OneFrame
    <3> QED BY <3>1, <3>2
  <2>5. x \in Echoes(S)
    BY <1>1, <2>2 DEF Echoes
  <2>6. f \in Tracked(S)
    BY <1>1, <2>3, <2>5, TracksFirst
  <2> QED BY <2>2, <2>3, <2>4, <2>6
<1> QED BY <1>1, <1>2, GoodTrimmed

(* The frame of the next dependency.                                       *)
LEMMA GoodNext ==
    ASSUME Base, Uniform, NEW S \in Possible, Good(S), phase = "trim", stack # <<>>, ~Exhausted
    PROVE  /\ NextDep \in Frames
           /\ IF selfContained THEN NextDep.item \in Given ELSE NextDep \in Tracked(S)
<1>1. packages \in World /\ stack \in Seq(Frames) /\ S \subseteq Item
  BY PossibleIs, Basics
<1>2. PICK f \in Frames : f = NextDep /\ f.item = Top.item /\ f.cand = 1
  BY <1>1, FramesAre
<1>3. Top.item \in Echoes(S)
  BY TrimMet
<1>4. selfContained => Top.item \in Given
  <2>1. Len(stack) \in DOMAIN stack /\ Top = stack[Len(stack)]
    BY <1>1, TopIs
  <2> QED BY <2>1 DEF Good, InTrim
<1>5. f \in Tracked(S)
  BY <1>1, <1>2, <1>3, TracksFirst
<1> QED BY <1>2, <1>4, <1>5

LEMMA GoodTrimExplicit ==
    ASSUME Base, Uniform, NEW S \in Possible, Good(S), TrimExplicit
    PROVE  Good(S)'
<1> DEFINE given == Explicit(type) \cap NameOf(Dependency)
           only == Min(given)
           t == Without(Dependency)
           s == Append(SetTop(NextDep), Frame(only))
<1>1. /\ phase = "trim" /\ stack # <<>> /\ ~Exhausted /\ given # {}
      /\ \/ ~Match(Dependency, only) /\ Fail("incompatible")
         \/ Fail("circular") \/ TrimStep(t, s, choices)
  BY DEF TrimExplicit, Running, Without
<1>2. packages \in World /\ given \in SUBSET Item /\ S \subseteq Item /\ Given \subseteq S
  BY PossibleIs, Basics DEF Explicit
<1>3. PICK x \in given : x = only
  BY <1>1, <1>2, MinItem
<1>4. PICK j \in S :
          /\ Match(Dependency, j) /\ j \in NameOf(Dependency)
          /\ \A i \in S : i \in NameOf(Dependency) => i = j
          /\ Given \cap NameOf(Dependency) \subseteq {j}
  BY <1>1, TrimMet
<1>5. x = j /\ x \in Given /\ type[x] = "explicit" /\ x \in Item
  BY <1>2, <1>3, <1>4, GivenIs
<1>6. PICK g \in Frames : g = Frame(x) /\ g.item = x /\ g.cand = 1
  BY <1>2, <1>5, FramesAre
<1>7. g \in Tracked(S)
  <2>1. x \in Echoes(S)
    BY <1>2, <1>5 DEF Echoes
  <2> QED BY <1>2, <1>6, <2>1, TracksFirst
<1>8. PICK f \in Frames :
          f = NextDep /\ IF selfContained THEN f.item \in Given ELSE f \in Tracked(S)
  BY <1>1, GoodNext
<1>9. \A i \in S : t[i] = type[i]
  BY <1>2, <1>4, <1>5 DEF Without
<1>10. s = Append(SetTop(f), g)
  BY <1>3, <1>6, <1>8
<1>11. Fail("circular") \/ TrimStep(t, s, choices)
  BY <1>1, <1>3, <1>4, <1>5
<1> HIDE DEF t, s
<1>12. TrimStep(t, s, choices) => Good(S)'
  BY <1>1, <1>5, <1>6, <1>7, <1>8, <1>9, <1>10, GoodTrims
<1> QED BY <1>11, <1>12, GoodFail

LEMMA GoodTrimNext ==
    ASSUME Base, Uniform, NEW S \in Possible, Good(S), NEW c, TrimNextForm(c)
    PROVE  Good(S)'
<1>1. /\ phase = "trim" /\ TrimStep(type, SetTop(NextDep), c)
      /\ stack # <<>> /\ ~Exhausted
  BY DEF TrimNextForm, TrimForm
<1>2. PICK f \in Frames :
          f = NextDep /\ IF selfContained THEN f.item \in Given ELSE f \in Tracked(S)
  BY <1>1, GoodNext
<1>3. TrimStep(type, SetTop(f), c)
  BY <1>1, <1>2
<1> QED BY <1>1, <1>2, <1>3, GoodTrims

LEMMA GoodTrimCandidatesEnd ==
    ASSUME Base, Uniform, NEW S \in Possible, Good(S), TrimCandidatesEnd
    PROVE  Good(S)'
<1>1. /\ phase = "trim" /\ stack # <<>> /\ ~Exhausted /\ NoneGiven /\ Candidates = {}
      /\ \/ Top.count = 0
         \/ TrimStep(type, SetTop(NextDep), choices \/ Top.count > 1)
  BY DEF TrimCandidatesEnd, Running
<1>2. ~selfContained /\ Present = {}
  BY <1>1, TrimMet
<1>3. PICK j \in S : /\ j \in NameOf(Dependency) /\ j \in Item /\ type[j] = "available"
                     /\ j < Top.cand => Top.count # 0
  BY <1>1, <1>2, TrimMet
<1>4. Top.cand \in Nat /\ j \in Nat
  BY <1>1, <1>3, TopIs, Basics
<1>5. ~(j >= Top.cand)
  BY <1>1, <1>2, <1>3 DEF Candidates
<1>6. Top.count # 0
  BY <1>3, <1>4, <1>5
<1> DEFINE c == choices \/ Top.count > 1
<1>7. TrimStep(type, SetTop(NextDep), c)
  BY <1>1, <1>6
<1> HIDE DEF c
<1>8. PICK f \in Frames :
          f = NextDep /\ IF selfContained THEN f.item \in Given ELSE f \in Tracked(S)
  BY <1>1, GoodNext
<1>9. TrimStep(type, SetTop(f), c)
  BY <1>7, <1>8
<1> QED BY <1>1, <1>8, <1>9, GoodTrims

LEMMA GoodTrimCandidate ==
    ASSUME Base, Uniform, NEW S \in Possible, Good(S), TrimCandidate
    PROVE  Good(S)'
<1> DEFINE c == Min(Candidates)
           next == [Top EXCEPT !.cand = c + 1]
           called == [next EXCEPT !.count = @ + 1]
<1>1. /\ phase = "trim" /\ stack # <<>> /\ ~Exhausted /\ NoneGiven /\ Candidates # {}
      /\ \/ ~Match(Dependency, c) /\ TrimStep([type EXCEPT ![c] = "invalid"], SetTop(next), choices)
         \/ Fail("circular")
         \/ TrimStep(type, Append(SetTop(called), Frame(c)), choices)
  BY DEF TrimCandidate, Running
<1>2. packages \in World /\ Candidates \in SUBSET Item /\ S \subseteq Item /\ Item \subseteq Nat
      /\ stack \in Seq(Frames) /\ type \in [Item -> Types]
  BY PossibleIs, Basics DEF Candidates, NameOf
<1>3. PICK x \in Item : x = c /\ x \in Candidates /\ \A j \in Candidates : x <= j
  BY <1>1, <1>2, MinItem
<1>4. ~selfContained /\ Present = {} /\ Top.item \in Echoes(S)
  BY <1>1, TrimMet
<1>5. PICK j \in S :
          /\ Match(Dependency, j) /\ j \in NameOf(Dependency) /\ j \in Item
          /\ \A i \in S : i \in NameOf(Dependency) => i = j
          /\ \A i \in Offers \cap NameOf(Dependency) : i \in Echoes(S)
          /\ type[j] = "available" /\ (j < Top.cand => Top.count # 0)
  BY <1>1, <1>4, TrimMet
<1>6. /\ x \in NameOf(Dependency) /\ type[x] = "available" /\ x \in Nat /\ x \in Offers
  <2>1. x \in NameOf(Dependency) /\ type[x] = "available"
    BY <1>3 DEF Candidates
  <2> QED BY <1>2, <2>1, Basics DEF Lists, Grown, Offers
<1>7. Top \in Frames /\ Top.cand \in Nat /\ Top.count \in Nat
  BY <1>1, <1>2, TopIs
<1>8. PICK f \in Frames, h \in Frames :
           /\ f = next /\ f.item = Top.item /\ f.dep = Top.dep /\ f.cand = x + 1
           /\ f.count = Top.count
           /\ h = called /\ h.item = Top.item /\ h.dep = Top.dep /\ h.cand = x + 1
           /\ h.count = Top.count + 1
  <2> DEFINE e == Top
  <2>1. e \in Frames /\ e = Top
    BY <1>7
  <2> HIDE DEF e
  <2>2. LET a == [e EXCEPT !.cand = x + 1]
            b == [a EXCEPT !.count = @ + 1]
        IN  /\ a \in Frames /\ a.item = e.item /\ a.dep = e.dep /\ a.cand = x + 1
            /\ a.count = e.count
            /\ b \in Frames /\ b.item = e.item /\ b.dep = e.dep /\ b.cand = x + 1
            /\ b.count = e.count + 1
    BY <1>6, <2>1, Counts
  <2>3. /\ [e EXCEPT !.cand = x + 1] = next
        /\ [[e EXCEPT !.cand = x + 1] EXCEPT !.count = @ + 1] = called
    BY <1>3, <2>1
  <2> HIDE DEF next, called
  <2> QED BY <2>1, <2>2, <2>3
<1>9. PICK g \in Frames : g = Frame(x) /\ g.item = x /\ g.cand = 1
  BY <1>2, FramesAre
<1>10. g \in Tracked(S) /\ h \in Tracked(S)
  <2>1. x \in Echoes(S)
    BY <1>5, <1>6
  <2>2. g \in Tracked(S)
    BY <1>2, <1>9, <2>1, TracksFirst
  <2>3. h.count # 0
    BY <1>7, <1>8
  <2> QED BY <1>4, <1>8, <2>2, <2>3 DEF Tracked
<1>11. ~Match(Dependency, x) => f \in Tracked(S) /\ x \notin S
  <2> SUFFICES ASSUME ~Match(Dependency, x) PROVE f \in Tracked(S) /\ x \notin S
    OBVIOUS
  <2>1. x \notin S /\ j # x
    BY <1>5, <1>6
  <2>2. Dependency = DependsOf(f.item)[f.dep]
    BY <1>8 DEF Dependency
  <2>3. ASSUME NEW i \in S, Match(Dependency, i), i < x + 1 PROVE f.count # 0
    <3>1. i = j
      BY <1>2, <1>5, <2>3 DEF Match, NameOf
    <3>2. j \in Nat /\ ~(x <= j)
      BY <1>2, <1>5, <1>6, <2>1, <2>3, <3>1
    <3>3. j \notin Candidates
      BY <1>3, <3>2
    <3>4. ~(j >= Top.cand)
      BY <1>4, <1>5, <3>3 DEF Candidates
    <3> QED BY <1>5, <1>7, <1>8, <3>2, <3>4
  <2>4. f \in Tracked(S)
    BY <1>4, <1>8, <2>2, <2>3 DEF Tracked
  <2> QED BY <2>1, <2>4
<1> HIDE DEF c, next, called
<1>12. CASE ~Match(Dependency, c) /\ TrimStep([type EXCEPT ![c] = "invalid"], SetTop(next), choices)
  <2> DEFINE t == [type EXCEPT ![x] = "invalid"]
  <2>1. TrimStep(t, SetTop(f), choices) /\ ~Match(Dependency, x)
    BY <1>3, <1>8, <1>12
  <2>2. f \in Tracked(S) /\ \A i \in S : t[i] = type[i]
    BY <1>2, <1>11, <2>1
  <2> HIDE DEF t
  <2> QED BY <1>1, <1>4, <2>1, <2>2, GoodTrims
<1>13. CASE TrimStep(type, Append(SetTop(called), Frame(c)), choices)
  <2>1. TrimStep(type, Append(SetTop(h), g), choices)
    BY <1>3, <1>8, <1>9, <1>13
  <2> QED BY <1>1, <1>4, <1>10, <2>1, GoodTrims
<1> QED BY <1>1, <1>12, <1>13, GoodFail

LEMMA GoodTrim ==
    ASSUME Base, Uniform, NEW S \in Possible, Good(S),
           TrimRoot \/ TrimReturn \/ TrimExplicit \/ TrimInstalled \/ TrimCandidate \/ TrimCandidatesEnd
    PROVE  Good(S)'
<1>1. CASE TrimReturn
  <2>1. phase = "trim" /\ stack # <<>> /\ TrimStep(type, Pop, choices)
    BY <1>1 DEF TrimReturn, Running
  <2>2. Top \in Frames
    BY <2>1, TopIs, Basics
  <2> QED BY <2>1, <2>2, GoodTrims
<1>2. CASE TrimInstalled
  BY <1>2, TrimInstalledIs, GoodTrimNext
<1> QED BY <1>1, <1>2, GoodTrimRoot, GoodTrimExplicit, GoodTrimCandidate, GoodTrimCandidatesEnd

(* A tree that keeps all of the set.                                       *)
LEMMA SameTrees ==
    ASSUME packages' = packages, type' = type
    PROVE  /\ Groups' = Groups /\ \A i : Options(i)' = Options(i)
           /\ \A i, k : Chosen(i, k)' = Chosen(i, k)
           /\ \A S, k : Hit(S, k)' = Hit(S, k)
<1>1. Item' = Item /\ \A i : Name(i)' = Name(i)
  BY DEF Item, Name
<1>2. \A i : Options(i)' = Options(i)
  BY <1>1 DEF Options
<1>3. Groups' = Groups
  BY <1>1, <1>2 DEF Groups
<1>4. \A i : Size(i)' = Size(i)
  BY <1>2 DEF Size
<1>5. \A i : Weight(i)' = Weight(i)
  BY <1>3, <1>4 DEF Weight
<1>6. Factors' = Factors
  BY <1>5 DEF Factors
<1>7. \A i : Divisor(i)' = Divisor(i)
  BY <1>6 DEF Divisor
<1>8. \A i, k : Chosen(i, k)' = Chosen(i, k)
  BY <1>2, <1>4, <1>7 DEF Chosen
<1>9. \A S, k : Hit(S, k)' = Hit(S, k)
  BY <1>2, <1>3, <1>8 DEF Hit
<1> QED BY <1>2, <1>3, <1>8, <1>9

LEMMA TreeKeeps ==
    ASSUME NEW S \in SUBSET Item, NEW k, Hit(S, k)
    PROVE  \A i \in S : Tree(k)[i] = type[i]
<1> SUFFICES ASSUME NEW i \in S PROVE Tree(k)[i] = type[i]
  OBVIOUS
<1>1. ~\E g \in Groups : i \in Options(g) \ {Chosen(g, k)}
  BY DEF Hit
<1> QED BY <1>1 DEF Tree

(* The generator comes to such a tree.                                     *)
LEMMA HitSome ==
    ASSUME packages \in World, NEW S \in SUBSET Item, \A i, j \in S : Name(i) = Name(j) => i = j
    PROVE  \E k \in Nat : k < TreeCount /\ Hit(S, k)
<1> DEFINE Its(g) == Options(g) \cap S
           it(g) == CHOOSE i \in Its(g) : TRUE
           r == [g \in Groups |-> IF Its(g) = {} THEN 0 ELSE Cardinality(Before(g, it(g)))]
<1>1. \A g \in Groups : g \in Item /\ Size(g) \in Nat \ {0}
  BY OptionsAre DEF Groups
<1>2. \A g \in Groups : Its(g) # {} => it(g) \in Its(g)
  OBVIOUS
<1>3. \A g \in Groups : \A i \in Its(g) : i = it(g)
  <2>1. \A g \in Groups : \A i \in Its(g) : Name(i) = Name(g) /\ i \in S
    BY DEF Options
  <2> HIDE DEF Its, it
  <2> QED BY <1>2, <2>1
<1> HIDE DEF it
<1>4. \A g \in Groups : r[g] = IF Its(g) = {} THEN 0 ELSE Cardinality(Before(g, it(g)))
  OBVIOUS
<1>5. \A g \in Groups : r[g] \in Nat /\ r[g] < Size(g)
  <2> SUFFICES ASSUME NEW g \in Groups PROVE r[g] \in Nat /\ r[g] < Size(g)
    OBVIOUS
  <2>1. CASE Its(g) = {}
    <3>1. r[g] = 0
      BY <1>4, <2>1
    <3> HIDE DEF r
    <3> QED BY <1>1, <3>1
  <2>2. CASE Its(g) # {}
    <3>1. it(g) \in Options(g) /\ r[g] = Cardinality(Before(g, it(g)))
      BY <1>2, <1>4, <2>2
    <3> HIDE DEF r
    <3> QED BY <1>1, <3>1, Ranks
  <2> QED BY <2>1, <2>2
<1>6. r \in [Groups -> Nat]
  BY <1>5
<1> HIDE DEF r
<1>7. PICK k \in Nat : k < TreeCount /\ \A g \in Groups : (k \div Divisor(g)) % Size(g) = r[g]
  BY <1>5, <1>6, SomeTree
<1>8. ASSUME NEW g \in Groups, NEW i \in Options(g) \cap S PROVE Chosen(g, k) = i
  <2>1. r[g] = Cardinality(Before(g, i))
    BY <1>3, <1>4, <1>8
  <2> QED BY <1>7, <1>8, <2>1, ChosenIs
<1> QED BY <1>7, <1>8 DEF Hit

(* A step of the verification keeps what is good where it follows the set. *)
LEMMA GoodVerifies ==
    ASSUME Base, NEW S \in Possible, Good(S), phase = "verify",
           UNCHANGED <<packages, type, selfContained, choices, n, best, phase, result>>,
           Current(S) => Follows(S)'
    PROVE  Good(S)'
<1>1. /\ Given' = Given /\ \A i : DependsOf(i)' = DependsOf(i)
      /\ \A d : NameOf(d)' = NameOf(d)
  BY SameWorld
<1>2. \A k : Hit(S, k)' = Hit(S, k)
  BY SameTrees
<1>3. Kept(S)' /\ Sole'
  BY <1>1 DEF Good, Kept, Sole, Busy
<1>4. Current(S)' = Current(S)
  BY <1>2 DEF Current
<1>5. InVerify(S)'
  BY <1>4 DEF InVerify
<1>6. Found(S)'
  BY <1>2 DEF Good, Found, Tried
<1>7. ~GaveUp' /\ InTrim(S)'
  BY DEF Good, GaveUp, InTrim
<1> QED BY <1>3, <1>5, <1>6, <1>7 DEF Good

(* The verification begins with all of the set, and the explicit packages. *)
LEMMA FollowsFirst ==
    ASSUME Base, Uniform, NEW S \in Possible, Good(S), phase \in {"trim", "tree"}, ~selfContained,
           packages' = packages, Fewer(type, tree'), \A i \in S : tree'[i] = type[i],
           stack' = <<>>, ~missing'
    PROVE  Follows(S)'
<1>1. Item' = Item
  BY SameWorld
<1>2. phase \in Busy /\ packages \in World /\ S \subseteq Item /\ Given \subseteq S
  BY PossibleIs, Basics DEF Busy
<1>3. PICK t : t = tree'
  OBVIOUS
<1>4. Users(t) = Given
  BY <1>2, <1>3, ListReplaces
<1>5. Users(tree)' \subseteq S
  BY <1>1, <1>2, <1>3, <1>4 DEF Users
<1>6. \A i \in S : tree'[i] \in {"explicit", "implicit", "available"}
  BY <1>2 DEF Good, Kept, Uniform, Fresh
<1> QED BY <1>5, <1>6 DEF Follows

LEMMA GoodEndTrim ==
    ASSUME Base, Outset, Uniform, NEW S \in Possible, Good(S), EndTrim
    PROVE  Good(S)'
<1>1. /\ phase = "trim" /\ stack = <<>> /\ n = 0 /\ ~missing
      /\ \/ Select(type)
         \/ /\ ~selfContained /\ phase' = IF choices THEN "tree" ELSE "verify"
            /\ tree' = type
            /\ UNCHANGED <<packages, type, selfContained, choices, missing, n, stack, result>>
  BY DEF EndTrim, Outset
<1>2. CASE Select(type)
  BY <1>2, GoodSelect
<1>3. CASE /\ ~selfContained /\ phase' = IF choices THEN "tree" ELSE "verify"
           /\ tree' = type
           /\ UNCHANGED <<packages, type, selfContained, choices, missing, n, stack, result>>
  <2>1. Follows(S)'
    BY <1>1, <1>3, FollowsFirst, Basics
  <2>2. InVerify(S)'
    BY <2>1 DEF InVerify
  <2>3. Kept(S)' /\ Sole' /\ InTrim(S)' /\ ~GaveUp'
    BY <1>1, <1>3 DEF Good, Kept, Sole, InTrim, GaveUp, Busy
  <2>4. Found(S)'
    BY <1>1, <1>3 DEF Found, Tried
  <2> QED BY <2>2, <2>3, <2>4 DEF Good
<1> QED BY <1>1, <1>2, <1>3

LEMMA GoodTree ==
    ASSUME Base, Outset, OneOfEach, Uniform, NEW S \in Possible, Good(S), NextTree \/ EndTrees
    PROVE  Good(S)'
<1>1. phase = "tree" /\ ~selfContained /\ stack = <<>> /\ n \in Nat /\ packages \in World
      /\ S \subseteq Item /\ phase \in Busy
  BY PossibleIs, Basics DEF NextTree, EndTrees, Outset, OneOfEach, Busy
<1>2. choices
  BY <1>1 DEF Outset
<1>3. CASE NextTree
  <2>1. /\ tree' = Tree(n) /\ n' = n + 1 /\ ~missing' /\ phase' = "verify"
        /\ UNCHANGED <<packages, type, selfContained, choices, best, stack, result>>
    BY <1>3 DEF NextTree
  <2>2. \A k : Hit(S, k)' = Hit(S, k)
    BY <2>1, SameTrees
  <2>3. ASSUME Current(S)' PROVE Follows(S)'
    <3>1. choices'
      BY <1>2, <2>1
    <3>2. PICK k \in Nat : n' = k + 1 /\ Hit(S, k)
      BY <2>2, <2>3, <3>1 DEF Current
    <3>3. k = n
      BY <1>1, <2>1, <3>2
    <3>4. \A i \in S : tree'[i] = type[i]
      BY <1>1, <2>1, <3>2, <3>3, TreeKeeps
    <3>5. Fewer(type, tree')
      BY <2>1, TreeIs
    <3> QED BY <1>1, <2>1, <3>4, <3>5, FollowsFirst
  <2>4. InVerify(S)'
    BY <2>3 DEF InVerify
  <2>5. Kept(S)' /\ Sole' /\ InTrim(S)' /\ ~GaveUp'
    BY <1>1, <2>1 DEF Good, Kept, Sole, InTrim, GaveUp, Busy
  <2>6. ASSUME NEW k \in Nat, Tried(k)', Hit(S, k) PROVE best # <<>>
    <3>1. k < n
      BY <1>1, <2>1, <2>6 DEF Tried
    <3>2. Tried(k)
      BY <1>1, <3>1 DEF Tried
    <3> QED BY <1>1, <2>6, <3>2 DEF Good, Found
  <2>7. Found(S)'
    BY <2>1, <2>2, <2>6 DEF Found
  <2> QED BY <2>4, <2>5, <2>7 DEF Good
<1>4. CASE EndTrees
  <2>1. n >= TreeCount /\ (best = <<>> \/ Select(best))
    BY <1>4 DEF EndTrees
  <2>2. PICK k \in Nat : k < TreeCount /\ Hit(S, k)
    BY <1>1, HitSome, PossibleIs
  <2>3. Tried(k)
    <3>1. TreeCount \in Nat
      BY <1>1, FactorsAre, TheList DEF TreeCount
    <3> QED BY <1>1, <2>1, <2>2, <3>1 DEF Tried
  <2>4. best # <<>>
    BY <1>1, <2>2, <2>3 DEF Good, Found
  <2> QED BY <2>1, <2>4, GoodSelect
<1> QED BY <1>3, <1>4

(* Where the verification enters a package of the set, the set stays.      *)
LEMMA Entered ==
    ASSUME Base, Uniform, NEW S \in Possible, NEW t \in Lists, Users(t) \subseteq S,
           \A x \in S : t[x] \in {"explicit", "implicit", "available"}, NEW i \in Users(t)
    PROVE  LET r == TrimmedConflicts(t, i, FALSE)
           IN  Users(r) \subseteq S /\ \A x \in S : r[x] = t[x]
<1> DEFINE hits == Hits(t, i, FALSE)
           lost == {j \in hits : t[j] \in Soft} \cup {j \in {i} : t[i] \in Soft /\ hits # {}}
           r == TrimmedConflicts(t, i, FALSE)
<1>0. packages \in World /\ S \subseteq Item /\ i \in Item /\ i \in S
  BY PossibleIs, Basics DEF Users
<1>1. r = [j \in Item |-> IF j \in lost THEN "invalid" ELSE t[j]]
  BY DEF TrimmedConflicts
<1>2. \A j \in hits : j \in Item /\ j \notin S
  <2> SUFFICES ASSUME NEW j \in hits PROVE j \in Item /\ j \notin S
    OBVIOUS
  <2>1. j \in Item /\ Clash(i, j)
    BY DEF Hits, Clash
  <2> QED BY <1>0, <2>1, PossibleIs
<1>3. t[i] \in Soft => hits = {}
  <2> SUFFICES ASSUME t[i] \in Soft, NEW j \in hits PROVE FALSE
    OBVIOUS
  <2>1. j \in Item /\ t[j] \in Hard \cup {"implicit"}
    <3>1. t[i] \notin Hard
      BY DEF Soft, Hard
    <3> QED BY <3>1 DEF Hits
  <2>2. t[j] \in {"explicit", "available", "implicit", "invalid"}
    BY <2>1 DEF Lists, Grown, Uniform, Fresh
  <2>3. j \in Users(t)
    BY <2>1, <2>2 DEF Users, Hard
  <2> QED BY <1>2, <2>3
<1>4. lost \cap S = {}
  BY <1>2, <1>3
<1> HIDE DEF lost, r
<1>5. \A x \in S : r[x] = t[x]
  BY <1>0, <1>1, <1>4
<1>6. Users(r) \subseteq Users(t)
  BY <1>1 DEF Users
<1> QED BY <1>5, <1>6 DEF r

(* What find_dependencies() finds is of the set.                           *)
LEMMA VerifyMet ==
    ASSUME Base, OneOfEach, Uniform, NEW S \in Possible, Follows(S), phase = "verify",
           stack # <<>>, ~Exhausted
    PROVE  /\ Usable # {}
           /\ \A c \in Usable : /\ c \in S /\ c \in Item /\ OnDisk(c) = {} /\ ~packages[c].held
                                /\ MayUpgrade(c) /\ ~NotFound(c)
<1>0. packages \in World /\ S \subseteq Item /\ Given \subseteq S /\ tree \in Lists
      /\ stack \in Seq(Frames) /\ tree \in [Item -> Types]
  BY PossibleIs, Basics
<1>1. PICK u \in Item, d \in Nat \ {0} : u = Top.item /\ d = Top.dep
  BY <1>0, TopIs
<1>2. Dependency = DependsOf(u)[d] /\ d \in DOMAIN DependsOf(u)
  <2>1. DOMAIN DependsOf(u) = 1..Len(DependsOf(u)) /\ Len(DependsOf(u)) \in Nat
    BY <1>0, TheList
  <2> QED BY <1>1, <2>1 DEF Dependency, Exhausted
<1>3. Len(stack) \in DOMAIN stack /\ Top = stack[Len(stack)]
  BY <1>0, TopIs
<1>4. u \in S /\ u \in Echoes(S)
  BY <1>1, <1>3 DEF Follows, Echoes
<1>5. PICK j \in S : /\ Match(Dependency, j) /\ j \in NameOf(Dependency) /\ j \in Item
                     /\ Given \cap NameOf(Dependency) \subseteq {j}
  BY <1>0, <1>2, <1>4, EchoMet
<1>6. \A i \in Item : OnDisk(i) = {} /\ ~packages[i].held
  BY FreshIs DEF Uniform
<1>7. \A i \in Item : MayUpgrade(i) /\ ~NotFound(i)
  BY <1>6 DEF MayUpgrade, NotFound
<1>8. j \in Usable
  BY <1>5, <1>7 DEF Follows, Usable
<1>9. PICK E \in SUBSET Item : Covered(E)
  BY DEF OneOfEach
<1>10. u \in E /\ Settled(E, u, d)
  <2>1. Renewals = {}
    BY FreshIs DEF Uniform
  <2>2. u \in E
    BY <1>1, <1>3, <1>9, <2>1 DEF Covered
  <2> QED BY <1>2, <1>9, <2>2 DEF Covered
<1>11. ASSUME NEW c \in Usable PROVE c \in S /\ c \in Item
  <2>1. /\ c \in NameOf(Dependency) /\ c \in Item
        /\ tree[c] \in {"explicit", "implicit", "installed", "upgrade", "available"}
    BY DEF Usable, NameOf
  <2>2. tree[c] \in {"explicit", "implicit", "available"}
    BY <1>0, <2>1 DEF Lists, Grown, Uniform, Fresh
  <2>3. CASE tree[c] # "available"
    BY <2>1, <2>2, <2>3 DEF Follows, Users
  <2>4. CASE tree[c] = "available"
    <3>1. tree \in Inside /\ (choices => tree \in Sparse)
      BY DEF OneOfEach
    <3>2. c \in Rest(u, d)
      BY <1>2, <2>1, <2>4, <3>1 DEF Inside, Soft, Rest
    <3>3. Given \cap NameOf(Dependency) = {} /\ (choices \/ Unique(c, Rest(u, d)))
      BY <1>2, <1>6, <1>10, <2>1, <3>2 DEF Settled
    <3>4. tree[j] \in Soft
      <4>1. tree[j] # "explicit"
        BY <1>5, <3>3, GivenIs
      <4> QED BY <1>5, <4>1 DEF Follows, Soft
    <3>5. j \in Rest(u, d)
      BY <1>2, <1>5, <3>1, <3>4 DEF Inside, Rest
    <3>6. c = j
      <4>1. choices => c = j
        <5>1. Name(c) = Name(j)
          BY <1>5, <2>1 DEF NameOf
        <5> QED BY <1>5, <2>1, <2>4, <3>1, <3>4, <5>1 DEF Sparse, Soft
      <4>2. Unique(c, Rest(u, d)) => c = j
        BY <3>5 DEF Unique
      <4> QED BY <3>3, <4>1, <4>2
    <3> QED BY <2>1, <3>6
  <2> QED BY <2>3, <2>4
<1> QED BY <1>6, <1>7, <1>8, <1>11

LEMMA GoodFind ==
    ASSUME Base, OneOfEach, Uniform, NEW S \in Possible, Good(S),
           VerifyRoot \/ VerifyReturn \/ FindDependency \/ DependencyMissing
    PROVE  Good(S)'
<1>0. /\ phase = "verify" /\ packages \in World /\ S \subseteq Item /\ Given \subseteq S
      /\ tree \in Lists /\ Item' = Item
  BY PossibleIs, Basics, NextSame, SameWorld
     DEF VerifyRoot, VerifyReturn, FindDependency, DependencyMissing, Running, Next
<1>1. Current(S) => Follows(S)
  BY <1>0 DEF Good, InVerify
<1>2. ASSUME NEW s, NEW m, VerifyStep(s, m),
             Current(S) => ~m /\ \A l \in DOMAIN s : s[l].item \in S
      PROVE  Good(S)'
  <2>1. /\ UNCHANGED <<packages, type, selfContained, choices, tree, n, best, phase, result>>
        /\ stack' = s /\ missing' = m
    BY <1>2 DEF VerifyStep
  <2>2. Current(S) => Follows(S)'
    <3> SUFFICES ASSUME Current(S) PROVE Follows(S)'
      OBVIOUS
    <3>1. ~missing'
      BY <1>2, <2>1
    <3>2. Users(tree)' = Users(tree)
      BY <1>0, <2>1 DEF Users
    <3> QED BY <1>1, <1>2, <2>1, <3>1, <3>2 DEF Follows
  <2> QED BY <1>0, <2>1, <2>2, GoodVerifies
<1>3. ASSUME NEW t \in Lists, NEW i \in Item, NEW s, NEW pos, EnterForm(t, i, s, pos),
             Current(S) => /\ Users(t) \subseteq S /\ i \in Users(t)
                           /\ \A x \in S : t[x] \in {"explicit", "implicit", "available"}
                           /\ \A l \in DOMAIN Append(s, Frame(i)) : Append(s, Frame(i))[l].item \in S
      PROVE  Good(S)'
  <2> DEFINE r == TrimmedConflicts(t, i, FALSE)
  <2>1. /\ UNCHANGED <<packages, type, selfContained, choices, missing, n, best, phase, result>>
        /\ tree' = r /\ stack' = Append(s, Frame(i))
    BY <1>3 DEF EnterForm
  <2>2. Current(S) => Follows(S)'
    <3> SUFFICES ASSUME Current(S) PROVE Follows(S)'
      OBVIOUS
    <3>1. Users(r) \subseteq S /\ \A x \in S : r[x] = t[x]
      BY <1>3, Entered
    <3> HIDE DEF r
    <3>2. Users(tree)' = Users(r)
      BY <1>0, <2>1 DEF Users
    <3>3. ~missing'
      BY <1>1, <2>1 DEF Follows
    <3> QED BY <1>3, <2>1, <3>1, <3>2, <3>3 DEF Follows
  <2> QED BY <1>0, <2>1, <2>2, GoodVerifies
<1>4. CASE VerifyRoot
  <2> DEFINE i == Min(NextExplicit)
  <2>1. \/ Fail("conflict")
        \/ i \in Item /\ tree[i] = "explicit" /\ EnterForm(tree, i, <<>>, i + 1)
    BY <1>4, VerifyRootIs
  <2> HIDE DEF i
  <2>2. ASSUME i \in Item, tree[i] = "explicit", EnterForm(tree, i, <<>>, i + 1) PROVE Good(S)'
    <3>1. i \in S /\ i \in Users(tree)
      BY <1>0, <2>2, GivenIs DEF Users
    <3>2. Frame(i) \in Frames /\ Frame(i).item = i
      BY <1>0, <2>2, FramesAre
    <3>3. Append(<<>>, Frame(i)) = <<Frame(i)>>
      OBVIOUS
    <3>4. DOMAIN <<Frame(i)>> = 1..1 /\ <<Frame(i)>>[1] = Frame(i)
      BY <3>2, OneFrame
    <3>5. \A l \in DOMAIN Append(<<>>, Frame(i)) : Append(<<>>, Frame(i))[l].item \in S
      BY <3>1, <3>2, <3>3, <3>4
    <3>6. Current(S) => /\ Users(tree) \subseteq S
                        /\ \A x \in S : tree[x] \in {"explicit", "implicit", "available"}
      BY <1>1 DEF Follows
    <3> QED BY <1>0, <1>3, <2>2, <3>1, <3>5, <3>6
  <2> QED BY <2>1, <2>2, GoodFail
<1>5. CASE VerifyReturn
  <2>1. stack # <<>> /\ VerifyStep(Pop, missing)
    BY <1>5, VerifyReturnIs
  <2>2. Current(S) => ~missing /\ \A m \in DOMAIN Pop : Pop[m].item \in S
    BY <1>1, <2>1, StackItems DEF Follows
  <2> QED BY <1>2, <2>1, <2>2
<1>6. CASE DependencyMissing
  <2> DEFINE frames == SetTop(NextDep)
  <2>1. /\ stack # <<>> /\ ~Exhausted /\ Usable = {}
        /\ VerifyStep(frames, missing \/ Unpacked = {})
    BY <1>6, DependencyMissingIs
  <2> HIDE DEF frames
  <2>2. ~Current(S)
    BY <1>0, <1>1, <2>1, VerifyMet
  <2> QED BY <1>2, <2>1, <2>2
<1>7. CASE FindDependency
  <2> DEFINE c == Min(Usable)
             frames == SetTop(NextDep)
  <2>1. /\ stack # <<>> /\ ~Exhausted /\ Usable # {}
        /\ \/ VerifyStep(frames, missing \/ Held(c))
           \/ Fail("internal")
           \/ tree[c] = "available" /\ ~NotFound(c) /\ Enter(Promoted(c), c, frames, index)
    BY <1>7, FindIs DEF FindDependency, Running
  <2>2. Usable \in SUBSET Item
    BY DEF Usable, NameOf
  <2>3. PICK x \in Usable : x = c /\ x \in Item
    BY <1>0, <2>1, <2>2, MinItem
  <2> HIDE DEF c
  <2>4. Current(S) => x \in S /\ OnDisk(x) = {} /\ ~packages[x].held /\ ~missing
    BY <1>0, <1>1, <2>1, VerifyMet DEF Follows
  <2>5. ASSUME VerifyStep(frames, missing \/ Held(c)) PROVE Good(S)'
    <3> DEFINE m == missing \/ Held(c)
    <3>1. Current(S) => ~m
      BY <2>3, <2>4 DEF Held
    <3>2. Current(S) => \A l \in DOMAIN frames : frames[l].item \in S
      BY <1>1, <2>1, StackItems DEF Follows
    <3> HIDE DEF m, frames
    <3>3. VerifyStep(frames, m)
      BY <2>5 DEF m
    <3> QED BY <1>2, <3>1, <3>2, <3>3
  <2>6. ASSUME tree[c] = "available", ~NotFound(c), Enter(Promoted(c), c, frames, index)
        PROVE  Good(S)'
    <3>1. /\ x \in Item /\ tree[x] = "available" /\ ~NotFound(x) /\ MayUpgrade(x)
          /\ Enter(Promoted(x), x, frames, index)
      BY <2>3, <2>6 DEF Usable
    <3>2. PICK t \in Lists : /\ t = Promoted(x)
                             /\ \A i \in Item : t[i] = IF i = x THEN "implicit"
                                                       ELSE IF i \in OnDisk(x) THEN "upgrade" ELSE tree[i]
      BY <1>0, <3>1, SeenPromoted
    <3>3. Current(S) => /\ Users(t) \subseteq S /\ x \in Users(t)
                        /\ \A i \in S : t[i] \in {"explicit", "implicit", "available"}
      <4> SUFFICES ASSUME Current(S)
                   PROVE  /\ Users(t) \subseteq S /\ x \in Users(t)
                          /\ \A i \in S : t[i] \in {"explicit", "implicit", "available"}
        OBVIOUS
      <4>1. \A i \in Item : t[i] = IF i = x THEN "implicit" ELSE tree[i]
        BY <2>4, <3>2
      <4> QED BY <1>0, <1>1, <2>4, <4>1 DEF Follows, Users
    <3>4. Current(S) =>
              \A l \in DOMAIN Append(frames, Frame(x)) : Append(frames, Frame(x))[l].item \in S
      <4> SUFFICES ASSUME Current(S)
                   PROVE  \A l \in DOMAIN Append(frames, Frame(x)) :
                              Append(frames, Frame(x))[l].item \in S
        OBVIOUS
      <4>1. \A m \in DOMAIN stack : stack[m].item \in S
        BY <1>1 DEF Follows
      <4>2. \A y \in Item : LET s == Append(SetTop(NextDep), Frame(y))
                            IN  \A m \in DOMAIN s : s[m].item \in S \cup {y}
        BY <2>1, <4>1, StackItems
      <4> QED BY <2>4, <3>1, <4>2
    <3>5. Fail("conflict") \/ EnterForm(t, x, frames, index)
      BY <1>0, <3>1, <3>2 DEF Enter, EnterForm
    <3> HIDE DEF frames
    <3> QED BY <1>3, <3>1, <3>3, <3>4, <3>5, GoodFail
  <2> QED BY <2>1, <2>5, <2>6, GoodFail
<1> QED BY <1>4, <1>5, <1>6, <1>7

(* What a verified tree leads to, in more detail.                          *)
LEMMA VerifiedTreeIs ==
    ASSUME VerifiedTree
    PROVE  /\ Verified /\ phase = "verify" /\ choices
           /\ \/ Fail("similar")
              \/ missing /\ KeepBest(best)
              \/ ~missing /\ best = <<>> /\ KeepBest(tree)
              \/ ~missing /\ best # <<>> /\ KeepBest(tree) /\ ~Larger(best, tree)
              \/ /\ ~missing /\ best # <<>> /\ KeepBest(best)
                 /\ Identical(tree, best) \/ ~Larger(tree, best)
<1>1. Verified /\ phase = "verify" /\ choices
  BY DEF VerifiedTree, Verified
<1>2. CASE missing
  BY <1>1, <1>2 DEF VerifiedTree
<1>3. CASE ~missing /\ best = <<>>
  BY <1>1, <1>3 DEF VerifiedTree
<1>4. CASE ~missing /\ best # <<>>
  <2>1. \/ Identical(tree, best) /\ KeepBest(best)
        \/ Fail("similar")
        \/ /\ ~Similar(tree, best)
           /\ KeepBest(IF Better(tree, best) THEN tree ELSE best)
    BY <1>4 DEF VerifiedTree
  <2>2. ASSUME ~Similar(tree, best), Better(tree, best) PROVE ~Larger(best, tree)
    BY <2>2 DEF Better
  <2>3. ASSUME ~Similar(tree, best), ~Better(tree, best) PROVE ~Larger(tree, best)
    BY <2>3 DEF Better, Similar
  <2> QED BY <1>1, <1>4, <2>1, <2>2, <2>3
<1> QED BY <1>2, <1>3, <1>4

LEMMA GoodVerified ==
    ASSUME Base, Outset, Uniform, NEW S \in Possible, Good(S), VerifiedOnly \/ VerifiedTree
    PROVE  Good(S)'
<1>1. phase = "verify" /\ (Current(S) => ~missing) /\ n \in Nat
  BY Basics DEF VerifiedOnly, VerifiedTree, Verified, Good, InVerify, Follows
<1>2. CASE VerifiedOnly
  <2>1. ~choices /\ (~missing => Select(tree))
    BY <1>2 DEF VerifiedOnly
  <2>2. Current(S)
    BY <2>1 DEF Current
  <2> QED BY <1>1, <2>1, <2>2, GoodSelect
<1>3. CASE VerifiedTree
  <2>1. CASE Fail("similar")
    BY <2>1, GoodFail
  <2>2. CASE ~Fail("similar")
    <3>1. /\ choices /\ best' \in {tree, best} /\ phase' = "tree"
          /\ missing => best' = best
          /\ ~missing /\ best' # tree => best # <<>>
          /\ UNCHANGED <<packages, type, selfContained, choices, tree, missing, n, index,
                         stack, result>>
      BY <1>3, <2>2, VerifiedTreeIs DEF KeepBest
    <3>2. tree # <<>>
      <4>1. DOMAIN tree = Item /\ Item # {}
        BY <1>1, <3>1, Basics DEF Outset
      <4> QED BY <4>1
    <3>3. \A k : Hit(S, k)' = Hit(S, k)
      BY <3>1, SameTrees
    <3>4. ASSUME NEW k \in Nat, k < n, Hit(S, k) PROVE best' # <<>>
      <4>1. CASE k + 1 < n
        <5>1. Tried(k)
          BY <3>4, <4>1 DEF Tried
        <5>2. best # <<>>
          BY <1>1, <3>4, <5>1 DEF Good, Found
        <5> QED BY <3>1, <3>2, <5>2
      <4>2. CASE ~(k + 1 < n)
        <5>1. n = k + 1
          BY <1>1, <3>4, <4>2
        <5>2. Current(S)
          BY <3>4, <5>1 DEF Current
        <5> QED BY <1>1, <3>1, <3>2, <5>2
      <4> QED BY <4>1, <4>2
    <3>5. Found(S)'
      BY <3>1, <3>3, <3>4 DEF Found, Tried
    <3>6. Kept(S)' /\ ~GaveUp'
      BY <1>1, <3>1 DEF Good, Kept, GaveUp, Busy
    <3>7. Sole'
      <4>1. /\ Given' = Given /\ \A i : DependsOf(i)' = DependsOf(i)
            /\ \A d : NameOf(d)' = NameOf(d)
        BY <3>1, SameWorld
      <4> QED BY <1>1, <3>1, <4>1 DEF Good, Sole, Busy
    <3>8. InTrim(S)' /\ InVerify(S)'
      BY <3>1 DEF InTrim, InVerify
    <3> QED BY <3>5, <3>6, <3>7, <3>8 DEF Good
  <2> QED BY <2>1, <2>2
<1> QED BY <1>2, <1>3

LEMMA GoodNextStep ==
    ASSUME Base, Outset, OneOfEach, Uniform, NEW S \in Possible, Good(S), [Next]_vars
    PROVE  Good(S)'
<1>1. CASE EndTrimConflicts \/ TrimConflicts \/ TrimConflictsFails
  <2>1. phase = "conflicts"
    BY <1>1 DEF EndTrimConflicts, TrimConflicts, TrimConflictsFails
  <2>2. stack = <<>>
    BY <2>1 DEF OneOfEach
  <2> QED BY <1>1, <2>2, GoodConflicts
<1>2. CASE UNCHANGED vars
  <2>1. /\ Given' = Given /\ \A i : DependsOf(i)' = DependsOf(i)
        /\ \A d : NameOf(d)' = NameOf(d) /\ Item' = Item
    BY <1>2, SameWorld DEF vars
  <2>2. Tracked(S)' = Tracked(S) /\ \A k : Hit(S, k)' = Hit(S, k)
    BY <1>2, SameChances, SameTrees DEF vars
  <2>3. Kept(S)' /\ Sole'
    BY <1>2, <2>1 DEF Good, Kept, Sole, vars
  <2>4. InTrim(S)' /\ Found(S)'
    BY <1>2, <2>1, <2>2 DEF Good, InTrim, Found, Tried, vars
  <2>5. Current(S)' = Current(S)
    BY <1>2, <2>2 DEF Current, vars
  <2>6. Follows(S)' = Follows(S)
    BY <1>2, <2>1 DEF Follows, Users, vars
  <2>7. InVerify(S)' /\ ~GaveUp'
    BY <1>2, <2>5, <2>6 DEF Good, InVerify, GaveUp, vars
  <2> QED BY <2>3, <2>4, <2>7 DEF Good
<1> QED BY <1>1, <1>2, GoodInstalled, GoodTrim, GoodEndTrim, GoodTree, GoodFind, GoodVerified DEF Next

Chances == Uniform => \A S \in Possible : Good(S)

LEMMA ChancesNext == Base /\ Outset /\ Ones /\ Chances /\ [Next]_vars => Chances'
<1> SUFFICES ASSUME Base, Outset, Ones, Chances, [Next]_vars, Uniform', NEW S \in Possible'
             PROVE  Good(S)'
  BY DEF Chances
<1>1. Uniform /\ S \in Possible
  BY NextSame, SameChances
<1>2. packages \in World
  BY Basics
<1>3. OneOfEach
  BY <1>1, <1>2, PossibleIs DEF Ones
<1> QED BY <1>1, <1>3, GoodNextStep DEF Chances

(* On an empty target with nothing on hold, and as long as the candidates  *)
(* of a name have the same dependencies, the installer calls a dependency  *)
(* missing, unsatisfied or incompatible only where no set of packages      *)
(* could be installed: no candidate of a possible set is trimmed, no tree  *)
(* is left out, and the tree of such a set is verified                     *)
(* (validate_dependencies).                                                *)
THEOREM GivesUpForAReason == Spec => []GivesUpRightly
<1>1. Init => Outset /\ Ones /\ Chances
  BY OutsetInit, OnesInit, GoodInit DEF Ones, Chances
<1>2. Base /\ Outset /\ Ones /\ Chances /\ [Next]_vars => Outset' /\ Ones' /\ Chances'
  BY OutsetNext, OnesNext, ChancesNext
<1>3. Chances => GivesUpRightly
  BY DEF Chances, Uniform, Good, GivesUpRightly
<1> QED BY <1>1, <1>2, <1>3, BaseAlways, PTL DEF Spec

-----------------------------------------------------------------------------
(* What is selected is the best: a tree that is verified has only what any *)
(* set that is closed under the dependencies has something like.           *)

Closed(U) == Given \subseteq U /\ \A i \in U : \A k \in DOMAIN DependsOf(i) :
                 \E j \in U : j \in NameOf(DependsOf(i)[k])
Like(t, U)  == Users(t) \subseteq Echoes(U)
Ahead(S, t) == \A i \in S, j \in Users(t) : Name(i) = Name(j) => Version(i) <= Version(j)

Near == phase \in {"tree", "verify"} => \A U \in SUBSET Item : Closed(U) =>
    /\ best # <<>> => Like(best, U)
    /\ phase = "verify" => Like(tree, U) /\ \A m \in DOMAIN stack : stack[m].item \in Echoes(U)
Leads(S) == phase \in {"tree", "verify"} /\ best # <<>> =>
                \A k \in Nat : Tried(k) /\ Hit(S, k) => Ahead(S, best)
Lead(S)  == Near /\ Leads(S) /\ (Selected => Ahead(S, type))

LEMMA SameLeads ==
    ASSUME packages' = packages
    PROVE  /\ Item' = Item
           /\ \A U : Closed(U)' = Closed(U) /\ Echoes(U)' = Echoes(U)
           /\ \A t : Users(t)' = Users(t)
           /\ \A t, U : Like(t, U)' = Like(t, U)
           /\ \A S, t : Ahead(S, t)' = Ahead(S, t)
<1>1. /\ Item' = Item /\ Given' = Given /\ \A i : DependsOf(i)' = DependsOf(i) /\ Name(i)' = Name(i)
      /\ \A d : NameOf(d)' = NameOf(d)
      /\ \A U : Echoes(U)' = Echoes(U)
      /\ \A t : Users(t)' = Users(t)
  BY SameWorld, SameChances, SameSupplies
<1>2. \A i : Version(i)' = Version(i)
  BY DEF Version
<1>3. \A U : Closed(U)' = Closed(U)
  BY <1>1 DEF Closed
<1>4. \A t, U : Like(t, U)' = Like(t, U)
  BY <1>1 DEF Like
<1>5. \A S, t : Ahead(S, t)' = Ahead(S, t)
  BY <1>1, <1>2 DEF Ahead
<1> QED BY <1>1, <1>3, <1>4, <1>5

LEMMA LeadFail ==
    ASSUME NEW S, NEW why, why # "selected", Fail(why)
    PROVE  Lead(S)'
BY DEF Fail, Lead, Near, Leads, Selected

LEMMA LeadSelect ==
    ASSUME NEW S, NEW t, Select(t), Ahead(S, t)
    PROVE  Lead(S)'
<1>1. /\ packages' = packages /\ type' = t /\ phase' = "done"
  BY DEF Select
<1>2. Item' = Item /\ \A i : Name(i)' = Name(i) /\ Version(i)' = Version(i)
  BY <1>1, SameWorld DEF Version
<1>3. Users(type)' = Users(t)
  BY <1>1, <1>2 DEF Users
<1>4. Ahead(S, type)'
  BY <1>2, <1>3 DEF Ahead
<1> QED BY <1>1, <1>4 DEF Lead, Near, Leads

(* Before the trees there is nothing to compare.                           *)
LEMMA LeadEarly ==
    ASSUME NEW S, Base', phase' \in {"installed", "conflicts", "trim"}
    PROVE  Lead(S)'
<1>1. ~Selected'
  BY DEF Base, Selected
<1> QED BY <1>1 DEF Lead, Near, Leads

LEMMA AheadWithin ==
    ASSUME packages \in World, Uniform, NEW S \in Possible, NEW t, Users(t) \subseteq S
    PROVE  Ahead(S, t)
<1> SUFFICES ASSUME NEW i \in S, NEW j \in Users(t), Name(i) = Name(j)
             PROVE  Version(i) <= Version(j)
  BY DEF Ahead
<1>1. i = j /\ i \in Item
  BY PossibleIs
<1>2. Version(i) \in Nat
  BY <1>1, TheList DEF Version
<1> QED BY <1>1, <1>2

(* The lists of an empty target.                                           *)
LEMMA FreshLists ==
    ASSUME packages \in World, Uniform, NEW t \in Lists
    PROVE  /\ \A i \in Item : t[i] \in {"explicit", "implicit", "available", "invalid"}
           /\ Given \subseteq Users(t) /\ Users(t) \subseteq Item /\ Marked(t) = Users(t)
           /\ t \in Supplied => Closed(Users(t))
<1>1. \A i \in Item : packages[i].type \in {"explicit", "available"}
  BY DEF Uniform, Fresh
<1>2. \A i \in Item : t[i] \in {"explicit", "implicit", "available", "invalid"}
  BY <1>1 DEF Lists, Grown
<1>3. Given \subseteq Users(t)
  BY DEF Lists, Grown, Users, Given
<1>4. Users(t) \subseteq Item /\ Marked(t) = Users(t)
  BY <1>2 DEF Users, Marked
<1>5. ASSUME t \in Supplied, NEW i \in Users(t), NEW k \in DOMAIN DependsOf(i)
      PROVE  \E j \in Users(t) : j \in NameOf(DependsOf(i)[k])
  <2>1. MetIn(t, i, k)
    BY <1>5 DEF Supplied
  <2>2. PICK j \in Item : /\ Match(DependsOf(i)[k], j)
                          /\ t[j] \in {"explicit", "implicit", "installed", "upgrade"}
    BY <2>1 DEF MetIn
  <2>3. j \in Users(t)
    BY <1>2, <2>2 DEF Users
  <2> QED BY <2>2, <2>3 DEF Match, NameOf
<1> QED BY <1>2, <1>3, <1>4, <1>5 DEF Closed

(* A tree that begins has the explicit packages only.                      *)
LEMMA LikeFirst ==
    ASSUME Base, phase \in Busy, NEW t, Fewer(type, t), NEW U \in SUBSET Item, Closed(U)
    PROVE  Like(t, U)
<1>1. Users(t) = Given /\ Given \subseteq U
  BY ListReplaces DEF Closed
<1> QED BY <1>1 DEF Like, Echoes

LEMMA LeadEndTrim ==
    ASSUME Base, Outset, Uniform, NEW S \in Possible, Base', EndTrim
    PROVE  Lead(S)'
<1>0. phase = "trim" /\ phase \in Busy /\ packages \in World /\ Given \subseteq S /\ Item' = Item
      /\ best = <<>> /\ n = 0 /\ stack = <<>>
  BY PossibleIs, Basics, NextSame, SameWorld DEF EndTrim, Busy, Next, Outset
<1>1. CASE Select(type)
  <2>1. Users(type) = Given
    BY <1>0, ListReplaces, Basics
  <2> QED BY <1>0, <1>1, <2>1, AheadWithin, LeadSelect
<1>2. CASE ~Select(type)
  <2>1. /\ tree' = type /\ phase' \in {"tree", "verify"}
        /\ UNCHANGED <<packages, best, n, stack>>
    BY <1>2 DEF EndTrim
  <2>2. ~Selected'
    BY <2>1 DEF Base, Selected
  <2>3. ASSUME NEW U \in SUBSET Item, Closed(U) PROVE Like(tree', U)
    BY <1>0, <2>1, <2>3, LikeFirst, Basics
  <2>4. Near'
    <3> SUFFICES ASSUME NEW U \in SUBSET Item', Closed(U)' PROVE Like(tree, U)'
      BY <1>0, <2>1 DEF Near
    <3>1. Like(tree', U)
      BY <1>0, <2>1, <2>3, SameLeads
    <3>2. Users(tree)' = Users(tree') /\ Echoes(U)' = Echoes(U)
      BY <1>0, <2>1, SameChances DEF Users
    <3> QED BY <3>1, <3>2 DEF Like
  <2>5. Leads(S)'
    BY <1>0, <2>1 DEF Leads
  <2> QED BY <2>2, <2>4, <2>5 DEF Lead
<1> QED BY <1>1, <1>2

LEMMA LeadTree ==
    ASSUME Base, Outset, OneOfEach, Uniform, NEW S \in Possible, Good(S), Lead(S), Base',
           NextTree \/ EndTrees
    PROVE  Lead(S)'
<1>0. phase = "tree" /\ phase \in Busy /\ packages \in World /\ S \subseteq Item /\ n \in Nat
      /\ stack = <<>> /\ Item' = Item
  BY PossibleIs, Basics, NextSame, SameWorld DEF NextTree, EndTrees, Busy, Next, OneOfEach
<1>1. CASE NextTree
  <2>1. /\ tree' = Tree(n) /\ n' = n + 1 /\ phase' = "verify"
        /\ UNCHANGED <<packages, type, best, stack>>
    BY <1>1 DEF NextTree
  <2>2. ~Selected'
    BY <2>1 DEF Base, Selected
  <2>3. Near'
    <3> SUFFICES ASSUME NEW U \in SUBSET Item', Closed(U)'
                 PROVE  (best # <<>> => Like(best, U))' /\ Like(tree, U)'
      BY <1>0, <2>1 DEF Near
    <3>1. U \in SUBSET Item /\ Closed(U) /\ Echoes(U)' = Echoes(U)
      BY <1>0, <2>1, SameLeads
    <3>2. Fewer(type, tree')
      BY <2>1, TreeIs
    <3>3. Like(tree', U)
      BY <1>0, <3>1, <3>2, LikeFirst
    <3>4. Users(tree)' = Users(tree') /\ Users(best)' = Users(best)
      BY <1>0, <2>1 DEF Users
    <3>5. best # <<>> => Like(best, U)
      BY <1>0, <3>1 DEF Lead, Near
    <3> QED BY <2>1, <3>1, <3>3, <3>4, <3>5 DEF Like
  <2>4. ASSUME best # <<>>, NEW k \in Nat, Tried(k)', Hit(S, k) PROVE Ahead(S, best)
    <3>1. k < n
      BY <1>0, <2>1, <2>4 DEF Tried
    <3>2. Tried(k)
      BY <1>0, <3>1 DEF Tried
    <3> QED BY <1>0, <2>4, <3>2 DEF Lead, Leads
  <2>5. Leads(S)'
    <3>1. \A k : Hit(S, k)' = Hit(S, k)
      BY <2>1, SameTrees
    <3>2. Ahead(S, best)' <=> Ahead(S, best)
      <4>1. /\ \A i : Name(i)' = Name(i) /\ Version(i)' = Version(i)
            /\ Users(best)' = Users(best)
        BY <1>0, <2>1, SameWorld DEF Version, Users
      <4> QED BY <4>1 DEF Ahead
    <3> QED BY <2>1, <2>4, <3>1, <3>2 DEF Leads
  <2> QED BY <2>2, <2>3, <2>5 DEF Lead
<1>2. CASE EndTrees
  <2>1. n >= TreeCount /\ (Fail("missing") \/ (best # <<>> /\ Select(best)))
    BY <1>2 DEF EndTrees
  <2>2. CASE Fail("missing")
    BY <2>2, LeadFail
  <2>3. CASE best # <<>> /\ Select(best)
    <3>1. PICK k \in Nat : k < TreeCount /\ Hit(S, k)
      BY <1>0, HitSome, PossibleIs
    <3>2. Tried(k)
      <4>1. TreeCount \in Nat
        BY <1>0, FactorsAre, TheList DEF TreeCount
      <4> QED BY <1>0, <2>1, <3>1, <4>1 DEF Tried
    <3>3. Ahead(S, best)
      BY <1>0, <2>3, <3>1, <3>2 DEF Lead, Leads
    <3> QED BY <2>3, <3>3, LeadSelect
  <2> QED BY <2>1, <2>2, <2>3
<1> QED BY <1>1, <1>2

(* What is promoted is like what a closed set has of that name.            *)
LEMMA LikeFound ==
    ASSUME Base, OneOfEach, Uniform, phase = "verify", stack # <<>>, ~Exhausted,
           NEW U \in SUBSET Item, Closed(U), \A m \in DOMAIN stack : stack[m].item \in Echoes(U),
           NEW c \in Usable, tree[c] = "available"
    PROVE  c \in Echoes(U)
<1>0. packages \in World /\ stack \in Seq(Frames) /\ tree \in Lists
  BY Basics
<1>1. PICK u \in Item, d \in Nat \ {0} : u = Top.item /\ d = Top.dep
  BY <1>0, TopIs
<1>2. Dependency = DependsOf(u)[d] /\ d \in DOMAIN DependsOf(u)
  <2>1. DOMAIN DependsOf(u) = 1..Len(DependsOf(u)) /\ Len(DependsOf(u)) \in Nat
    BY <1>0, TheList
  <2> QED BY <1>1, <2>1 DEF Dependency, Exhausted
<1>3. Len(stack) \in DOMAIN stack /\ Top = stack[Len(stack)]
  BY <1>0, TopIs
<1>4. PICK v \in U : DependsOf(v) = DependsOf(u)
  BY <1>1, <1>3 DEF Echoes
<1>5. PICK x \in U : x \in NameOf(Dependency)
  BY <1>2, <1>4 DEF Closed
<1>6. c \in Item /\ c \in NameOf(Dependency) /\ type[c] = "available" /\ c \in Rest(u, d)
  BY <1>2 DEF Usable, NameOf, OneOfEach, Inside, Soft, Rest
<1>7. PICK E \in SUBSET Item : Covered(E)
  BY DEF OneOfEach
<1>8. Given \cap NameOf(Dependency) = {}
  <2>1. Renewals = {}
    BY FreshIs DEF Uniform
  <2>2. u \in E
    BY <1>1, <1>3, <1>7, <2>1 DEF Covered
  <2> QED BY <1>2, <1>6, <1>7, <2>2 DEF Covered, Settled
<1>9. x \in Offers /\ c \in Offers /\ Name(x) = Name(c)
  <2>1. x \in Item /\ x \notin Given /\ c \notin Given /\ Name(x) = Name(c)
    BY <1>5, <1>6, <1>8 DEF NameOf
  <2> QED BY <1>6, <2>1, FreshIs DEF Uniform
<1>10. DependsOf(x) = DependsOf(c)
  BY <1>9 DEF Uniform, Alike
<1> QED BY <1>5, <1>6, <1>9, <1>10 DEF Echoes

(* The steps of the verification: only Near says something of them.        *)
LEMMA LeadVerifies ==
    ASSUME Base, NEW S, Lead(S), phase = "verify", Base',
           UNCHANGED <<packages, type, n, best, phase, result>>,
           \A U \in SUBSET Item : Closed(U) =>
               /\ Users(tree') \subseteq Echoes(U)
               /\ \A m \in DOMAIN stack' : stack'[m].item \in Echoes(U)
    PROVE  Lead(S)'
<1>1. /\ Item' = Item /\ \A U : Closed(U)' = Closed(U) /\ Echoes(U)' = Echoes(U)
  BY SameLeads
<1>2. Users(tree)' = Users(tree') /\ Users(best)' = Users(best)
  BY <1>1 DEF Users
<1>3. Near'
  BY <1>1, <1>2 DEF Lead, Near, Like
<1>4. \A k : Hit(S, k)' = Hit(S, k) /\ (Tried(k)' <=> Tried(k))
  BY SameTrees DEF Tried
<1>5. Ahead(S, best)' <=> Ahead(S, best)
  <2>1. \A i : Name(i)' = Name(i) /\ Version(i)' = Version(i)
    BY SameWorld DEF Version
  <2> QED BY <1>2, <2>1 DEF Ahead
<1>6. Leads(S)'
  BY <1>4, <1>5 DEF Lead, Leads
<1>7. ~Selected'
  BY DEF Base, Selected
<1> QED BY <1>3, <1>6, <1>7 DEF Lead

LEMMA LeadFind ==
    ASSUME Base, OneOfEach, Uniform, NEW S \in Possible, Lead(S), Base',
           VerifyRoot \/ VerifyReturn \/ FindDependency \/ DependencyMissing
    PROVE  Lead(S)'
<1>0. /\ phase = "verify" /\ packages \in World /\ tree \in Lists /\ tree \in [Item -> Types]
  BY Basics DEF VerifyRoot, VerifyReturn, FindDependency, DependencyMissing, Running
<1> DEFINE Whole(U) == U \in SUBSET Item /\ Closed(U)
<1>1. \A U : Whole(U) => /\ Given \subseteq Echoes(U) /\ Users(tree) \subseteq Echoes(U)
                        /\ \A m \in DOMAIN stack : stack[m].item \in Echoes(U)
  BY <1>0 DEF Lead, Near, Like, Closed, Echoes
<1>2. ASSUME NEW s, NEW m, VerifyStep(s, m),
             \A U : Whole(U) => \A l \in DOMAIN s : s[l].item \in Echoes(U)
      PROVE  Lead(S)'
  <2>1. /\ UNCHANGED <<packages, type, tree, n, best, phase, result>> /\ stack' = s
    BY <1>2 DEF VerifyStep
  <2> QED BY <1>0, <1>1, <1>2, <2>1, LeadVerifies
<1>3. ASSUME NEW t \in Lists, NEW i \in Item, NEW s, NEW pos, EnterForm(t, i, s, pos),
             \A U : Whole(U) =>
                 /\ Users(t) \subseteq Echoes(U)
                 /\ \A l \in DOMAIN Append(s, Frame(i)) : Append(s, Frame(i))[l].item \in Echoes(U)
      PROVE  Lead(S)'
  <2>1. /\ UNCHANGED <<packages, type, n, best, phase, result>>
        /\ tree' = TrimmedConflicts(t, i, FALSE) /\ stack' = Append(s, Frame(i))
    BY <1>3 DEF EnterForm
  <2>2. Fewer(t, tree')
    BY <2>1, TrimmedIs DEF Lists
  <2>3. Users(tree') \subseteq Users(t)
    BY <2>2 DEF Fewer, Users
  <2> QED BY <1>0, <1>3, <2>1, <2>3, LeadVerifies
<1>4. CASE VerifyRoot
  <2> DEFINE i == Min(NextExplicit)
  <2>1. \/ Fail("conflict")
        \/ i \in Item /\ tree[i] = "explicit" /\ EnterForm(tree, i, <<>>, i + 1)
    BY <1>4, VerifyRootIs
  <2> HIDE DEF i
  <2>2. ASSUME i \in Item, tree[i] = "explicit", EnterForm(tree, i, <<>>, i + 1) PROVE Lead(S)'
    <3>1. i \in Given
      BY <2>2, GivenIs
    <3>2. Frame(i) \in Frames /\ Frame(i).item = i
      BY <1>0, <2>2, FramesAre
    <3>3. Append(<<>>, Frame(i)) = <<Frame(i)>>
      OBVIOUS
    <3>4. DOMAIN <<Frame(i)>> = 1..1 /\ <<Frame(i)>>[1] = Frame(i)
      BY <3>2, OneFrame
    <3>5. \A l \in DOMAIN Append(<<>>, Frame(i)) : Append(<<>>, Frame(i))[l].item = i
      BY <3>2, <3>3, <3>4
    <3> HIDE DEF Whole
    <3> QED BY <1>0, <1>1, <1>3, <2>2, <3>1, <3>5
  <2> QED BY <2>1, <2>2, LeadFail
<1>5. CASE VerifyReturn
  <2>1. stack # <<>> /\ VerifyStep(Pop, missing)
    BY <1>5, VerifyReturnIs
  <2>2. \A U : Whole(U) => \A m \in DOMAIN Pop : Pop[m].item \in Echoes(U)
    <3> HIDE DEF Whole
    <3> QED BY <1>1, <2>1, StackItems
  <2> QED BY <1>2, <2>1, <2>2
<1>6. CASE DependencyMissing
  <2> DEFINE frames == SetTop(NextDep)
             m == missing \/ Unpacked = {}
  <2>1. stack # <<>> /\ VerifyStep(frames, m)
    BY <1>6, DependencyMissingIs
  <2>2. \A U : Whole(U) => \A l \in DOMAIN frames : frames[l].item \in Echoes(U)
    <3> HIDE DEF Whole, m
    <3> QED BY <1>1, <2>1, StackItems
  <2> HIDE DEF frames, m
  <2> QED BY <1>2, <2>1, <2>2
<1>7. CASE FindDependency
  <2> DEFINE c == Min(Usable)
             frames == SetTop(NextDep)
             m == missing \/ Held(c)
  <2>1. /\ stack # <<>> /\ ~Exhausted /\ Usable # {}
        /\ \/ VerifyStep(frames, m)
           \/ Fail("internal")
           \/ tree[c] = "available" /\ ~NotFound(c) /\ Enter(Promoted(c), c, frames, index)
    BY <1>7, FindIs DEF FindDependency, Running
  <2>2. Usable \in SUBSET Item
    BY DEF Usable, NameOf
  <2> HIDE DEF m
  <2>3. PICK x \in Usable : x = c /\ x \in Item
    BY <1>0, <2>1, <2>2, MinItem
  <2> HIDE DEF c
  <2>4. ASSUME VerifyStep(frames, m) PROVE Lead(S)'
    <3>1. \A U : Whole(U) => \A l \in DOMAIN frames : frames[l].item \in Echoes(U)
      <4> HIDE DEF Whole
      <4> QED BY <1>1, <2>1, StackItems
    <3> HIDE DEF frames
    <3> QED BY <1>2, <2>4, <3>1
  <2>5. ASSUME tree[c] = "available", ~NotFound(c), Enter(Promoted(c), c, frames, index)
        PROVE  Lead(S)'
    <3>1. /\ x \in Item /\ tree[x] = "available" /\ ~NotFound(x) /\ MayUpgrade(x)
          /\ Enter(Promoted(x), x, frames, index)
      BY <2>3, <2>5 DEF Usable
    <3>2. PICK t \in Lists : /\ t = Promoted(x)
                             /\ \A i \in Item : t[i] = IF i = x THEN "implicit"
                                                       ELSE IF i \in OnDisk(x) THEN "upgrade" ELSE tree[i]
      BY <1>0, <3>1, SeenPromoted
    <3>3. Users(t) \subseteq Users(tree) \cup {x}
      BY <3>2 DEF Users
    <3>4. ASSUME NEW U, Whole(U) PROVE x \in Echoes(U)
      BY <1>0, <1>1, <2>1, <3>1, <3>4, LikeFound
    <3>5. ASSUME NEW U, Whole(U)
          PROVE  \A l \in DOMAIN Append(frames, Frame(x)) :
                     Append(frames, Frame(x))[l].item \in Echoes(U)
      <4>1. \A l \in DOMAIN stack : stack[l].item \in Echoes(U)
        BY <1>1, <3>5
      <4>2. \A y \in Item : LET s == Append(SetTop(NextDep), Frame(y))
                            IN  \A l \in DOMAIN s : s[l].item \in Echoes(U) \cup {y}
        BY <2>1, <4>1, StackItems
      <4> QED BY <3>1, <3>4, <3>5, <4>2
    <3>6. Fail("conflict") \/ EnterForm(t, x, frames, index)
      BY <1>0, <3>1, <3>2 DEF Enter, EnterForm
    <3> HIDE DEF frames, Whole
    <3>7. \A U : Whole(U) =>
              /\ Users(t) \subseteq Echoes(U)
              /\ \A l \in DOMAIN Append(frames, Frame(x)) :
                     Append(frames, Frame(x))[l].item \in Echoes(U)
      BY <1>1, <3>3, <3>4, <3>5
    <3> QED BY <1>3, <3>1, <3>6, <3>7, LeadFail
  <2> QED BY <2>1, <2>4, <2>5, LeadFail
<1> QED BY <1>4, <1>5, <1>6, <1>7

(* Two verified trees have packages of the same names; of the list that is *)
(* kept, the package of a name is at least as recent.                      *)
LEMMA KeepsAhead ==
    ASSUME packages \in World, Uniform, GivenOnce, NEW S \in SUBSET Item,
           NEW t \in Lists, NEW r \in Lists, Ahead(S, t),
           \/ ~Larger(t, r)
           \/ /\ r \in Singles /\ Identical(t, r) /\ Users(t) \subseteq S
              /\ \A i, j \in S : Name(i) = Name(j) => i = j,
           \A i \in S, j \in Users(r) : Name(i) = Name(j) => \E l \in Users(t) : Name(l) = Name(j)
    PROVE  Ahead(S, r)
<1> SUFFICES ASSUME NEW i \in S, NEW j \in Users(r), Name(i) = Name(j)
             PROVE  Version(i) <= Version(j)
  BY DEF Ahead
<1>1. PICK l \in Users(t) : Name(l) = Name(j)
  OBVIOUS
<1>2. /\ i \in Item /\ j \in Item /\ l \in Item /\ Marked(t) = Users(t) /\ Marked(r) = Users(r)
  BY FreshLists
<1>3. Version(i) \in Nat /\ Version(j) \in Nat /\ Version(l) \in Nat
  BY <1>2, TheList DEF Version
<1>4. CASE ~Larger(t, r)
  <2>1. Version(i) <= Version(l)
    BY <1>1 DEF Ahead
  <2>2. ~(Version(l) > Version(j))
    BY <1>1, <1>2, <1>4 DEF Larger
  <2> QED BY <1>3, <2>1, <2>2
<1>5. CASE /\ r \in Singles /\ Identical(t, r) /\ Users(t) \subseteq S
           /\ \A x, y \in S : Name(x) = Name(y) => x = y
  <2>1. l = i
    BY <1>1, <1>5
  <2>2. PICK m \in Users(r) : Name(l) = Name(m) /\ Version(l) = Version(m)
    BY <1>1, <1>2, <1>5 DEF Identical
  <2>3. m = j
    <3>1. /\ m \in Item /\ r[m] \in {"explicit", "implicit"} /\ r[j] \in {"explicit", "implicit"}
          /\ Name(m) = Name(j)
      BY <1>1, <2>2 DEF Users
    <3>2. CASE r[m] = "implicit" \/ r[j] = "implicit"
      BY <1>2, <1>5, <3>1, <3>2 DEF Singles
    <3>3. CASE r[m] = "explicit" /\ r[j] = "explicit"
      <4>1. packages[m].type = "explicit" /\ packages[j].type = "explicit"
        BY <1>2, <3>1, <3>3 DEF Lists, Grown
      <4> QED BY <1>2, <3>1, <4>1 DEF GivenOnce
    <3> QED BY <3>1, <3>2, <3>3
  <2> QED BY <1>3, <2>1, <2>2, <2>3
<1> QED BY <1>4, <1>5

LEMMA LeadVerified ==
    ASSUME Base, Outset, OneOfEach, Served, Uniform, NEW S \in Possible, Good(S), Lead(S), Base',
           VerifiedOnly \/ VerifiedTree
    PROVE  Lead(S)'
<1>0. /\ phase = "verify" /\ packages \in World /\ tree \in Lists /\ n \in Nat
      /\ S \in SUBSET Item /\ GivenOnce /\ \A i, j \in S : Name(i) = Name(j) => i = j
      /\ stack = <<>> /\ NextExplicit = {} /\ Serving
  BY PossibleIs, Basics DEF VerifiedOnly, VerifiedTree, Verified, Served
<1>1. Current(S) => ~missing /\ Users(tree) \subseteq S /\ Ahead(S, tree)
  BY <1>0, AheadWithin DEF Good, InVerify, Follows
<1>2. CASE VerifiedOnly
  <2>1. ~choices /\ (~missing => Select(tree))
    BY <1>2 DEF VerifiedOnly
  <2>2. Current(S)
    BY <2>1 DEF Current
  <2> QED BY <1>1, <2>1, <2>2, LeadSelect
<1>3. CASE VerifiedTree
  <2>1. CASE Fail("similar")
    BY <2>1, LeadFail
  <2>2. ASSUME NEW t, KeepBest(t), t \in {tree, best},
               \A k \in Nat : k < n /\ Hit(S, k) => Ahead(S, t)
        PROVE  Lead(S)'
    <3>1. /\ best' = t /\ phase' = "tree"
          /\ UNCHANGED <<packages, type, n, result>>
      BY <2>2 DEF KeepBest
    <3>2. ~Selected'
      BY <3>1 DEF Base, Selected
    <3>3. /\ Item' = Item /\ \A U : Closed(U)' = Closed(U) /\ Echoes(U)' = Echoes(U)
      BY <3>1, SameLeads
    <3>4. Users(best)' = Users(t) /\ \A i : Name(i)' = Name(i) /\ Version(i)' = Version(i)
      BY <3>1, SameWorld DEF Users, Version
    <3>5. Near'
      <4> SUFFICES ASSUME NEW U \in SUBSET Item, Closed(U), t # <<>> PROVE Like(t, U)
        BY <3>1, <3>3, <3>4 DEF Near, Like
      <4> QED BY <1>0, <2>2 DEF Lead, Near
    <3>6. \A k : Hit(S, k)' = Hit(S, k)
      BY <3>1, SameTrees
    <3>7. Ahead(S, best)' <=> Ahead(S, t)
      BY <3>4 DEF Ahead
    <3>8. Leads(S)'
      BY <2>2, <3>1, <3>6, <3>7 DEF Leads, Tried
    <3> QED BY <3>2, <3>5, <3>8 DEF Lead
  <2>3. ASSUME NEW k \in Nat, k < n, Hit(S, k), ~Current(S)
        PROVE  best # <<>> /\ Ahead(S, best)
    <3>1. k + 1 < n
      <4>1. n # k + 1
        BY <2>3 DEF Current
      <4> QED BY <1>0, <2>3, <4>1
    <3>2. Tried(k)
      BY <2>3, <3>1 DEF Tried
    <3> QED BY <1>0, <2>3, <3>2 DEF Good, Found, Lead, Leads
  <2>4. ASSUME best # <<>>, NEW k \in Nat, k < n, Hit(S, k), k + 1 # n
        PROVE  Ahead(S, best)
    <3>1. k + 1 < n
      BY <1>0, <2>4
    <3>2. Tried(k)
      BY <2>4, <3>1 DEF Tried
    <3> QED BY <1>0, <2>4, <3>2 DEF Lead, Leads
  <2>5. ASSUME NEW k \in Nat, Hit(S, k), k + 1 = n PROVE Current(S)
    BY <2>5 DEF Current
  <2>6. CASE missing /\ KeepBest(best)
    <3>1. \A k \in Nat : k < n /\ Hit(S, k) => Ahead(S, best)
      BY <1>1, <2>3, <2>6
    <3> QED BY <2>2, <2>6, <3>1
  <2>7. CASE ~missing /\ best = <<>> /\ KeepBest(tree)
    <3>1. \A k \in Nat : k < n /\ Hit(S, k) => Ahead(S, tree)
      BY <1>1, <2>3, <2>7
    <3> QED BY <2>2, <2>7, <3>1
  <2>8. ASSUME ~missing, best # <<>>
        PROVE  /\ best \in Lists /\ best \in Singles
               /\ Like(tree, Users(best)) /\ Like(best, Users(tree))
               /\ \A i \in S, j \in Users(best) : Name(i) = Name(j) =>
                      \E l \in Users(tree) : Name(l) = Name(j)
               /\ \A i \in S, j \in Users(tree) : Name(i) = Name(j) =>
                      \E l \in Users(best) : Name(l) = Name(j)
    <3>1. best \in Lists /\ best \in Supplied /\ best \in Singles /\ tree \in Supplied
      BY <1>0, <2>8, Basics, VerifiedSupplied DEF Served, OneOfEach
    <3>2. /\ Users(best) \in SUBSET Item /\ Closed(Users(best))
          /\ Users(tree) \in SUBSET Item /\ Closed(Users(tree))
      BY <1>0, <3>1, FreshLists
    <3>3. Like(tree, Users(best)) /\ Like(best, Users(tree))
      BY <1>0, <2>8, <3>2 DEF Lead, Near
    <3> QED BY <3>1, <3>3 DEF Like, Echoes
  <2>9. CASE ~missing /\ best # <<>> /\ KeepBest(tree) /\ ~Larger(best, tree)
    <3>1. ASSUME NEW k \in Nat, k < n, Hit(S, k) PROVE Ahead(S, tree)
      <4>1. CASE k + 1 = n
        BY <1>1, <2>5, <3>1, <4>1
      <4>2. CASE k + 1 # n
        <5>1. Ahead(S, best)
          BY <2>4, <2>9, <3>1, <4>2
        <5> QED BY <1>0, <2>8, <2>9, <5>1, KeepsAhead
      <4> QED BY <4>1, <4>2
    <3> QED BY <2>2, <2>9, <3>1
  <2>10. CASE /\ ~missing /\ best # <<>> /\ KeepBest(best)
              /\ Identical(tree, best) \/ ~Larger(tree, best)
    <3>1. ASSUME NEW k \in Nat, k < n, Hit(S, k) PROVE Ahead(S, best)
      <4>1. CASE k + 1 = n
        <5>1. Users(tree) \subseteq S /\ Ahead(S, tree)
          BY <1>1, <2>5, <3>1, <4>1
        <5>2. \/ ~Larger(tree, best)
              \/ best \in Singles /\ Identical(tree, best)
          BY <2>8, <2>10
        <5>3. CASE ~Larger(tree, best)
          BY <1>0, <2>8, <2>10, <5>1, <5>3, KeepsAhead
        <5>4. CASE best \in Singles /\ Identical(tree, best)
          BY <1>0, <2>8, <2>10, <5>1, <5>4, KeepsAhead
        <5> QED BY <5>2, <5>3, <5>4
      <4>2. CASE k + 1 # n
        BY <2>4, <2>10, <3>1, <4>2
      <4> QED BY <4>1, <4>2
    <3> QED BY <2>2, <2>10, <3>1
  <2> QED BY <1>3, <2>1, <2>6, <2>7, <2>9, <2>10, VerifiedTreeIs
<1> QED BY <1>2, <1>3

LEMMA LeadNextStep ==
    ASSUME Base, Outset, OneOfEach, Served, Uniform, NEW S \in Possible, Good(S), Lead(S),
           [Next]_vars, Base', Outset'
    PROVE  Lead(S)'
<1>1. CASE \/ ValidateInstalled \/ TrimConflicts \/ EndTrimConflicts
           \/ TrimRoot \/ TrimReturn \/ TrimInstalled
  <2>1. phase' \in {"conflicts", "trim"}
    BY <1>1 DEF ValidateInstalled, TrimConflicts, EndTrimConflicts, TrimRoot, TrimReturn,
                TrimInstalled, TrimStep, Running
  <2> QED BY <2>1, LeadEarly
<1>2. CASE TrimExplicit \/ TrimCandidate \/ TrimCandidatesEnd
  <2>1. \/ phase' = "trim"
        \/ \E why \in {"incompatible", "circular", "unsatisfied"} : Fail(why)
    BY <1>2 DEF TrimExplicit, TrimCandidate, TrimCandidatesEnd, TrimStep, Running
  <2> QED BY <2>1, LeadEarly, LeadFail
<1>3. CASE ValidateInstalledFails \/ TrimConflictsFails
  BY <1>3, LeadFail DEF ValidateInstalledFails, TrimConflictsFails
<1>4. CASE UNCHANGED vars
  <2>1. Item' = Item /\ \A U : Closed(U)' = Closed(U) /\ Echoes(U)' = Echoes(U)
    BY <1>4, SameLeads DEF vars
  <2>2. /\ Users(tree)' = Users(tree) /\ Users(best)' = Users(best) /\ Users(type)' = Users(type)
        /\ \A i : Name(i)' = Name(i) /\ Version(i)' = Version(i)
    BY <1>4, <2>1, SameWorld DEF vars, Users, Version
  <2>3. Near'
    BY <1>4, <2>1, <2>2 DEF Lead, Near, Like, vars
  <2>4. Ahead(S, best)' = Ahead(S, best) /\ Ahead(S, type)' = Ahead(S, type)
    BY <2>2 DEF Ahead
  <2>5. \A k : Hit(S, k)' = Hit(S, k) /\ Tried(k)' = Tried(k)
    BY <1>4, SameTrees DEF Tried, vars
  <2>6. Leads(S)'
    BY <1>4, <2>4, <2>5 DEF Lead, Leads, vars
  <2> QED BY <1>4, <2>3, <2>4, <2>6 DEF Lead, Selected, vars
<1> QED BY <1>1, <1>2, <1>3, <1>4, LeadEndTrim, LeadTree, LeadFind, LeadVerified DEF Next

Leading == Uniform /\ Peaceful => \A S \in Possible : Lead(S)

LEMMA LeadingNext ==
    /\ Base /\ Base' /\ Outset /\ Outset' /\ Ones /\ Meets /\ Chances /\ Leading /\ [Next]_vars
    => Leading'
<1> SUFFICES ASSUME Base, Base', Outset, Outset', Ones, Meets, Chances, Leading, [Next]_vars,
                    (Uniform /\ Peaceful)', NEW S \in Possible'
             PROVE  Lead(S)'
  BY DEF Leading
<1>1. Uniform /\ Peaceful /\ S \in Possible
  BY NextSame, SameChances, SameSupplies
<1>2. OneOfEach
  BY <1>1, PossibleIs, Basics DEF Ones
<1>3. Configured /\ Uncapped
  BY <1>1 DEF Uniform, Fresh, Configured, Uncapped, OnTarget
<1>4. Served /\ Good(S) /\ Lead(S)
  BY <1>1, <1>3 DEF Meets, Chances, Leading
<1> QED BY <1>1, <1>2, <1>4, LeadNextStep

LEMMA LeadInit == ASSUME Init, NEW S \in Possible PROVE Lead(S)
BY DEF Init, Lead, Near, Leads, Selected

(* Where, besides, the packages of the repositories do not conflict with   *)
(* one another, no set of packages that could be installed is better than  *)
(* the one that is selected: each such set is the choice of one of the     *)
(* trees, that tree is verified, and what the comparison keeps is at least *)
(* as recent (compare_trees, validate_dependencies).                       *)
THEOREM BestIsSelected == Spec => [](Peaceful => SelectedIsBest)
<1>1. Init => Outset /\ Ones /\ Chances /\ Meets /\ Returned /\ Leading
  BY OutsetInit, OnesInit, GoodInit, ServesInit, LeadInit
     DEF Ones, Chances, Meets, Init, Returned, Leading
<1>2. Base /\ Base' /\ Outset /\ Ones /\ Chances /\ Meets /\ Returned /\ Leading /\ [Next]_vars
      => Outset' /\ Ones' /\ Chances' /\ Meets' /\ Returned' /\ Leading'
  <2> SUFFICES ASSUME Base, Base', Outset, Ones, Chances, Meets, Returned, Leading, [Next]_vars
               PROVE  Outset' /\ Ones' /\ Chances' /\ Meets' /\ Returned' /\ Leading'
    OBVIOUS
  <2>1. Outset' /\ Ones' /\ Chances' /\ Returned'
    BY OutsetNext, OnesNext, ChancesNext, ReturnedNext
  <2>2. Meets'
    BY MeetsNext DEF Returned
  <2> QED BY <2>1, <2>2, LeadingNext
<1>3. Base /\ Leading => (Peaceful => SelectedIsBest)
  <2> SUFFICES ASSUME Base, Leading, Peaceful, Selected, Alike, Fresh,
                      NEW S \in Possible, Beats(S, After)
               PROVE  FALSE
    BY DEF SelectedIsBest, NoneBetter
  <2>1. Uniform /\ Ahead(S, type) /\ packages \in World
    BY Basics DEF Leading, Uniform, Lead
  <2>2. After = Users(type) /\ Users(type) \subseteq Item /\ S \subseteq Item
    BY <2>1, FreshLists, PossibleIs, Basics DEF After, Installs, Users
  <2>3. PICK i \in S, j \in Users(type) : Name(i) = Name(j) /\ Version(i) > Version(j)
    BY <2>2 DEF Beats
  <2>4. Version(i) \in Nat /\ Version(j) \in Nat
    BY <2>1, <2>2, TheList DEF Version
  <2> QED BY <2>1, <2>3, <2>4 DEF Ahead
<1> QED BY <1>1, <1>2, <1>3, BaseAlways, PTL DEF Spec
==============================================================================

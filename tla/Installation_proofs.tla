------------------------- MODULE Installation_proofs -------------------------
(***************************************************************************)
(* For any packages, files and commands: installing several packages keeps *)
(* the files of those that are there, of the administrator and of the      *)
(* essential packages, whatever is installed, upgraded, removed or fails,  *)
(* and unpacks each one after those it needs.                              *)
(***************************************************************************)
EXTENDS Installation, NaturalsInduction, WellFoundedInduction, TLAPS

-----------------------------------------------------------------------------
(* The inductive invariant.                                                *)

Ready      == {"preconfigure", "unpack", "configure"}
Waiting    == IF pc = "configure" THEN 2..Len(todo) ELSE 1..Len(todo)
Explicit   == {i \in Given : kind[i] = "explicit"}
Unpackable == {"none", "not_installed", "config_files", "installed"}

(* The files of the packages, wherever they come from.                     *)
FilesOfDebs ==
    /\ \A p \in Package : sums[p] # None => Name(sums[p]) = p
    /\ \A f \in Path : file[f] \in Deb => f \in Files(file[f])
    /\ \A f \in Path : fresh[f] # Admin /\ (fresh[f] \in Deb => f \in Conf(fresh[f]))

(* What a command finds at each of its places.                             *)
Stages ==
    /\ pc # "idle" =>
         (pc = "remove") = (cmd.name \in {"remove", "purge"})
    /\ pc # "idle" /\ cmd.name = "configure" => pc = "configure" /\ Len(todo) = 1
    /\ pc \in {"check", "preconfigure"} =>
         \A i \in Explicit : status[Name(cmd.debs[i])] \in Unpackable
    /\ pc \in {"check", "preconfigure"} =>
         \A i \in Given : kind[i] = "configure" /\ (pc = "check" \/ i >= at) =>
                            status[Name(cmd.debs[i])] = "unpacked"
    /\ pc = "check" => todo = <<>> /\ \A p \in Package : status[p] \notin Half
    /\ pc = "preconfigure" => at \in Given /\ kind[at] = "configure"
    /\ pc = "configure" => /\ todo # <<>>
                           /\ status[Name(Next1)] = "unpacked" /\ deb[Name(Next1)] = Next1
    /\ pc = "remove" =>
         /\ cmd.package \in Package /\ ~Essential(deb[cmd.package])
         /\ \/ status[cmd.package] \in Present \cup Half
            \/ cmd.name = "purge" /\ status[cmd.package] = "config_files"

(* The packages that wait are different packages of the command line,      *)
(* whose files were compared with each other.                              *)
Apart(d, e) == Name(d) # Name(e) /\ Files(d) \cap Files(e) = {}
Listed ==
    /\ pc = "check" /\ ~errors =>
         \A i, j \in Explicit \cap 1..at - 1 : i # j => Apart(cmd.debs[i], cmd.debs[j])
    /\ pc \in Ready => \A k, l \in DOMAIN todo : k # l => Apart(todo[k], todo[l])
    /\ pc \in Ready => \A k \in Waiting : status[Name(todo[k])] \in Unpackable
    /\ pc = "preconfigure" => \A k \in DOMAIN todo : \E i \in Explicit : todo[k] = cmd.debs[i]

Base == TypeOK /\ FilesOfDebs /\ Stages /\ Listed

(* No path is a configuration file of one .deb and a regular file of       *)
(* another: the exemption of the configuration files from the test of      *)
(* compute_size_and_verify_overwrite() would let the one have the file of  *)
(* the other, and its --purge delete it.                                   *)
OneRole == \A d, e \in Deb : Conf(d) \cap Regular(e) = {}

FilesOwned ==
    \A p \in Package : status[p] \in Present =>
        \A f \in Regular(deb[p]) : file[f] = deb[p]
NoAdmin ==
    \A p \in Package : status[p] \in Present => \A f \in Regular(deb[p]) : file[f] # Admin

(* What is true of a .deb once it was checked, until it is unpacked: the   *)
(* administrator has no file where it brings one, and no other package.    *)
Unedited ==
    {d \in Deb : ~Forces("overwrite") =>
        \A f \in Regular(d) : file[f] = Admin => f \in OldFiles(d)}
Untaken ==
    {d \in Deb : ~Forces("overwrite") =>
        \A f \in Regular(d) : \A q \in Package \ {Name(d)} :
            status[q] \in Present => f \notin Regular(deb[q])}
Checked == IF pc = "check" THEN {cmd.debs[i] : i \in Explicit \cap 1..at - 1}
                           ELSE {todo[k] : k \in Waiting}
Sound == pc \in Ready \/ (pc = "check" /\ ~errors)
Compared ==
    /\ Sound => Checked \subseteq Unedited
    /\ Sound /\ ~excused => Checked \subseteq Untaken
Owners == OwnFiles /\ NoAdmin /\ Compared

(* The files of an essential package are there as long as it is.           *)
NoEssentialConf == \A e \in Deb : Essential(e) => Conf(e) = {}
EssentialOwned ==
    \A f \in Path : \A e \in Deb : Essential(e) /\ file[f] = e =>
        deb[Name(e)] = e /\ status[Name(e)] \in Present \cup Half
Unessential ==
    {d \in Deb : \A f \in Regular(d) : \A e \in Deb :
        Essential(e) /\ file[f] = e /\ Name(e) # Name(d) => f \in OldFiles(d)}
EssentialCompared ==
    /\ pc = "check" /\ essentials # None =>
         \A f \in Path : \A e \in Deb : Essential(e) /\ file[f] = e => f \in essentials
    /\ Sound => Checked \subseteq Unessential
Essentials == EssentialOwned /\ EssentialCompared


-----------------------------------------------------------------------------
(* Recursive functions over an initial segment of the naturals.            *)

Less == {ss \in Nat \X Nat : ss[1] < ss[2]}

LEMMA LessWF == IsWellFoundedOn(Less, Nat)
BY NatLessThanWellFounded DEF OpToRel, Less

LEMMA LeastNat ==
    ASSUME NEW T \in SUBSET Nat, T # {}
    PROVE  \E x \in T : \A y \in T : x <= y
<1>1. \E x \in T : \A y \in T : ~(<<y, x>> \in Less)
  BY LessWF, WFMin
<1>2. \A x \in Nat, y \in Nat : y < x => <<y, x>> \in Less
  BY DEF Less
<1>3. PICK x \in T : \A y \in T : ~(<<y, x>> \in Less)
  BY <1>1
<1>4. ASSUME NEW y \in T PROVE x <= y
  <2>1. ~(y < x)
    BY <1>2, <1>3
  <2> QED BY <2>1
<1> QED BY <1>4

LEMMA FirstOf ==
    ASSUME NEW T \in SUBSET Nat, T # {}
    PROVE  First(T) \in T
BY LeastNat DEF First

(* What the first value and every step keep, every value has.              *)
LEMMA Along ==
    ASSUME NEW N \in Nat, NEW S, NEW f, f[0] \in S,
           \A n \in 1..N : f[n - 1] \in S => f[n] \in S
    PROVE  \A n \in 0..N : f[n] \in S
<1> SUFFICES ASSUME {n \in 0..N : f[n] \notin S} # {} PROVE FALSE
  OBVIOUS
<1>1. PICK x \in {n \in 0..N : f[n] \notin S} : \A y \in {n \in 0..N : f[n] \notin S} : x <= y
  <2>1. {n \in 0..N : f[n] \notin S} \in SUBSET Nat
    OBVIOUS
  <2> QED BY <2>1, LeastNat
<1>2. x # 0 /\ x \in 1..N /\ x - 1 \in 0..N
  BY <1>1
<1>3. f[x - 1] \in S
  BY <1>1, <1>2
<1> QED BY <1>1, <1>2, <1>3

(* A function that iterates g from b exists.                               *)
Iteration(N, S, b, g) ==
    {f \in [0..N -> S] : f[0] = b /\ \A n \in 1..N : f[n] = g[f[n - 1]]}

LEMMA Iterates ==
    ASSUME NEW N \in Nat, NEW S, NEW b \in S, NEW g \in [S -> S]
    PROVE  \E f : f \in Iteration(N, S, b, g)
<1> DEFINE Upto(m) == \E f \in [0..m -> S] : f[0] = b /\ \A n \in 1..m : f[n] = g[f[n - 1]]
           T == {m \in Nat : ~Upto(m)}
<1>1. Upto(0)
  <2> DEFINE f == [n \in 0..0 |-> b]
  <2>1. f \in [0..0 -> S] /\ f[0] = b /\ 1..0 = {}
    OBVIOUS
  <2> QED BY <2>1
<1>2. ASSUME NEW m \in Nat, Upto(m) PROVE Upto(m + 1)
  <2>1. PICK f \in [0..m -> S] : f[0] = b /\ \A n \in 1..m : f[n] = g[f[n - 1]]
    BY <1>2
  <2> DEFINE h == [n \in 0..m + 1 |-> IF n = m + 1 THEN g[f[m]] ELSE f[n]]
  <2>2. h \in [0..m + 1 -> S]
    BY <2>1
  <2>3. h[0] = b
    BY <2>1
  <2>4. ASSUME NEW n \in 1..m + 1 PROVE h[n] = g[h[n - 1]]
    <3>1. CASE n = m + 1
      BY <2>1, <3>1
    <3>2. CASE n # m + 1
      <4>1. n \in 1..m /\ n - 1 \in 0..m /\ n - 1 # m + 1 /\ n \in 0..m + 1
        BY <3>2
      <4> QED BY <2>1, <3>2, <4>1
    <3> QED BY <3>1, <3>2
  <2> HIDE DEF h
  <2> QED BY <2>2, <2>3, <2>4
<1> HIDE DEF Upto
<1>3. T = {}
  <2> SUFFICES ASSUME T # {} PROVE FALSE
    OBVIOUS
  <2>1. PICK x \in T : \A y \in T : x <= y
    BY LeastNat
  <2>2. x \in Nat /\ ~Upto(x) /\ x # 0
    BY <1>1, <2>1
  <2>3. x - 1 \in Nat /\ x - 1 \notin T
    BY <2>1, <2>2
  <2> QED BY <1>2, <2>2, <2>3
<1>4. Upto(N)
  BY <1>3
<1> QED BY <1>4 DEF Upto, Iteration

-----------------------------------------------------------------------------
(* sort_packages() lists packages of the command line, none of them twice. *)

(* The packages of a command line do not need each other in a circle: they *)
(* have levels, as sort_packages() takes for granted, which calls itself.  *)
Acyclic ==
    \A c \in Command : \E level \in [DOMAIN c.debs -> 0..Len(c.debs)] :
        \A i, j \in DOMAIN c.debs :
            Name(c.debs[j]) \in Image(Needs(c.debs[i])) => level[j] < level[i]

LEMMA TheCommand ==
    ASSUME cmd \in Command
    PROVE  /\ cmd \in Commands /\ cmd.debs \in Seq(Deb) /\ Len(cmd.debs) \in Nat
           /\ Given = 1..Len(cmd.debs) /\ \A i \in Given : cmd.debs[i] \in Deb
           /\ \A i, j \in Given : Name(cmd.debs[i]) = Name(cmd.debs[j]) => i = j
BY CommandAssumption DEF Commands, Given

LEMMA TheDeb ==
    ASSUME NEW d \in Deb
    PROVE  /\ Name(d) \in Package /\ Files(d) \subseteq Path /\ Conf(d) \subseteq Files(d)
           /\ Regular(d) \subseteq Files(d) /\ Files(d) = Conf(d) \cup Regular(d)
           /\ Conf(d) \cap Regular(d) = {}
           /\ Needs(d) \in Seq(Package) /\ Essential(d) \in BOOLEAN /\ Version(d) \in Nat
           /\ d # None /\ d # Absent /\ d # Admin
BY InfoAssumption, NamesAssumption
DEF DebInfo, Name, Files, Conf, Regular, Needs, Essential, Version

(* The way from a package to one it needs that is not listed yet.          *)
Deeper(i, listed) ==
    IF Missing(i, listed) = {} THEN i
    ELSE CHOOSE j \in Sortable(listed) :
           Name(cmd.debs[j]) = Needs(cmd.debs[i])[First(Missing(i, listed))]

LEMMA DeeperIs ==
    ASSUME cmd \in Command, NEW listed, NEW i \in Sortable(listed)
    PROVE  /\ Deeper(i, listed) \in Sortable(listed)
           /\ Missing(i, listed) # {} =>
                Name(cmd.debs[Deeper(i, listed)]) \in Image(Needs(cmd.debs[i]))
<1>1. Missing(i, listed) \subseteq Nat
  <2>1. cmd.debs[i] \in Deb
    BY TheCommand DEF Sortable
  <2>2. DOMAIN Needs(cmd.debs[i]) \subseteq Nat
    BY <2>1, TheDeb
  <2> QED BY <2>2 DEF Missing
<1>2. CASE Missing(i, listed) # {}
  <2>1. First(Missing(i, listed)) \in Missing(i, listed)
    BY <1>1, <1>2, FirstOf
  <2>2. \E j \in Sortable(listed) :
            Name(cmd.debs[j]) = Needs(cmd.debs[i])[First(Missing(i, listed))]
    BY <2>1 DEF Missing
  <2>3. First(Missing(i, listed)) \in DOMAIN Needs(cmd.debs[i])
    BY <2>1 DEF Missing
  <2> QED BY <1>2, <2>2, <2>3 DEF Deeper, Image
<1> QED BY <1>2 DEF Deeper

LEMMA NextListedRuns ==
    ASSUME cmd \in Command, NEW listed, Sortable(listed) # {}
    PROVE  \E down :
               /\ down[0] \in Sortable(listed)
               /\ \A n \in 1..Len(cmd.debs) : down[n] = Deeper(down[n - 1], listed)
               /\ NextListed(listed) = down[Len(cmd.debs)]
<1> DEFINE N == Len(cmd.debs)
           S == Sortable(listed)
           step(i) == Deeper(i, listed)
           g == [i \in S |-> step(i)]
<1>1. N \in Nat /\ S \subseteq Given /\ Given \subseteq Nat
  BY TheCommand DEF Sortable
<1>2. First(S) \in S
  BY <1>1, FirstOf
<1>3. g \in [S -> S]
  BY DeeperIs
<1>4. PICK f \in [0..N -> S] : f[0] = First(S) /\ \A n \in 1..N : f[n] = g[f[n - 1]]
  <2>1. \E f : f \in Iteration(N, S, First(S), g)
    <3> HIDE DEF N, S, g
    <3> QED BY <1>1, <1>2, <1>3, Iterates
  <2> HIDE DEF N, S, g
  <2> QED BY <2>1 DEF Iteration
<1> DEFINE values(d) == [n \in 0..N |-> IF n = 0 THEN First(S) ELSE step(d[n - 1])]
           down == CHOOSE d : d = values(d)
<1>5. f = values(f)
  <2>1. ASSUME NEW n \in 0..N PROVE f[n] = values(f)[n]
    <3>1. CASE n = 0
      BY <1>4, <3>1
    <3>2. CASE n # 0
      <4>1. n \in 1..N /\ n - 1 \in 0..N
        BY <1>1, <3>2
      <4>2. f[n - 1] \in S /\ f[n] = g[f[n - 1]]
        BY <1>4, <4>1
      <4> QED BY <3>2, <4>2
    <3> QED BY <3>1, <3>2
  <2>2. values(f) = [n \in 0..N |-> values(f)[n]] /\ f = [n \in 0..N |-> f[n]]
    BY <1>4
  <2> HIDE DEF values
  <2> QED BY <2>1, <2>2
<1>6. down = values(down)
  <2> HIDE DEF values
  <2> QED BY <1>5
<1>7. NextListed(listed) = down[N]
  BY DEF NextListed, Deeper
<1>8. down[0] \in S /\ \A n \in 1..N : down[n] = step(down[n - 1])
  <2>1. down[0] = values(down)[0] /\ \A n \in 1..N : down[n] = values(down)[n]
    <3> HIDE DEF values, down
    <3> QED BY <1>6
  <2> HIDE DEF down, S, step
  <2>2. values(down)[0] = First(S) /\ \A n \in 1..N : values(down)[n] = step(down[n - 1])
    BY <1>1
  <2> QED BY <1>2, <2>1, <2>2
<1> HIDE DEF down
<1> QED BY <1>7, <1>8

LEMMA NextListedIs ==
    ASSUME cmd \in Command, NEW listed, Sortable(listed) # {}
    PROVE  NextListed(listed) \in Sortable(listed)
<1>1. PICK down : /\ down[0] \in Sortable(listed)
                  /\ \A n \in 1..Len(cmd.debs) : down[n] = Deeper(down[n - 1], listed)
                  /\ NextListed(listed) = down[Len(cmd.debs)]
  BY NextListedRuns
<1>2. Len(cmd.debs) \in Nat
  BY TheCommand
<1>3. \A n \in 0..Len(cmd.debs) : down[n] \in Sortable(listed)
  <2>1. \A n \in 1..Len(cmd.debs) :
            down[n - 1] \in Sortable(listed) => down[n] \in Sortable(listed)
    BY <1>1, DeeperIs
  <2> QED BY <1>1, <1>2, <2>1, Along
<1> QED BY <1>1, <1>2, <1>3

(* With no dependencies in a circle it needs nothing that is not listed: a *)
(* way down cannot have more steps than there are levels.                  *)
LEMMA NextListedReady ==
    ASSUME cmd \in Command, Acyclic, NEW listed, Sortable(listed) # {}
    PROVE  Missing(NextListed(listed), listed) = {}
<1> DEFINE N == Len(cmd.debs)
           S == Sortable(listed)
<1>1. N \in Nat /\ S \subseteq Given /\ Given = 1..N
  BY TheCommand DEF Sortable
<1>2. PICK down : /\ down[0] \in S
                  /\ \A n \in 1..N : down[n] = Deeper(down[n - 1], listed)
                  /\ NextListed(listed) = down[N]
  BY NextListedRuns
<1>3. PICK level \in [Given -> 0..N] : \A i, j \in Given :
          Name(cmd.debs[j]) \in Image(Needs(cmd.debs[i])) => level[j] < level[i]
  BY DEF Acyclic, Given
<1>4. \A i \in S : Missing(i, listed) # {} =>
          Deeper(i, listed) \in S /\ level[Deeper(i, listed)] < level[i]
  BY <1>1, <1>3, DeeperIs
<1>5. \A i \in S : Deeper(i, listed) \in S /\ level[i] \in 0..N
  BY <1>1, <1>3, DeeperIs
<1> DEFINE T == {x \in (0..N) \X S : Missing(x[2], listed) = {} \/ level[x[2]] <= N - x[1]}
           f == [n \in 0..N |-> <<n, down[n]>>]
<1> HIDE DEF N, S
<1>6. f[0] \in T
  <2>1. f[0] = <<0, down[0]>> /\ 0 \in 0..N
    BY <1>1
  <2>2. down[0] \in S
    BY <1>2
  <2>3. level[down[0]] \in 0..N
    BY <1>5, <2>2
  <2>4. level[down[0]] <= N - 0
    BY <1>1, <2>3
  <2> QED BY <2>1, <2>2, <2>4
<1>7. ASSUME NEW n \in 1..N, f[n - 1] \in T PROVE f[n] \in T
  <2>1. n \in 0..N /\ n - 1 \in 0..N /\ f[n] = <<n, down[n]>> /\ f[n - 1] = <<n - 1, down[n - 1]>>
    BY <1>1
  <2>2. down[n - 1] \in S
        /\ (Missing(down[n - 1], listed) = {} \/ level[down[n - 1]] <= N - (n - 1))
    BY <1>7, <2>1
  <2>3. down[n] = Deeper(down[n - 1], listed) /\ down[n] \in S
    BY <1>2, <1>5, <2>2
  <2>4. Missing(down[n], listed) = {} \/ level[down[n]] <= N - n
    <3>1. CASE Missing(down[n - 1], listed) = {}
      BY <2>3, <3>1 DEF Deeper
    <3>2. CASE Missing(down[n - 1], listed) # {}
      <4>1. level[down[n]] < level[down[n - 1]] /\ level[down[n - 1]] <= N - (n - 1)
        BY <1>4, <2>2, <2>3, <3>2
      <4>2. level[down[n]] \in Int /\ level[down[n - 1]] \in Int
        BY <1>5, <2>2, <2>3
      <4> QED BY <1>1, <4>1, <4>2
    <3> QED BY <3>1, <3>2
  <2> QED BY <2>1, <2>3, <2>4
<1>8. f[N] \in T /\ f[N] = <<N, down[N]>>
  <2>1. f[N] = <<N, down[N]>> /\ N \in 0..N
    BY <1>1
  <2> HIDE DEF f, T
  <2>2. \A n \in 0..N : f[n] \in T
    BY <1>1, <1>6, <1>7, Along
  <2> QED BY <2>1, <2>2
<1>9. down[N] \in S /\ (Missing(down[N], listed) = {} \/ level[down[N]] <= N - N)
  BY <1>8
<1>10. Missing(down[N], listed) = {}
  <2> SUFFICES ASSUME Missing(down[N], listed) # {} PROVE FALSE
    OBVIOUS
  <2>1. level[Deeper(down[N], listed)] < level[down[N]] /\ Deeper(down[N], listed) \in S
    BY <1>4, <1>9
  <2>2. level[Deeper(down[N], listed)] \in 0..N /\ level[down[N]] \in 0..N
    BY <1>5, <1>9, <2>1
  <2> QED BY <1>1, <1>9, <2>1, <2>2
<1> QED BY <1>2, <1>10

(* What a package of the list needs of the command line is before it.      *)
InOrder(s) ==
    \A k \in DOMAIN s : \A i \in Given :
        kind[i] = "explicit" /\ Name(cmd.debs[i]) \in Image(Needs(cmd.debs[s[k]])) =>
            \E l \in 1..(k - 1) : s[l] = i
Orders == {s \in Seq(Given) : /\ \A k \in DOMAIN s : kind[s[k]] = "explicit"
                              /\ \A k, l \in DOMAIN s : s[k] = s[l] => k = l
                              /\ Acyclic => InOrder(s)}

LEMMA SortedIs ==
    ASSUME cmd \in Command
    PROVE  \E s \in Orders : Sorted = [k \in DOMAIN s |-> cmd.debs[s[k]]]
<1> DEFINE N == Len(cmd.debs)
           step(s) == IF Sortable(Image(s)) = {} THEN s
                      ELSE Append(s, NextListed(Image(s)))
           g == [s \in Orders |-> step(s)]
<1>1. N \in Nat
  BY TheCommand
<1>2. <<>> \in Orders
  BY DEF Orders, InOrder
<1>3. ASSUME NEW s \in Orders PROVE step(s) \in Orders
  <2>1. CASE Sortable(Image(s)) # {}
    <3> DEFINE i == NextListed(Image(s))
    <3>1. i \in Given /\ kind[i] = "explicit" /\ \A k \in DOMAIN s : s[k] # i
      <4>1. i \in Sortable(Image(s))
        BY <2>1, NextListedIs
      <4> HIDE DEF i
      <4> QED BY <4>1 DEF Sortable, Image
    <3>3. Acyclic => Missing(i, Image(s)) = {}
      BY <2>1, NextListedReady
    <3> HIDE DEF i
    <3>2. Append(s, i) \in Orders
      <4>1. s \in Seq(Given) /\ Append(s, i) \in Seq(Given)
        BY <3>1 DEF Orders
      <4>2. Len(s) \in Nat /\ DOMAIN s = 1..Len(s) /\ DOMAIN Append(s, i) = 1..Len(s) + 1
        BY <3>1, <4>1
      <4>3. /\ \A k \in DOMAIN s : Append(s, i)[k] = s[k]
            /\ Append(s, i)[Len(s) + 1] = i
        BY <3>1, <4>1
      <4>4. \A k \in DOMAIN Append(s, i) : k \in DOMAIN s \/ k = Len(s) + 1
        BY <4>2
      <4>5. ASSUME Acyclic PROVE InOrder(Append(s, i))
        <5> SUFFICES ASSUME NEW k \in DOMAIN Append(s, i), NEW j \in Given, kind[j] = "explicit",
                            Name(cmd.debs[j]) \in Image(Needs(cmd.debs[Append(s, i)[k]]))
                     PROVE  \E l \in 1..(k - 1) : Append(s, i)[l] = j
          BY DEF InOrder
        <5>1. CASE k \in DOMAIN s
          <6>1. InOrder(s) /\ Append(s, i)[k] = s[k]
            BY <4>3, <4>5, <5>1 DEF Orders
          <6>2. PICK l \in 1..(k - 1) : s[l] = j
            BY <5>1, <6>1 DEF InOrder
          <6>3. l \in DOMAIN s
            BY <4>2, <5>1
          <6> QED BY <4>3, <6>2, <6>3
        <5>2. CASE k = Len(s) + 1
          <6>1. Append(s, i)[k] = i /\ Missing(i, Image(s)) = {}
            BY <3>3, <4>3, <4>5, <5>2
          <6>2. j \notin Sortable(Image(s))
            BY <6>1 DEF Missing, Image
          <6>3. PICK l \in DOMAIN s : s[l] = j
            BY <6>2 DEF Sortable, Image
          <6> QED BY <4>2, <4>3, <5>2, <6>3
        <5> QED BY <4>4, <5>1, <5>2
      <4> QED BY <3>1, <4>1, <4>3, <4>4, <4>5 DEF Orders
    <3> QED BY <2>1, <3>2 DEF i
  <2> QED BY <2>1
<1>4. g \in [Orders -> Orders]
  BY <1>3
<1>5. PICK f \in [0..N -> Orders] : f[0] = <<>> /\ \A n \in 1..N : f[n] = g[f[n - 1]]
  <2>1. \E f : f \in Iteration(N, Orders, <<>>, g)
    <3> HIDE DEF N, g
    <3> QED BY <1>1, <1>2, <1>4, Iterates
  <2> HIDE DEF N, g
  <2> QED BY <2>1 DEF Iteration
<1> DEFINE values(d) == [n \in 0..N |-> IF n = 0 THEN <<>> ELSE step(d[n - 1])]
           list == CHOOSE d : d = values(d)
<1>6. f = values(f)
  <2>1. ASSUME NEW n \in 0..N PROVE f[n] = values(f)[n]
    <3>1. CASE n = 0
      BY <1>5, <3>1
    <3>2. CASE n # 0
      <4>1. n \in 1..N /\ n - 1 \in 0..N
        BY <1>1, <3>2
      <4>2. f[n - 1] \in Orders /\ f[n] = g[f[n - 1]]
        BY <1>5, <4>1
      <4> QED BY <3>2, <4>2
    <3> QED BY <3>1, <3>2
  <2>2. values(f) = [n \in 0..N |-> values(f)[n]] /\ f = [n \in 0..N |-> f[n]]
    BY <1>5
  <2> HIDE DEF values
  <2> QED BY <2>1, <2>2
<1>7. list = values(list)
  <2> HIDE DEF values
  <2> QED BY <1>6
<1>8. Sorted = [k \in DOMAIN list[N] |-> cmd.debs[list[N][k]]]
  BY DEF Sorted
<1>9. list[0] \in Orders /\ \A n \in 1..N : list[n - 1] \in Orders => list[n] \in Orders
  <2>1. list[0] = values(list)[0] /\ \A n \in 1..N : list[n] = values(list)[n]
    <3> HIDE DEF values, list
    <3> QED BY <1>7
  <2> HIDE DEF list, step
  <2>2. values(list)[0] = <<>> /\ \A n \in 1..N : values(list)[n] = step(list[n - 1])
    BY <1>1
  <2> QED BY <1>2, <1>3, <2>1, <2>2
<1>10. list[N] \in Orders
  <2> HIDE DEF N, list
  <2>1. \A n \in 0..N : list[n] \in Orders
    BY <1>1, <1>9, Along
  <2> QED BY <1>1, <2>1
<1> QED BY <1>8, <1>10

-----------------------------------------------------------------------------
(* Base: the target and the process apart.                                 *)

TargetOK ==
    /\ status \in [Package -> Status]
    /\ deb \in [Package -> Deb \cup {None}] /\ sums \in [Package -> Deb \cup {None}]
    /\ \A p \in Package : /\ deb[p] = None <=> status[p] = "none"
                          /\ deb[p] # None => Name(deb[p]) = p
    /\ file \in [Path -> Content] /\ fresh \in [Path -> Content]
    /\ FilesOfDebs
PlaceOK ==
    /\ pc \in {"idle", "check", "preconfigure", "unpack", "configure", "remove"}
    /\ cmd \in Command \cup {None}
    /\ pc # "idle" => cmd \in Command
    /\ kind \in Seq(Kinds) /\ at \in Nat
    /\ pc \in {"check", "preconfigure"} => DOMAIN kind = Given /\ at \in 1..Len(cmd.debs) + 1
    /\ essentials \in (SUBSET Path) \cup {None}
    /\ todo \in Seq(Deb)
ProcessOK == PlaceOK /\ errors \in BOOLEAN /\ Stages /\ Listed

LEMMA BaseParts == Base <=> TargetOK /\ ProcessOK /\ excused \in BOOLEAN
BY DEF Base, TypeOK, TargetOK, ProcessOK, PlaceOK

LEMMA BasePartsNext == Base' <=> TargetOK' /\ ProcessOK' /\ excused' \in BOOLEAN
BY DEF Base, TypeOK, TargetOK, ProcessOK, PlaceOK

LEMMA TargetSame ==
    ASSUME TargetOK, UNCHANGED target
    PROVE  TargetOK'
BY DEF TargetOK, target, FilesOfDebs

LEMMA Stopped ==
    ASSUME Stop
    PROVE  ProcessOK'
<1>1. pc' = "idle" /\ cmd' = None /\ kind' = <<>> /\ at' = 1 /\ essentials' = None
      /\ errors' = FALSE /\ todo' = <<>>
  BY DEF Stop
<1>2. Stages' /\ Listed'
  BY <1>1 DEF Stages, Listed, Ready
<1>3. errors' \in BOOLEAN
  BY <1>1
<1>4. PlaceOK'
  <2>1. pc' = "idle" /\ cmd' = None /\ essentials' = None
    BY <1>1
  <2>2. kind' \in Seq(Kinds) /\ todo' \in Seq(Deb) /\ at' \in Nat
    BY <1>1
  <2>3. cmd' \in Command \cup {None} /\ essentials' \in (SUBSET Path) \cup {None}
    BY <2>1
  <2>4. pc' \notin {"check", "preconfigure"}
    BY <2>1
  <2> QED BY <2>1, <2>2, <2>3, <2>4, Zenon DEF PlaceOK
<1> QED BY <1>2, <1>3, <1>4 DEF ProcessOK

(* What is there of a package the database knows.                          *)
LEMMA TheTarget ==
    ASSUME TargetOK, NEW p \in Package
    PROVE  /\ status[p] \in Status
           /\ status[p] # "none" => deb[p] \in Deb /\ Name(deb[p]) = p
           /\ sums[p] # None => sums[p] \in Deb /\ Name(sums[p]) = p
BY DEF TargetOK, FilesOfDebs

(* configure_package() moves a configuration file of the package into place. *)
LEMMA ConfiguredTarget ==
    ASSUME TargetOK, NEW p \in Package, status[p] # "none",
           NEW r \in Half \cup Present, Configured(p, r)
    PROVE  TargetOK' /\ excused' = excused
<1>1. deb[p] \in Deb
  BY TheTarget
<1>2. Moved(p) \subseteq Conf(deb[p]) /\ \A f \in Moved(p) : fresh[f] # Absent
  BY DEF Moved
<1>3. Conf(deb[p]) \subseteq Path
  BY <1>1, TheDeb
<1>4. file' \in [Path -> Content] /\ fresh' \in [Path -> Content]
  BY DEF Configured, TargetOK, Content
<1>5. status' \in [Package -> Status]
  BY DEF Configured, TargetOK, Status
<1>6. \A q \in Package : /\ deb'[q] = None <=> status'[q] = "none"
                         /\ deb'[q] # None => Name(deb'[q]) = q
  BY DEF Configured, TargetOK, Half, Present
<1>7. FilesOfDebs'
  <2>1. \A f \in Path : fresh[f] \in Deb => f \in Files(fresh[f])
    BY TheDeb DEF TargetOK, FilesOfDebs
  <2>2. ASSUME NEW f \in Path
        PROVE  /\ file'[f] \in Deb => f \in Files(file'[f])
               /\ fresh'[f] # Admin /\ (fresh'[f] \in Deb => f \in Conf(fresh'[f]))
    <3>1. CASE f \in Moved(p)
      BY <2>1, <3>1, NamesAssumption DEF Configured, TargetOK, FilesOfDebs
    <3>2. CASE f \notin Moved(p)
      BY <3>2 DEF Configured, TargetOK, FilesOfDebs
    <3> QED BY <3>1, <3>2
  <2> QED BY <2>2 DEF Configured, TargetOK, FilesOfDebs
<1> QED BY <1>4, <1>5, <1>6, <1>7 DEF Configured, TargetOK

(* A step that sets the status of a package the database knows, and leaves *)
(* at each path what was there or nothing.                                 *)
LEMMA ErasedTarget ==
    ASSUME TargetOK, NEW p \in Package, status[p] # "none",
           NEW s \in Status \ {"none"}, status' = [status EXCEPT ![p] = s],
           UNCHANGED <<deb, sums>>,
           file' \in [Path -> Content], fresh' \in [Path -> Content],
           \A f \in Path : file'[f] \in {file[f], Absent} /\ fresh'[f] \in {fresh[f], Absent}
    PROVE  TargetOK'
<1>1. FilesOfDebs'
  BY NamesAssumption DEF TargetOK, FilesOfDebs
<1>2. status' \in [Package -> Status]
  BY DEF TargetOK
<1>3. \A q \in Package : /\ deb'[q] = None <=> status'[q] = "none"
                         /\ deb'[q] # None => Name(deb'[q]) = q
  BY DEF TargetOK
<1> QED BY <1>1, <1>2, <1>3 DEF TargetOK

(* The .deb of a package the database may know already is recorded.        *)
LEMMA RecordedTarget ==
    ASSUME TargetOK, NEW d \in Deb, NEW s \in Status \ {"none"},
           status' = [status EXCEPT ![Name(d)] = s],
           deb' = [deb EXCEPT ![Name(d)] = d],
           sums' = [sums EXCEPT ![Name(d)] = deb[Name(d)]],
           file' \in [Path -> Content], fresh' \in [Path -> Content],
           \A f \in Path : file'[f] \in Deb => f \in Files(file'[f]),
           \A f \in Path : fresh'[f] # Admin /\ (fresh'[f] \in Deb => f \in Conf(fresh'[f]))
    PROVE  TargetOK'
<1> DEFINE p == Name(d)
<1>0. p \in Package /\ d # None
  BY TheDeb
<1>1. deb' \in [Package -> Deb \cup {None}] /\ sums' \in [Package -> Deb \cup {None}]
      /\ status' \in [Package -> Status]
  BY <1>0 DEF TargetOK
<1>2. \A q \in Package : /\ deb'[q] = None <=> status'[q] = "none"
                         /\ deb'[q] # None => Name(deb'[q]) = q
  BY <1>0 DEF TargetOK
<1>3. \A q \in Package : sums'[q] # None => Name(sums'[q]) = q
  BY <1>0 DEF TargetOK, FilesOfDebs
<1> QED BY <1>1, <1>2, <1>3 DEF TargetOK, FilesOfDebs

LEMMA BaseInit == Init => Base
<1> SUFFICES ASSUME Init PROVE Base
  OBVIOUS
<1>1. TargetOK /\ excused \in BOOLEAN
  BY NamesAssumption DEF Init, TargetOK, FilesOfDebs, Status, Content
<1>2. Stages /\ Listed
  BY DEF Init, Stages, Listed, Ready
<1>3. ProcessOK
  <2>1. pc = "idle" /\ cmd = None /\ essentials = None
    BY DEF Init
  <2>2. errors \in BOOLEAN
    BY DEF Init
  <2>3. PlaceOK
    <3>1. kind \in Seq(Kinds) /\ todo \in Seq(Deb) /\ at \in Nat
      BY DEF Init
    <3>2. cmd \in Command \cup {None} /\ essentials \in (SUBSET Path) \cup {None}
      BY <2>1
    <3>3. pc \notin {"check", "preconfigure"}
      BY <2>1
    <3> QED BY <2>1, <3>1, <3>2, <3>3, Zenon DEF PlaceOK
  <2> QED BY <1>2, <2>2, <2>3 DEF ProcessOK
<1> QED BY <1>1, <1>3, BaseParts

LEMMA OneCommand ==
    ASSUME NEW c \in Command
    PROVE  /\ c \in Commands /\ c.debs \in Seq(Deb) /\ Len(c.debs) \in Nat
           /\ DOMAIN c.debs = 1..Len(c.debs) /\ \A i \in DOMAIN c.debs : c.debs[i] \in Deb
           /\ \A i, j \in DOMAIN c.debs : Name(c.debs[i]) = Name(c.debs[j]) => i = j
BY CommandAssumption DEF Commands

LEMMA BaseInstall ==
    ASSUME Base, NEW c \in Command, Install(c)
    PROVE  Base'
<1>1. TargetOK /\ ProcessOK /\ excused \in BOOLEAN
  BY BaseParts
<1>2. UNCHANGED target /\ UNCHANGED excused /\ errors' \in BOOLEAN
  BY DEF Install, Enter
<1>3. /\ cmd' = c /\ pc' = "check" /\ at' = 1 /\ essentials' = None /\ todo' = <<>>
      /\ kind' = [i \in DOMAIN c.debs |-> KindOf(c, c.debs[i])] /\ c.name = "install"
      /\ UNCHANGED <<status, deb>>
  BY DEF Install, Enter, target
<1>4. kind' \in Seq(Kinds) /\ DOMAIN kind' = DOMAIN c.debs
  <2>1. \A i \in DOMAIN c.debs : KindOf(c, c.debs[i]) \in Kinds
    BY DEF KindOf, Kinds
  <2>2. DOMAIN c.debs = 1..Len(c.debs) /\ Len(c.debs) \in Nat
    BY OneCommand
  <2> QED BY <1>3, <2>1, <2>2
<1>5. PlaceOK'
  <2>1. at' \in 1..Len(c.debs) + 1 /\ at' \in Nat /\ todo' \in Seq(Deb)
    BY <1>3, OneCommand
  <2> QED BY <1>3, <1>4, <2>1 DEF PlaceOK, Given
<1>6. ASSUME NEW i \in DOMAIN c.debs
      PROVE  /\ kind'[i] = "explicit" => status[Name(c.debs[i])] \in Unpackable
             /\ kind'[i] = "configure" => status[Name(c.debs[i])] = "unpacked"
  <2> DEFINE p == Name(c.debs[i])
  <2>1. p \in Package
    BY OneCommand, TheDeb
  <2>2. status[p] \in Status /\ status[p] \notin Half
    BY <1>1, <2>1 DEF TargetOK, Install, Accepted
  <2>3. kind'[i] = KindOf(c, c.debs[i])
    BY <1>3
  <2>4. kind'[i] = "explicit" => status[p] # "unpacked"
    BY <2>3 DEF KindOf
  <2>5. kind'[i] = "configure" => status[p] = "unpacked"
    BY <2>3 DEF KindOf
  <2>6. status[p] # "unpacked" => status[p] \in Unpackable
    BY <2>2 DEF Status, Half, Present, Unpackable
  <2> QED BY <2>4, <2>5, <2>6
<1>7. Stages'
  <2>1. \A p \in Package : status[p] \notin Half
    BY DEF Install, Accepted
  <2> QED BY <1>3, <1>6, <2>1 DEF Stages, Explicit, Given
<1>8. Listed'
  <2>1. pc' \notin Ready /\ Explicit' \cap 1..at' - 1 = {} /\ pc' # "preconfigure"
    BY <1>3 DEF Ready
  <2> QED BY <2>1 DEF Listed
<1> QED BY <1>1, <1>2, <1>5, <1>7, <1>8, TargetSame, BasePartsNext DEF ProcessOK

LEMMA BaseConfigure ==
    ASSUME Base, NEW c \in Command, Configure(c)
    PROVE  Base'
<1>1. TargetOK /\ ProcessOK /\ excused \in BOOLEAN
  BY BaseParts
<1>2. UNCHANGED target /\ UNCHANGED excused /\ errors' \in BOOLEAN
  BY DEF Configure, Enter
<1>3. /\ cmd' = c /\ pc' = "configure" /\ at' = 1 /\ essentials' = None
      /\ todo' = <<deb[c.package]>> /\ kind' = kind /\ c.name = "configure"
      /\ UNCHANGED <<status, deb>> /\ status[c.package] = "unpacked"
  BY DEF Configure, Enter, target
<1>4. c.package \in Package
  BY <1>3, CommandAssumption
<1>5. deb[c.package] \in Deb /\ Name(deb[c.package]) = c.package
  BY <1>1, <1>3, <1>4, TheTarget
<1>6. todo' \in Seq(Deb) /\ Len(todo') = 1 /\ todo'[1] = deb[c.package] /\ Head(todo') = todo'[1]
  BY <1>3, <1>5
<1>7. PlaceOK'
  BY <1>1, <1>3, <1>6 DEF PlaceOK, ProcessOK
<1>8. Stages'
  BY <1>3, <1>5, <1>6 DEF Stages, Next1
<1>9. Listed'
  <2>1. DOMAIN todo' = {1} /\ Waiting' = {} /\ pc' \notin {"check", "preconfigure"}
    BY <1>3, <1>6 DEF Waiting
  <2> QED BY <2>1 DEF Listed
<1> QED BY <1>1, <1>2, <1>7, <1>8, <1>9, TargetSame, BasePartsNext DEF ProcessOK

LEMMA BaseRemove ==
    ASSUME Base, NEW c \in Command, Remove(c)
    PROVE  Base'
<1>1. TargetOK /\ ProcessOK /\ excused \in BOOLEAN
  BY BaseParts
<1>2. UNCHANGED target /\ UNCHANGED excused /\ errors' \in BOOLEAN
  BY DEF Remove, Enter
<1>3. /\ cmd' = c /\ pc' = "remove" /\ at' = 1 /\ essentials' = None
      /\ todo' = todo /\ kind' = kind /\ c.name \in {"remove", "purge"}
      /\ UNCHANGED <<status, deb>>
      /\ ~Essential(deb[c.package])
      /\ \/ status[c.package] \in Present \cup Half
         \/ c.name = "purge" /\ status[c.package] = "config_files"
  BY DEF Remove, Enter, target
<1>4. c.package \in Package
  BY <1>3, CommandAssumption
<1>5. PlaceOK'
  BY <1>1, <1>3 DEF PlaceOK, ProcessOK
<1>6. Stages'
  BY <1>3, <1>4 DEF Stages
<1>7. Listed'
  BY <1>3 DEF Listed, Ready
<1> QED BY <1>1, <1>2, <1>5, <1>6, <1>7, TargetSame, BasePartsNext DEF ProcessOK

(* What CheckFiles concludes from the files of one item.                   *)
LEMMA CheckFilesSays ==
    ASSUME CheckFiles, errors \in BOOLEAN
    PROVE  /\ errors' \in BOOLEAN
           /\ ~errors' => ~errors
           /\ ~errors' /\ kind[at] = "explicit" =>
                InCommand = {} /\ \A f \in Clashes : Allowed(f)
<1>1. CASE kind[at] # "explicit"
  BY <1>1, Zenon DEF CheckFiles
<1>2. CASE kind[at] = "explicit"
  <2>1. errors' = (errors \/ InCommand # {} \/ \E f \in Clashes : ~Allowed(f))
    BY <1>2, Zenon DEF CheckFiles
  <2> QED BY <2>1, Zenon
<1> QED BY <1>1, <1>2

LEMMA BaseCheckFiles ==
    ASSUME Base, CheckFiles
    PROVE  Base'
<1>1. TargetOK /\ ProcessOK /\ excused \in BOOLEAN
  BY BaseParts
<1>2. UNCHANGED target /\ UNCHANGED excused
  BY DEF CheckFiles
<1>3. errors' \in BOOLEAN
  BY <1>1, CheckFilesSays DEF ProcessOK
<1>4. /\ UNCHANGED <<pc, cmd, kind, todo, status, deb>> /\ pc = "check"
      /\ at \in Nat /\ at <= Len(cmd.debs) /\ at' = at + 1 /\ cmd \in Command
      /\ at \in 1..Len(cmd.debs) + 1
  BY <1>1 DEF CheckFiles, target, ProcessOK, PlaceOK
<1>5. essentials' \in (SUBSET Path) \cup {None}
  <2>1. \A i \in Given : Files(cmd.debs[i]) \subseteq Path
    BY <1>4, TheCommand, TheDeb
  <2>2. \A p \in Package : status[p] \in Present => Files(deb[p]) \subseteq Path
    BY <1>1, TheTarget, TheDeb DEF Present
  <2>3. EssentialFiles(at) \subseteq Path
    BY <2>1, <2>2 DEF EssentialFiles
  <2>4. Searched \in (SUBSET Path) \cup {None}
    BY <1>1, <2>3 DEF Searched, ProcessOK, PlaceOK
  <2>5. essentials' \in {essentials, Searched}
    BY Zenon DEF CheckFiles
  <2> QED BY <1>1, <2>4, <2>5 DEF ProcessOK, PlaceOK
<1>6. PlaceOK'
  <2>1. at' \in Nat /\ at' \in 1..Len(cmd.debs) + 1
    BY <1>4, TheCommand
  <2> QED BY <1>1, <1>4, <1>5, <2>1 DEF PlaceOK, ProcessOK, Given
<1>7. Stages'
  BY <1>1, <1>4 DEF ProcessOK, Stages, Given, Explicit, Next1
<1>8. Listed'
  <2> SUFFICES ASSUME ~errors', NEW i \in Explicit \cap 1..at, NEW j \in Explicit \cap 1..at, i # j
               PROVE  Apart(cmd.debs[i], cmd.debs[j])
    <3>1. pc' \notin Ready /\ pc' # "preconfigure"
      BY <1>4 DEF Ready
    <3>2. Explicit' = Explicit /\ at' - 1 = at
      BY <1>4 DEF Explicit, Given
    <3>3. ~errors' => \A i, j \in Explicit \cap 1..at : i # j => Apart(cmd.debs[i], cmd.debs[j])
      OBVIOUS
    <3>4. cmd' = cmd
      BY <1>4
    <3>5. ~errors' => \A i, j \in Explicit' \cap 1..at' - 1 :
                         i # j => Apart(cmd'.debs[i], cmd'.debs[j])
      BY <3>2, <3>3, <3>4
    <3> QED BY <3>1, <3>5, Zenon DEF Listed, Apart
  <2>1. ~errors /\ (kind[at] = "explicit" => InCommand = {})
    BY <1>1, CheckFilesSays DEF ProcessOK
  <2>2. \A k, l \in Explicit \cap 1..at - 1 : k # l => Apart(cmd.debs[k], cmd.debs[l])
    BY <1>1, <1>4, <2>1, Zenon DEF ProcessOK, Listed
  <2>3. Name(cmd.debs[i]) # Name(cmd.debs[j])
    BY <1>4, TheCommand DEF Explicit
  <2>4. at \in Nat /\ i \in 1..at /\ j \in 1..at
    BY <1>4
  <2>5. CASE i # at /\ j # at
    BY <2>2, <2>4, <2>5
  <2>6. CASE i = at
    <3>1. j \in 1..at - 1 /\ kind[at] = "explicit" /\ kind[j] = "explicit"
      BY <2>4, <2>6 DEF Explicit
    <3>2. Files(cmd.debs[j]) \cap Files(cmd.debs[i]) = {}
      BY <2>1, <2>6, <3>1 DEF InCommand, Item
    <3> QED BY <2>3, <3>2 DEF Apart
  <2>7. CASE j = at
    <3>1. i \in 1..at - 1 /\ kind[at] = "explicit" /\ kind[i] = "explicit"
      BY <2>4, <2>7 DEF Explicit
    <3>2. Files(cmd.debs[i]) \cap Files(cmd.debs[j]) = {}
      BY <2>1, <2>7, <3>1 DEF InCommand, Item
    <3> QED BY <2>3, <3>2 DEF Apart
  <2> QED BY <2>5, <2>6, <2>7
<1> QED BY <1>1, <1>2, <1>3, <1>6, <1>7, <1>8, TargetSame, BasePartsNext DEF ProcessOK

LEMMA BaseStop ==
    ASSUME Base, Stop, UNCHANGED target, UNCHANGED excused
    PROVE  Base'
BY BaseParts, Stopped, TargetSame, BasePartsNext, Zenon

(* The package the removal is about.                                       *)
LEMMA TheRemoved ==
    ASSUME TargetOK, ProcessOK, pc = "remove"
    PROVE  /\ cmd \in Command /\ cmd.name \in {"remove", "purge"}
           /\ cmd.package \in Package /\ status[cmd.package] # "none"
           /\ deb[cmd.package] \in Deb /\ Name(deb[cmd.package]) = cmd.package
           /\ status[cmd.package] \in Present \cup Half \cup {"config_files"}
           /\ status[cmd.package] = "config_files" => cmd.name = "purge"
           /\ ~Essential(deb[cmd.package])
<1>1. /\ cmd \in Command /\ cmd.name \in {"remove", "purge"}
      /\ cmd.package \in Package /\ ~Essential(deb[cmd.package])
      /\ \/ status[cmd.package] \in Present \cup Half
         \/ cmd.name = "purge" /\ status[cmd.package] = "config_files"
  BY DEF ProcessOK, PlaceOK, Stages
<1>2. status[cmd.package] # "none"
  BY <1>1 DEF Present, Half
<1> QED BY <1>1, <1>2, TheTarget DEF Present, Half

LEMMA BaseRemoved ==
    ASSUME Base, Removed
    PROVE  Base'
<1> DEFINE p == cmd.package
           s == IF cmd.name = "purge" THEN "not_installed" ELSE AfterRemove(p)
           F == IF cmd.name = "purge" THEN Files(deb[p]) ELSE Regular(deb[p])
<1>1. TargetOK /\ ProcessOK /\ excused \in BOOLEAN
  BY BaseParts
<1>2. p \in Package /\ status[p] # "none"
  BY <1>1, TheRemoved DEF Removed
<1>3. Stop /\ Delete(p, F) /\ status' = [status EXCEPT ![p] = s]
      /\ fresh' = [f \in Path |-> IF cmd.name = "purge" /\ f \in Conf(deb[p])
                                  THEN Absent ELSE fresh[f]]
  BY DEF Removed
<1>4. s \in Status \ {"none"}
  BY DEF Status, AfterRemove
<1>5. /\ file' \in [Path -> Content] /\ fresh' \in [Path -> Content]
      /\ \A f \in Path : file'[f] \in {file[f], Absent} /\ fresh'[f] \in {fresh[f], Absent}
  BY <1>1, <1>3 DEF Delete, TargetOK, Content
<1>6. UNCHANGED <<deb, sums>> /\ excused' \in BOOLEAN
  BY <1>3, Zenon DEF Delete
<1>7. TargetOK'
  <2> HIDE DEF s, p
  <2> QED BY <1>1, <1>2, <1>3, <1>4, <1>5, <1>6, ErasedTarget
<1> QED BY <1>3, <1>6, <1>7, Stopped, BasePartsNext

LEMMA BaseRemoveFails ==
    ASSUME Base, RemoveFails
    PROVE  Base'
<1> DEFINE p == cmd.package
<1>1. TargetOK /\ ProcessOK /\ excused \in BOOLEAN
  BY BaseParts
<1>2. p \in Package /\ status[p] # "none" /\ status[p] \in Status
  BY <1>1, TheRemoved, TheTarget DEF RemoveFails
<1>3. Stop /\ UNCHANGED <<deb, sums, file, fresh, excused>>
  BY DEF RemoveFails
<1>4. PICK s \in {status[p], "half_installed"}
                   \cup (IF status[p] = "config_files" THEN {"half_configured"} ELSE {}) :
        status' = [status EXCEPT ![p] = s]
  BY DEF RemoveFails
<1>5. s \in Status \ {"none"}
  BY <1>2, <1>4 DEF Status, Half
<1>6. /\ file' \in [Path -> Content] /\ fresh' \in [Path -> Content]
      /\ \A f \in Path : file'[f] \in {file[f], Absent} /\ fresh'[f] \in {fresh[f], Absent}
  BY <1>1, <1>3 DEF TargetOK
<1>7. TargetOK'
  <2> HIDE DEF p
  <2> QED BY <1>1, <1>2, <1>3, <1>4, <1>5, <1>6, ErasedTarget
<1>8. excused' \in BOOLEAN
  BY <1>1, <1>3
<1> QED BY <1>3, <1>7, <1>8, Stopped, BasePartsNext

LEMMA BasePurgeFails ==
    ASSUME Base, PurgeFails
    PROVE  Base'
<1> DEFINE p == cmd.package
<1>1. TargetOK /\ ProcessOK /\ excused \in BOOLEAN
  BY BaseParts
<1>2. p \in Package /\ status[p] # "none"
  BY <1>1, TheRemoved DEF PurgeFails
<1>3. Stop /\ Delete(p, Regular(deb[p])) /\ UNCHANGED fresh
  BY DEF PurgeFails
<1>4. PICK s \in {"config_files", "half_configured"} : status' = [status EXCEPT ![p] = s]
  BY DEF PurgeFails
<1>5. s \in Status \ {"none"}
  BY <1>4 DEF Status, Half
<1>6. /\ file' \in [Path -> Content] /\ fresh' \in [Path -> Content]
      /\ \A f \in Path : file'[f] \in {file[f], Absent} /\ fresh'[f] \in {fresh[f], Absent}
  BY <1>1, <1>3 DEF Delete, TargetOK, Content
<1>7. UNCHANGED <<deb, sums>> /\ excused' \in BOOLEAN
  BY <1>3, Zenon DEF Delete
<1>8. TargetOK'
  <2> HIDE DEF p
  <2> QED BY <1>1, <1>2, <1>4, <1>5, <1>6, <1>7, ErasedTarget
<1> QED BY <1>3, <1>7, <1>8, Stopped, BasePartsNext

(* The .deb that is unpacked is one of the command line's, of a package    *)
(* that may be unpacked.                                                   *)
LEMMA TheUnpacked ==
    ASSUME TargetOK, ProcessOK, pc = "unpack", todo # <<>>
    PROVE  /\ Next1 \in Deb /\ Name(Next1) \in Package
           /\ Next1 = todo[1] /\ 1 \in DOMAIN todo
           /\ status[Name(Next1)] \in Unpackable
           /\ cmd \in Command /\ cmd.name = "install"
<1>1. todo \in Seq(Deb)
  BY DEF ProcessOK, PlaceOK
<1>2. Next1 \in Deb /\ Next1 = todo[1] /\ 1 \in DOMAIN todo /\ 1 \in 1..Len(todo)
  BY <1>1 DEF Next1
<1>3. 1 \in Waiting
  BY <1>2 DEF Waiting
<1>4. status[Name(todo[1])] \in Unpackable
  BY <1>3 DEF ProcessOK, Listed, Ready
<1>5. cmd \in Command /\ cmd \in Commands
  BY CommandAssumption DEF ProcessOK, PlaceOK
<1>6. cmd.name = "install"
  <2>1. Stages
    BY DEF ProcessOK
  <2>2. pc # "configure" /\ pc # "remove" /\ pc # "idle"
    OBVIOUS
  <2>3. cmd.name \notin {"remove", "purge", "configure"}
    BY <2>1, <2>2 DEF Stages
  <2> QED BY <1>5, <2>3 DEF Commands
<1> QED BY <1>2, <1>4, <1>5, <1>6, TheDeb

LEMMA BaseUnpackFails ==
    ASSUME Base, UnpackFails
    PROVE  Base'
<1> DEFINE d == Next1
           p == Name(d)
<1>1. TargetOK /\ ProcessOK /\ excused \in BOOLEAN
  BY BaseParts
<1>2. d \in Deb /\ p \in Package
  BY <1>1, TheUnpacked DEF UnpackFails
<1>3. Stop /\ UNCHANGED <<file, fresh>>
  BY DEF UnpackFails
<1>4. excused' \in BOOLEAN
  BY Zenon DEF UnpackFails
<1>5. file' \in [Path -> Content] /\ fresh' \in [Path -> Content]
  BY <1>1, <1>3 DEF TargetOK
<1>6. CASE Upgrades(d)
  <2>1. PICK s \in Half \cup Present : status' = [status EXCEPT ![p] = s]
    BY <1>6, Zenon DEF UnpackFails
  <2>2. UNCHANGED <<deb, sums>>
    BY <1>6, Zenon DEF UnpackFails
  <2>3. s \in Status \ {"none"} /\ status[p] # "none"
    BY <1>6, <2>1 DEF Status, Half, Present, Upgrades
  <2>4. \A f \in Path : file'[f] \in {file[f], Absent} /\ fresh'[f] \in {fresh[f], Absent}
    BY <1>3
  <2>5. TargetOK'
    <3> HIDE DEF p
    <3> QED BY <1>1, <1>2, <1>5, <2>1, <2>2, <2>3, <2>4, ErasedTarget
  <2> QED BY <1>3, <1>4, <2>5, Stopped, BasePartsNext
<1>7. CASE ~Upgrades(d)
  <2>1. PICK s \in {"half_installed", "not_installed"} : status' = [status EXCEPT ![p] = s]
    BY <1>7, Zenon DEF UnpackFails
  <2>2. deb' = [deb EXCEPT ![p] = d] /\ sums' = [sums EXCEPT ![p] = deb[p]]
    BY <1>7, Zenon DEF UnpackFails
  <2>3. s \in Status \ {"none"}
    BY <2>1 DEF Status, Half
  <2>4. /\ \A f \in Path : file'[f] \in Deb => f \in Files(file'[f])
        /\ \A f \in Path : fresh'[f] # Admin /\ (fresh'[f] \in Deb => f \in Conf(fresh'[f]))
    BY <1>1, <1>3 DEF TargetOK, FilesOfDebs
  <2>5. TargetOK'
    <3> HIDE DEF d
    <3> QED BY <1>1, <1>2, <1>5, <2>1, <2>2, <2>3, <2>4, RecordedTarget
  <2> QED BY <1>3, <1>4, <2>5, Stopped, BasePartsNext
<1> QED BY <1>6, <1>7

LEMMA BaseAdminWrites ==
    ASSUME Base, NEW f \in Path, AdminWrites(f)
    PROVE  Base'
<1>1. TargetOK /\ ProcessOK /\ excused \in BOOLEAN
  BY BaseParts
<1>2. UNCHANGED <<status, deb, sums, fresh, excused>> /\ file' = [file EXCEPT ![f] = Admin]
  BY DEF AdminWrites
<1>3. UNCHANGED <<pc, cmd, kind, at, essentials, errors, todo>> /\ pc = "idle"
  BY DEF AdminWrites, process
<1>4. TargetOK'
  BY <1>1, <1>2, NamesAssumption DEF TargetOK, FilesOfDebs, Content
<1>5. PlaceOK' /\ Stages' /\ Listed'
  BY <1>1, <1>2, <1>3 DEF ProcessOK, PlaceOK, Stages, Listed, Ready, Given
<1>6. errors' \in BOOLEAN /\ excused' \in BOOLEAN
  BY <1>1, <1>2, <1>3, Zenon DEF ProcessOK
<1> QED BY <1>4, <1>5, <1>6, BasePartsNext DEF ProcessOK

LEMMA BaseSame ==
    ASSUME Base, UNCHANGED vars
    PROVE  Base'
<1>1. TargetOK /\ ProcessOK /\ excused \in BOOLEAN
  BY BaseParts
<1>2. UNCHANGED <<status, deb, sums, file, fresh>>
      /\ UNCHANGED <<pc, cmd, kind, at, essentials, todo>>
  BY Zenon DEF vars
<1>3. errors' = errors /\ excused' = excused
  BY Zenon DEF vars
<1>4. TargetOK'
  BY <1>1, <1>2, TargetSame DEF target
<1>5. PlaceOK' /\ Stages'
  BY <1>1, <1>2 DEF ProcessOK, PlaceOK, Stages, Given, Explicit, Next1
<1>6. Listed'
  <2>1. Explicit' = Explicit /\ Waiting' = Waiting
    BY <1>2 DEF Explicit, Given, Waiting
  <2>2. Listed
    BY <1>1 DEF ProcessOK
  <2>3. pc' = "check" /\ ~errors' => pc = "check" /\ ~errors
    BY <1>2, <1>3, Zenon
  <2>4. pc = "check" /\ ~errors =>
          \A i, j \in Explicit \cap 1..at - 1 : i # j => Apart(cmd.debs[i], cmd.debs[j])
    BY <2>2, Zenon DEF Listed
  <2>5. pc' = "check" /\ ~errors' =>
          \A i, j \in Explicit' \cap 1..at' - 1 : i # j => Apart(cmd'.debs[i], cmd'.debs[j])
    <3>1. cmd' = cmd /\ at' = at
      BY <1>2
    <3> HIDE <1>2, <1>3
    <3> QED BY <2>1, <2>3, <2>4, <3>1, Zenon
  <2>6. /\ pc \in Ready => \A k, l \in DOMAIN todo : k # l => Apart(todo[k], todo[l])
        /\ pc \in Ready => \A k \in Waiting : status[Name(todo[k])] \in Unpackable
        /\ pc = "preconfigure" =>
             \A k \in DOMAIN todo : \E i \in Explicit : todo[k] = cmd.debs[i]
    BY <2>2, Zenon DEF Listed
  <2>7. /\ pc' \in Ready => \A k, l \in DOMAIN todo' : k # l => Apart(todo'[k], todo'[l])
        /\ pc' \in Ready => \A k \in Waiting' : status'[Name(todo'[k])] \in Unpackable
        /\ pc' = "preconfigure" =>
             \A k \in DOMAIN todo' : \E i \in Explicit' : todo'[k] = cmd'.debs[i]
    BY <1>2, <2>1, <2>6
  <2> QED BY <2>5, <2>7, Zenon DEF Listed, Apart
<1>7. errors' \in BOOLEAN /\ excused' \in BOOLEAN
  BY <1>1, <1>3, Zenon DEF ProcessOK
<1> QED BY <1>4, <1>5, <1>6, <1>7, BasePartsNext DEF ProcessOK

LEMMA NextUnpackedIs ==
    ASSUME cmd \in Command, NEW i \in Nat
    PROVE  /\ NextUnpacked(i) \in 1..Len(cmd.debs) + 1
           /\ After(NextUnpacked(i)) \in {"preconfigure", "unpack"}
           /\ After(NextUnpacked(i)) = "preconfigure" =>
                /\ NextUnpacked(i) \in Given /\ NextUnpacked(i) >= i
                /\ kind[NextUnpacked(i)] = "configure"
<1> DEFINE S == {j \in Given : j >= i /\ kind[j] = "configure"}
<1>1. Given = 1..Len(cmd.debs) /\ Len(cmd.debs) \in Nat
  BY TheCommand
<1>2. CASE S = {}
  <2>1. NextUnpacked(i) = Len(cmd.debs) + 1
    BY <1>2 DEF NextUnpacked
  <2> QED BY <1>1, <2>1 DEF After
<1>3. CASE S # {}
  <2>1. NextUnpacked(i) = First(S)
    BY <1>3 DEF NextUnpacked
  <2>2. S \in SUBSET Nat
    BY <1>1
  <2>3. First(S) \in S
    <3> HIDE DEF S
    <3> QED BY <1>3, <2>2, FirstOf
  <2> QED BY <1>1, <2>1, <2>3 DEF After
<1> QED BY <1>2, <1>3

(* What Valid leaves to do: explicit items of the command line.            *)
LEMMA ValidLists ==
    ASSUME Base, Valid
    PROVE  /\ todo' \in Seq(Deb) /\ pc = "check" /\ ~errors
           /\ \E s \in Orders : DOMAIN s = DOMAIN todo' /\
                \A k \in DOMAIN s : s[k] \in Explicit \cap 1..at - 1 /\ todo'[k] = cmd.debs[s[k]]
           /\ pc' \in {"preconfigure", "unpack"} /\ Waiting' = DOMAIN todo'
           /\ at' \in 1..Len(cmd.debs) + 1
           /\ pc' = "preconfigure" => at' \in Given /\ kind[at'] = "configure"
           /\ cmd \in Command /\ cmd.name = "install"
<1>1. ProcessOK
  BY BaseParts
<1>2. pc = "check" /\ ~errors /\ at > Len(cmd.debs) /\ at' = NextUnpacked(1)
      /\ pc' = After(at') /\ todo' = Sorted
  BY Zenon DEF Valid
<1>3. cmd \in Command /\ at \in Nat
  BY <1>1, <1>2 DEF ProcessOK, PlaceOK
<1>4. cmd.name = "install"
  <2>1. Stages
    BY <1>1 DEF ProcessOK
  <2>2. cmd.name \notin {"remove", "purge", "configure"}
    BY <1>2, <2>1 DEF Stages
  <2> QED BY <1>3, <2>2, OneCommand DEF Commands
<1>5. PICK s \in Orders : todo' = [k \in DOMAIN s |-> cmd.debs[s[k]]]
  BY <1>2, <1>3, SortedIs
<1>6. s \in Seq(Given) /\ DOMAIN s = 1..Len(s) /\ Len(s) \in Nat
  BY <1>5 DEF Orders
<1>7. Given = 1..Len(cmd.debs) /\ Len(cmd.debs) \in Nat /\ \A i \in Given : cmd.debs[i] \in Deb
  BY <1>3, TheCommand
<1>8. \A k \in DOMAIN s : s[k] \in Explicit \cap 1..at - 1 /\ todo'[k] = cmd.debs[s[k]]
  <2>1. \A k \in DOMAIN s : s[k] \in Given /\ kind[s[k]] = "explicit"
    BY <1>5, <1>6 DEF Orders
  <2>2. Given \subseteq 1..at - 1
    BY <1>2, <1>3, <1>7
  <2> QED BY <1>5, <2>1, <2>2 DEF Explicit
<1>9. todo' \in Seq(Deb) /\ DOMAIN todo' = DOMAIN s /\ DOMAIN todo' = 1..Len(todo')
  <2>1. \A k \in 1..Len(s) : cmd.debs[s[k]] \in Deb
    BY <1>6, <1>7, <1>8 DEF Explicit
  <2> QED BY <1>5, <1>6, <2>1
<1>10. /\ at' \in 1..Len(cmd.debs) + 1 /\ pc' \in {"preconfigure", "unpack"}
       /\ pc' = "preconfigure" => at' \in Given /\ kind[at'] = "configure"
  BY <1>2, <1>3, NextUnpackedIs
<1>11. Waiting' = DOMAIN todo'
  BY <1>9, <1>10 DEF Waiting
<1> QED BY <1>2, <1>3, <1>4, <1>5, <1>8, <1>9, <1>10, <1>11, Zenon

LEMMA BaseValid ==
    ASSUME Base, Valid
    PROVE  Base'
<1>1. TargetOK /\ ProcessOK /\ excused \in BOOLEAN
  BY BaseParts
<1>2. UNCHANGED target /\ UNCHANGED excused /\ UNCHANGED errors
  BY Zenon DEF Valid
<1>3. UNCHANGED <<status, deb, cmd, kind, essentials>>
  BY Zenon DEF Valid, target
<1>4. /\ todo' \in Seq(Deb) /\ pc = "check"
      /\ pc' \in {"preconfigure", "unpack"} /\ Waiting' = DOMAIN todo'
      /\ at' \in 1..Len(cmd.debs) + 1
      /\ pc' = "preconfigure" => at' \in Given /\ kind[at'] = "configure"
      /\ cmd \in Command /\ cmd.name = "install"
  BY ValidLists, Zenon
<1>5. PICK s \in Orders : DOMAIN s = DOMAIN todo' /\
        \A k \in DOMAIN s : s[k] \in Explicit \cap 1..at - 1 /\ todo'[k] = cmd.debs[s[k]]
  BY ValidLists, Zenon
<1>6. PlaceOK'
  <2>1. at' \in Nat
    BY <1>4, TheCommand
  <2>2. PlaceOK
    BY <1>1 DEF ProcessOK
  <2> QED BY <1>3, <1>4, <2>1, <2>2 DEF PlaceOK, Given
<1>7. Stages'
  <2>1. Stages
    BY <1>1 DEF ProcessOK
  <2> QED BY <1>3, <1>4, <2>1 DEF Stages, Given, Explicit
<1>8. Listed'
  <2>1. \A i, j \in Explicit \cap 1..at - 1 : i # j => Apart(cmd.debs[i], cmd.debs[j])
    <3>1. Listed /\ ~errors /\ pc = "check"
      BY <1>1, ValidLists, Zenon DEF ProcessOK
    <3> QED BY <3>1, Zenon DEF Listed
  <2>2. \A i \in Explicit : status[Name(cmd.debs[i])] \in Unpackable
    <3>1. Stages
      BY <1>1 DEF ProcessOK
    <3> QED BY <1>4, <3>1 DEF Stages
  <2>3. \A k, l \in DOMAIN todo' : k # l => Apart(todo'[k], todo'[l])
    <3>1. \A k, l \in DOMAIN s : s[k] = s[l] => k = l
      BY <1>5 DEF Orders
    <3> QED BY <1>5, <2>1, <3>1
  <2>4. \A k \in Waiting' : status'[Name(todo'[k])] \in Unpackable
    BY <1>3, <1>4, <1>5, <2>2
  <2>5. \A k \in DOMAIN todo' : \E i \in Explicit' : todo'[k] = cmd'.debs[i]
    BY <1>3, <1>5 DEF Explicit, Given
  <2>6. pc' # "check"
    BY <1>4
  <2> QED BY <2>3, <2>4, <2>5, <2>6, Zenon DEF Listed, Apart
<1>9. errors' \in BOOLEAN /\ excused' \in BOOLEAN
  BY <1>1, <1>2, Zenon DEF ProcessOK
<1>10. TargetOK'
  BY <1>1, <1>2, TargetSame
<1> QED BY <1>6, <1>7, <1>8, <1>9, <1>10, BasePartsNext DEF ProcessOK

LEMMA BasePreConfigure ==
    ASSUME Base, PreConfigure
    PROVE  Base'
<1> DEFINE p == Name(Item)
<1>1. TargetOK /\ ProcessOK /\ excused \in BOOLEAN /\ pc = "preconfigure"
  BY BaseParts DEF PreConfigure
<1>2. Stages /\ Listed /\ PlaceOK
  BY <1>1 DEF ProcessOK
<1>3. cmd \in Command /\ at \in Given /\ kind[at] = "configure"
  BY <1>1, <1>2 DEF PlaceOK, Stages
<1>4. Item \in Deb /\ p \in Package /\ status[p] = "unpacked"
  <2>1. status[p] = "unpacked"
    BY <1>1, <1>2, <1>3 DEF Stages, Item, PlaceOK
  <2> QED BY <1>3, <2>1, TheCommand, TheDeb DEF Item
<1>5. CASE Fails(p)
  <2>1. Configured(p, "half_configured") /\ Stop
    BY <1>5, Zenon DEF Fails
  <2>2. TargetOK' /\ excused' = excused
    BY <1>1, <1>4, <2>1, ConfiguredTarget DEF Half
  <2> QED BY <1>1, <2>1, <2>2, Stopped, BasePartsNext
<1>6. CASE ~Fails(p)
  <2>1. /\ Configured(p, "installed") /\ UNCHANGED <<cmd, kind, essentials, todo>>
        /\ UNCHANGED errors /\ at' = NextUnpacked(at + 1) /\ pc' = After(at')
    BY <1>6, Zenon DEF PreConfigure, Succeeds
  <2>2. TargetOK' /\ excused' = excused
    BY <1>1, <1>4, <2>1, ConfiguredTarget DEF Present
  <2>3. status' = [status EXCEPT ![p] = "installed"] /\ deb' = deb
    BY <2>1 DEF Configured
  <2>4. at \in Nat /\ at + 1 \in Nat
    BY <1>3, TheCommand
  <2>5. /\ at' \in 1..Len(cmd.debs) + 1 /\ pc' \in {"preconfigure", "unpack"} /\ at' \in Nat
        /\ pc' = "preconfigure" => at' \in Given /\ at' >= at + 1 /\ kind[at'] = "configure"
    <3>1. at' = NextUnpacked(at + 1) /\ pc' = After(NextUnpacked(at + 1))
      BY <2>1
    <3>2. /\ NextUnpacked(at + 1) \in 1..Len(cmd.debs) + 1
          /\ After(NextUnpacked(at + 1)) \in {"preconfigure", "unpack"}
          /\ After(NextUnpacked(at + 1)) = "preconfigure" =>
               /\ NextUnpacked(at + 1) \in Given /\ NextUnpacked(at + 1) >= at + 1
               /\ kind[NextUnpacked(at + 1)] = "configure"
      BY <1>3, <2>4, NextUnpackedIs, Zenon
    <3>3. Len(cmd.debs) \in Nat
      BY <1>3, TheCommand
    <3> HIDE <2>1
    <3> QED BY <3>1, <3>2, <3>3
  <2>6. PlaceOK'
    BY <1>1, <1>2, <1>3, <2>1, <2>5 DEF PlaceOK, Given
  <2>7. \A q \in Package : status'[q] = IF q = p THEN "installed" ELSE status[q]
    BY <1>1, <1>4, <2>3 DEF TargetOK
  <2>8. \A i \in Given : Name(cmd.debs[i]) \in Package /\ (i # at => Name(cmd.debs[i]) # p)
    BY <1>3, TheCommand, TheDeb DEF Item
  <2>9. Stages'
    <3>1. \A i \in Given : i >= at' => i # at \/ pc' = "unpack"
      BY <2>4, <2>5, <1>3, TheCommand
    <3>2. ASSUME pc' = "preconfigure", NEW i \in Given, kind[i] = "configure", i >= at'
          PROVE  status'[Name(cmd.debs[i])] = "unpacked"
      <4>1. i >= at /\ i # at
        BY <2>4, <2>5, <3>1, <3>2, <1>3, TheCommand
      <4> QED BY <1>1, <1>2, <2>7, <2>8, <3>2, <4>1 DEF Stages
    <3>3. \A i \in Explicit : status'[Name(cmd.debs[i])] \in Unpackable
      <4>1. \A i \in Explicit : status[Name(cmd.debs[i])] \in Unpackable
        BY <1>1, <1>2 DEF Stages
      <4>2. "installed" \in Unpackable
        BY DEF Unpackable
      <4> QED BY <2>7, <2>8, <4>1, <4>2 DEF Explicit
    <3>4. cmd' = cmd /\ kind' = kind /\ Explicit' = Explicit /\ Given' = Given
      BY <2>1 DEF Explicit, Given
    <3>5. pc' # "check" /\ pc' # "configure" /\ pc' # "remove"
      BY <2>5
    <3>6. cmd.name \notin {"remove", "purge", "configure"}
      BY <1>1, <1>2 DEF Stages
    <3> QED BY <2>5, <3>2, <3>3, <3>4, <3>5, <3>6 DEF Stages
  <2>10. Listed'
    <3>1. /\ \A k, l \in DOMAIN todo : k # l => Apart(todo[k], todo[l])
          /\ \A k \in Waiting : status[Name(todo[k])] \in Unpackable
          /\ \A k \in DOMAIN todo : \E i \in Explicit : todo[k] = cmd.debs[i]
      BY <1>1, <1>2 DEF Listed, Ready
    <3>2. todo' = todo /\ Explicit' = Explicit /\ Waiting' = Waiting /\ cmd' = cmd
      BY <1>1, <2>1, <2>5 DEF Explicit, Given, Waiting
    <3>3. \A k \in Waiting : todo[k] \in Deb
      BY <1>1, <1>2 DEF Waiting, PlaceOK
    <3>4. \A k \in Waiting : status'[Name(todo[k])] \in Unpackable
      BY <2>7, <3>1, <3>3, TheDeb DEF Unpackable
    <3>5. pc' # "check"
      BY <2>5
    <3> QED BY <3>1, <3>2, <3>4, <3>5 DEF Listed, Apart
  <2>11. errors' \in BOOLEAN
    BY <1>1, <2>1, Zenon DEF ProcessOK
  <2> QED BY <1>1, <2>2, <2>6, <2>9, <2>10, <2>11, BasePartsNext DEF ProcessOK
<1> QED BY <1>5, <1>6

LEMMA BaseUnpack ==
    ASSUME Base, Unpack
    PROVE  Base'
<1> DEFINE d == Next1
           p == Name(d)
<1>1. TargetOK /\ ProcessOK /\ excused \in BOOLEAN /\ pc = "unpack" /\ todo # <<>>
  BY BaseParts DEF Unpack
<1>2. Stages /\ Listed /\ PlaceOK
  BY <1>1 DEF ProcessOK
<1>3. d \in Deb /\ p \in Package /\ cmd \in Command /\ cmd.name = "install" /\ d = todo[1]
      /\ 1 \in DOMAIN todo
  BY <1>1, TheUnpacked
<1>4. /\ file' = [f \in Path |-> IF f \in Regular(d) THEN d
                                 ELSE IF f \in Dropped(d) THEN Absent ELSE file[f]]
      /\ fresh' = [f \in Path |-> IF f \in Conf(d) THEN d ELSE fresh[f]]
      /\ status' = [status EXCEPT ![p] = "unpacked"]
      /\ deb' = [deb EXCEPT ![p] = d]
      /\ sums' = [sums EXCEPT ![p] = deb[p]]
      /\ pc' = "configure"
      /\ UNCHANGED <<cmd, kind, at, essentials, todo>>
  BY DEF Unpack
<1>5. errors' = errors /\ excused' \in BOOLEAN
  BY Zenon DEF Unpack
<1>6. TargetOK'
  <2>1. file' \in [Path -> Content] /\ fresh' \in [Path -> Content]
    BY <1>1, <1>3, <1>4 DEF TargetOK, Content
  <2>2. \A f \in Path : file'[f] \in Deb => f \in Files(file'[f])
    BY <1>1, <1>3, <1>4, TheDeb, NamesAssumption DEF TargetOK, FilesOfDebs
  <2>3. \A f \in Path : fresh'[f] # Admin /\ (fresh'[f] \in Deb => f \in Conf(fresh'[f]))
    BY <1>1, <1>3, <1>4, TheDeb, NamesAssumption DEF TargetOK, FilesOfDebs
  <2>4. "unpacked" \in Status \ {"none"}
    BY DEF Status, Present
  <2> HIDE DEF d
  <2> QED BY <1>1, <1>3, <1>4, <2>1, <2>2, <2>3, <2>4, RecordedTarget
<1>7. PlaceOK'
  BY <1>2, <1>3, <1>4 DEF PlaceOK
<1>8. Stages'
  <2>1. Next1' = Next1 /\ status'[p] = "unpacked" /\ deb'[p] = d
    BY <1>1, <1>3, <1>4 DEF Next1, TargetOK
  <2>2. todo' # <<>> /\ cmd' = cmd /\ pc' = "configure"
    BY <1>1, <1>4
  <2> QED BY <1>3, <2>1, <2>2 DEF Stages
<1>9. Listed'
  <2>1. /\ \A k, l \in DOMAIN todo : k # l => Apart(todo[k], todo[l])
        /\ \A k \in Waiting : status[Name(todo[k])] \in Unpackable
    BY <1>1, <1>2 DEF Listed, Ready
  <2>2. todo \in Seq(Deb) /\ Waiting = 1..Len(todo) /\ DOMAIN todo = 1..Len(todo)
        /\ Len(todo) \in Nat
    BY <1>1, <1>2 DEF PlaceOK, Waiting
  <2>3. Waiting' = 2..Len(todo) /\ todo' = todo
    BY <1>4 DEF Waiting
  <2>4. ASSUME NEW k \in 2..Len(todo) PROVE status'[Name(todo[k])] \in Unpackable
    <3>1. k \in Waiting /\ k \in DOMAIN todo /\ k # 1
      BY <2>2
    <3>2. Name(todo[k]) # p /\ Name(todo[k]) \in Package
      <4>1. Apart(todo[k], todo[1])
        BY <1>3, <2>1, <3>1
      <4>2. todo[k] \in Deb
        BY <2>2, <3>1
      <4> QED BY <1>3, <4>1, <4>2, TheDeb DEF Apart
    <3> QED BY <1>1, <1>3, <1>4, <2>1, <3>1, <3>2 DEF TargetOK
  <2>5. pc' # "check" /\ pc' # "preconfigure"
    BY <1>4
  <2> QED BY <2>1, <2>3, <2>4, <2>5 DEF Listed, Apart
<1>10. errors' \in BOOLEAN
  BY <1>1, <1>5, Zenon DEF ProcessOK
<1> QED BY <1>5, <1>6, <1>7, <1>8, <1>9, <1>10, BasePartsNext DEF ProcessOK

LEMMA BaseConfigureNext ==
    ASSUME Base, ConfigureNext
    PROVE  Base'
<1> DEFINE d == Next1
           p == Name(d)
<1>1. TargetOK /\ ProcessOK /\ excused \in BOOLEAN /\ pc = "configure"
  BY BaseParts DEF ConfigureNext
<1>2. Stages /\ Listed /\ PlaceOK
  BY <1>1 DEF ProcessOK
<1>3. todo # <<>> /\ todo \in Seq(Deb) /\ status[p] = "unpacked" /\ deb[p] = d /\ cmd \in Command
  BY <1>1, <1>2 DEF Stages, PlaceOK
<1>4. d \in Deb /\ d = todo[1] /\ p \in Package
  BY <1>3, TheDeb DEF Next1
<1>5. CASE Fails(p)
  <2>1. Configured(p, "half_configured") /\ Stop
    BY <1>5, Zenon DEF Fails
  <2>2. TargetOK' /\ excused' = excused
    BY <1>1, <1>3, <1>4, <2>1, ConfiguredTarget DEF Half
  <2> QED BY <1>1, <2>1, <2>2, Stopped, BasePartsNext
<1>6. CASE ~Fails(p)
  <2>1. Configured(p, "installed")
    BY <1>6, Zenon DEF ConfigureNext, Succeeds
  <2>2. TargetOK' /\ excused' = excused
    BY <1>1, <1>3, <1>4, <2>1, ConfiguredTarget DEF Present
  <2>3. CASE Stop
    BY <1>1, <2>2, <2>3, Stopped, BasePartsNext
  <2>4. CASE ~Stop
    <3>1. /\ pc' = "unpack" /\ todo' = Tail(todo) /\ cmd.name # "configure"
          /\ UNCHANGED <<cmd, kind, at, essentials>> /\ UNCHANGED errors
      BY <1>6, <2>4, Zenon DEF ConfigureNext
    <3>2. todo' \in Seq(Deb) /\ Len(todo') = Len(todo) - 1 /\ Len(todo) \in Nat \ {0}
          /\ DOMAIN todo = 1..Len(todo) /\ DOMAIN todo' = 1..Len(todo')
          /\ \A k \in DOMAIN todo' : k + 1 \in DOMAIN todo /\ todo'[k] = todo[k + 1]
      BY <1>3, <3>1
    <3>3. PlaceOK'
      BY <1>2, <1>3, <3>1, <3>2 DEF PlaceOK
    <3>4. Stages'
      BY <1>1, <1>2, <3>1 DEF Stages
    <3>5. Listed'
      <4>1. /\ \A k, l \in DOMAIN todo : k # l => Apart(todo[k], todo[l])
            /\ \A k \in Waiting : status[Name(todo[k])] \in Unpackable
        BY <1>1, <1>2 DEF Listed, Ready
      <4>2. \A k, l \in DOMAIN todo' : k # l => Apart(todo'[k], todo'[l])
        <5>1. \A k, l \in DOMAIN todo' : k # l => k + 1 # l + 1
          BY <3>2
        <5> QED BY <3>2, <4>1, <5>1
      <4>3. Waiting' = DOMAIN todo' /\ Waiting = 2..Len(todo)
        BY <1>1, <3>1, <3>2 DEF Waiting
      <4>4. ASSUME NEW k \in Waiting' PROVE status'[Name(todo'[k])] \in Unpackable
        <5>1. k + 1 \in Waiting /\ k + 1 # 1 /\ k + 1 \in DOMAIN todo /\ todo'[k] = todo[k + 1]
          BY <3>2, <4>3
        <5>2. Name(todo'[k]) # p /\ Name(todo'[k]) \in Package
          <6>1. 1 \in DOMAIN todo
            BY <3>2
          <6> QED BY <1>3, <1>4, <4>1, <5>1, <6>1, TheDeb DEF Apart
        <5> QED BY <1>1, <1>4, <2>1, <4>1, <5>1, <5>2 DEF TargetOK, Configured
      <4>5. pc' # "check" /\ pc' # "preconfigure"
        BY <3>1
      <4> QED BY <4>2, <4>4, <4>5 DEF Listed, Apart
    <3>6. errors' \in BOOLEAN
      BY <1>1, <3>1, Zenon DEF ProcessOK
    <3> QED BY <1>1, <2>2, <3>3, <3>4, <3>5, <3>6, BasePartsNext DEF ProcessOK
  <2> QED BY <2>3, <2>4
<1> QED BY <1>5, <1>6

LEMMA BaseNext == Base /\ [Next]_vars => Base'
<1> SUFFICES ASSUME Base, [Next]_vars PROVE Base'
  OBVIOUS
<1>1. CASE UNCHANGED vars
  BY <1>1, BaseSame
<1>2. CASE \E c \in Command : Install(c) \/ Configure(c) \/ Remove(c)
  BY <1>2, BaseInstall, BaseConfigure, BaseRemove
<1>3. CASE CheckFiles
  BY <1>3, BaseCheckFiles
<1>4. CASE Invalid \/ InstallDone \/ Killed
  <2>1. Stop /\ UNCHANGED target /\ UNCHANGED excused
    BY <1>4, Zenon DEF Invalid, InstallDone, Killed
  <2> QED BY <2>1, BaseStop
<1>5. CASE Valid
  BY <1>5, BaseValid
<1>6. CASE PreConfigure
  BY <1>6, BasePreConfigure
<1>7. CASE Unpack
  BY <1>7, BaseUnpack
<1>8. CASE UnpackFails
  BY <1>8, BaseUnpackFails
<1>9. CASE ConfigureNext
  BY <1>9, BaseConfigureNext
<1>10. CASE Removed \/ RemoveFails \/ PurgeFails
  BY <1>10, BaseRemoved, BaseRemoveFails, BasePurgeFails
<1>11. CASE \E f \in Path : AdminWrites(f)
  BY <1>11, BaseAdminWrites
<1> QED BY <1>1, <1>2, <1>3, <1>4, <1>5, <1>6, <1>7, <1>8, <1>9, <1>10, <1>11, Zenon DEF Next, Work

LEMMA BaseAlways == Spec => []Base
BY BaseInit, BaseNext, PTL DEF Spec

(* The types of the state: a package is in the database exactly when a .deb *)
(* is recorded for it, and a command in progress is one of the commands.   *)
THEOREM TypeCorrect == Spec => []TypeOK
<1>1. Base => TypeOK
  BY DEF Base
<1> QED BY <1>1, BaseAlways, PTL

-----------------------------------------------------------------------------
(* Which .deb were checked and are not unpacked yet, step by step.         *)

LEMMA StopUnsound == Stop => ~Sound'
BY Zenon DEF Stop, Sound, Ready

LEMMA CheckedInstall ==
    ASSUME NEW c \in Command, Install(c)
    PROVE  Checked' = {}
<1>1. pc' = "check" /\ at' = 1
  BY Zenon DEF Install, Enter
<1>2. Explicit' \cap 1..at' - 1 = {}
  BY <1>1
<1> QED BY <1>1, <1>2 DEF Checked

LEMMA CheckedConfigure ==
    ASSUME NEW c \in Command, Configure(c)
    PROVE  Checked' = {}
<1>1. pc' = "configure" /\ todo' = <<deb[c.package]>>
  BY Zenon DEF Configure, Enter
<1>2. Waiting' = {}
  BY <1>1 DEF Waiting
<1> QED BY <1>1, <1>2 DEF Checked

LEMMA CheckedRemove ==
    ASSUME NEW c \in Command, Remove(c)
    PROVE  ~Sound'
<1>1. pc' = "remove"
  BY Zenon DEF Remove, Enter
<1> QED BY <1>1, Zenon DEF Sound, Ready

(* An item that is checked is a .deb; the others were checked before.      *)
LEMMA CheckedCheckFiles ==
    ASSUME Base, CheckFiles
    PROVE  /\ Sound' => Sound
           /\ kind[at] # "explicit" => Checked' = Checked
           /\ kind[at] = "explicit" => Checked' = Checked \cup {Item} /\ Item \in Deb
           /\ Sound' /\ kind[at] = "explicit" =>
                InCommand = {} /\ \A f \in Clashes : Allowed(f)
<1>1. ProcessOK
  BY BaseParts
<1>2. pc = "check" /\ UNCHANGED <<pc, cmd, kind, todo>> /\ at' = at + 1 /\ at <= Len(cmd.debs)
  BY Zenon DEF CheckFiles
<1>3. at \in Nat /\ at \in 1..Len(cmd.debs) + 1 /\ cmd \in Command
  BY <1>1, <1>2 DEF ProcessOK, PlaceOK
<1>4. at \in Given /\ Item \in Deb
  BY <1>2, <1>3, TheCommand DEF Item
<1>5. Explicit' \cap 1..at' - 1 = (Explicit \cap 1..at - 1) \cup {i \in {at} : kind[i] = "explicit"}
  BY <1>2, <1>3, <1>4 DEF Explicit, Given
<1>6. /\ kind[at] # "explicit" => Checked' = Checked
      /\ kind[at] = "explicit" => Checked' = Checked \cup {Item}
  BY <1>2, <1>5 DEF Checked, Item
<1>7. errors \in BOOLEAN
  BY <1>1 DEF ProcessOK
<1>8. Sound' => ~errors'
  BY <1>2, Zenon DEF Sound, Ready
<1>9. /\ Sound' => Sound
      /\ Sound' /\ kind[at] = "explicit" =>
           InCommand = {} /\ \A f \in Clashes : Allowed(f)
  BY <1>2, <1>7, <1>8, CheckFilesSays, Zenon DEF Sound
<1> QED BY <1>4, <1>6, <1>9, Zenon

LEMMA CheckedValid ==
    ASSUME Base, Valid
    PROVE  Sound /\ Checked' \subseteq Checked
<1>1. /\ pc = "check" /\ ~errors
      /\ \E s \in Orders : DOMAIN s = DOMAIN todo' /\
           \A k \in DOMAIN s : s[k] \in Explicit \cap 1..at - 1 /\ todo'[k] = cmd.debs[s[k]]
      /\ pc' \in {"preconfigure", "unpack"} /\ Waiting' = DOMAIN todo'
  BY ValidLists, Zenon
<1>2. Sound
  BY <1>1, Zenon DEF Sound
<1>3. pc = "check" /\ pc' # "check"
  BY <1>1
<1>4. PICK s \in Orders : DOMAIN s = DOMAIN todo' /\
        \A k \in DOMAIN s : s[k] \in Explicit \cap 1..at - 1 /\ todo'[k] = cmd.debs[s[k]]
  BY <1>1, Zenon
<1>5. Checked' = {todo'[k] : k \in DOMAIN todo'}
  BY <1>1, <1>3, Zenon DEF Checked
<1>6. Checked = {cmd.debs[i] : i \in Explicit \cap 1..at - 1}
  BY <1>3 DEF Checked
<1>7. Checked' \subseteq Checked
  BY <1>4, <1>5, <1>6
<1> QED BY <1>2, <1>7

(* The packages that wait are not the one that is configured before them.  *)
LEMMA CheckedPreConfigure ==
    ASSUME Base, PreConfigure, ~Stop
    PROVE  /\ Configured(Name(Item), "installed") /\ Name(Item) \in Package
           /\ status[Name(Item)] = "unpacked" /\ cmd' = cmd
           /\ Sound /\ Checked' \subseteq Checked
           /\ \A d \in Checked' : d \in Deb /\ Name(d) # Name(Item)
<1>1. TargetOK /\ ProcessOK /\ pc = "preconfigure"
  BY BaseParts DEF PreConfigure
<1>2. Stages /\ Listed /\ PlaceOK
  BY <1>1 DEF ProcessOK
<1>3. cmd \in Command /\ at \in Given /\ kind[at] = "configure"
  BY <1>1, <1>2 DEF PlaceOK, Stages
<1>4. Name(Item) \in Package /\ status[Name(Item)] = "unpacked"
  <2>1. at \in Nat
    BY <1>3, TheCommand
  <2>2. status[Name(Item)] = "unpacked"
    BY <1>1, <1>2, <1>3, <2>1 DEF Stages, Item
  <2> QED BY <1>3, <2>2, TheCommand, TheDeb DEF Item
<1>5. /\ Configured(Name(Item), "installed") /\ UNCHANGED <<cmd, todo>>
      /\ at' = NextUnpacked(at + 1) /\ pc' = After(at')
  BY Zenon DEF PreConfigure, Succeeds, Fails
<1>6. pc' \in {"preconfigure", "unpack"}
  BY <1>5 DEF After
<1>7. Checked = {todo[k] : k \in DOMAIN todo} /\ Checked' = Checked
  <2>1. Waiting = DOMAIN todo /\ Waiting' = Waiting
    BY <1>1, <1>2, <1>5, <1>6 DEF Waiting, PlaceOK
  <2> QED BY <1>1, <1>5, <1>6, <2>1 DEF Checked
<1>8. Sound
  BY <1>1, Zenon DEF Sound, Ready
<1>9. \A d \in Checked' : d \in Deb /\ Name(d) # Name(Item)
  <2> SUFFICES ASSUME NEW k \in DOMAIN todo
               PROVE  todo[k] \in Deb /\ Name(todo[k]) # Name(Item)
    BY <1>7
  <2>1. PICK i \in Explicit : todo[k] = cmd.debs[i]
    BY <1>1, <1>2 DEF Listed
  <2>2. i \in Given /\ i # at
    BY <1>3 DEF Explicit
  <2> QED BY <1>3, <2>1, <2>2, TheCommand DEF Item
<1> QED BY <1>4, <1>5, <1>7, <1>8, <1>9

LEMMA CheckedUnpack ==
    ASSUME Base, pc = "unpack", todo # <<>>
    PROVE  /\ Sound /\ Next1 \in Checked
           /\ \A d \in Checked : d \in Deb
<1>1. ProcessOK
  BY BaseParts
<1>2. todo \in Seq(Deb)
  BY <1>1 DEF ProcessOK, PlaceOK
<1>3. Waiting = 1..Len(todo) /\ 1 \in Waiting /\ Next1 = todo[1]
      /\ Checked = {todo[k] : k \in Waiting} /\ \A k \in Waiting : todo[k] \in Deb
  BY <1>2 DEF Waiting, Next1, Checked
<1>4. Sound
  BY Zenon DEF Sound, Ready
<1> QED BY <1>3, <1>4

LEMMA CheckedUnpackNext ==
    ASSUME Base, Unpack
    PROVE  /\ Checked' \subseteq Checked
           /\ \A d \in Checked' : Apart(d, Next1)
<1>1. ProcessOK /\ pc = "unpack" /\ todo # <<>> /\ todo' = todo /\ pc' = "configure"
  BY BaseParts, Zenon DEF Unpack
<1>2. todo \in Seq(Deb)
  BY <1>1 DEF ProcessOK, PlaceOK
<1>3. Waiting = 1..Len(todo) /\ Waiting' = 2..Len(todo) /\ Next1 = todo[1]
      /\ DOMAIN todo = 1..Len(todo) /\ 1 \in 1..Len(todo) /\ Len(todo) \in Nat
  BY <1>1, <1>2 DEF Waiting, Next1
<1>4. Checked = {todo[k] : k \in 1..Len(todo)} /\ Checked' = {todo[k] : k \in 2..Len(todo)}
  BY <1>1, <1>3 DEF Checked
<1>5. \A k, l \in 1..Len(todo) : k # l => Apart(todo[k], todo[l])
  BY <1>1, <1>3 DEF ProcessOK, Listed, Ready
<1>6. \A k \in 2..Len(todo) : k \in 1..Len(todo) /\ k # 1
  BY <1>3
<1> QED BY <1>3, <1>4, <1>5, <1>6

LEMMA CheckedConfigureNext ==
    ASSUME Base, ConfigureNext, ~Stop
    PROVE  /\ Configured(Name(Next1), "installed") /\ Name(Next1) \in Package
           /\ status[Name(Next1)] = "unpacked" /\ cmd' = cmd
           /\ Sound /\ Checked' \subseteq Checked
           /\ \A d \in Checked' : d \in Deb /\ Name(d) # Name(Next1)
<1>1. ProcessOK /\ pc = "configure"
  BY BaseParts DEF ConfigureNext
<1>2. Stages /\ Listed /\ PlaceOK
  BY <1>1 DEF ProcessOK
<1>3. todo # <<>> /\ todo \in Seq(Deb) /\ status[Name(Next1)] = "unpacked"
  BY <1>1, <1>2 DEF Stages, PlaceOK
<1>4. Next1 = todo[1] /\ Name(Next1) \in Package
  BY <1>3, TheDeb DEF Next1
<1>5. /\ Configured(Name(Next1), "installed") /\ UNCHANGED cmd
      /\ pc' = "unpack" /\ todo' = Tail(todo)
  BY Zenon DEF ConfigureNext, Succeeds, Fails
<1>6. Len(todo) \in Nat \ {0} /\ DOMAIN todo = 1..Len(todo) /\ Len(todo') = Len(todo) - 1
      /\ \A k \in 1..Len(todo') : k + 1 \in 2..Len(todo) /\ todo'[k] = todo[k + 1]
  BY <1>3, <1>5
<1>7. Checked = {todo[k] : k \in 2..Len(todo)} /\ Checked' = {todo'[k] : k \in 1..Len(todo')}
  BY <1>1, <1>5 DEF Checked, Waiting
<1>8. Checked' \subseteq Checked
  BY <1>6, <1>7
<1>9. \A k, l \in 1..Len(todo) : k # l => Apart(todo[k], todo[l])
  BY <1>1, <1>2, <1>6 DEF Listed, Ready
<1>10. \A k \in 2..Len(todo) : k \in 1..Len(todo) /\ k # 1 /\ todo[k] \in Deb /\ 1 \in 1..Len(todo)
  BY <1>3, <1>6
<1>11. \A d \in Checked : d \in Deb /\ Name(d) # Name(Next1)
  BY <1>4, <1>7, <1>9, <1>10 DEF Apart
<1>12. Sound
  BY <1>1, Zenon DEF Sound, Ready
<1> QED BY <1>3, <1>4, <1>5, <1>8, <1>11, <1>12

-----------------------------------------------------------------------------
(* What the steps on the target keep of the owners of its files.           *)

(* Configuring a package that was unpacked moves its new configuration     *)
(* files over nothing, or over those its last version brought.             *)
LEMMA ConfiguredFiles ==
    ASSUME TargetOK, NEW p \in Package, status[p] = "unpacked", NEW r, Configured(p, r)
    PROVE  /\ deb[p] \in Deb /\ Name(deb[p]) = p /\ deb' = deb
           /\ \A q \in Package : status'[q] = IF q = p THEN r ELSE status[q]
           /\ \A f \in Path : file'[f] # Admin \/ file'[f] = file[f]
           /\ \A f \in Path : file[f] = Admin => file'[f] = Admin
           /\ \A f \in Path : file'[f] # file[f] =>
                /\ f \in Conf(deb[p]) /\ fresh[f] = file'[f] /\ fresh[f] # Absent
                /\ file[f] = Absent \/ (sums[p] \in Deb /\ Name(sums[p]) = p
                                        /\ f \in Conf(sums[p]) /\ file[f] = sums[p])
<1>1. deb[p] \in Deb /\ Name(deb[p]) = p
  BY TheTarget
<1>2. deb' = deb /\ \A q \in Package : status'[q] = IF q = p THEN r ELSE status[q]
  BY DEF Configured, TargetOK
<1>3. ASSUME NEW f \in Path, file'[f] # file[f]
      PROVE  /\ f \in Conf(deb[p]) /\ fresh[f] = file'[f] /\ fresh[f] # Absent
             /\ file[f] = Absent \/ (sums[p] \in Deb /\ Name(sums[p]) = p
                                     /\ f \in Conf(sums[p]) /\ file[f] = sums[p])
  <2>1. f \in Moved(p) /\ file'[f] = fresh[f]
    BY <1>3 DEF Configured
  <2>2. f \in Conf(deb[p]) /\ fresh[f] # Absent /\ (file[f] = Absent \/ Unmodified(p, f))
    BY <2>1 DEF Moved
  <2> QED BY <2>1, <2>2, TheTarget DEF Unmodified
<1>4. \A f \in Path : file'[f] # Admin \/ file'[f] = file[f]
  BY <1>3 DEF TargetOK, FilesOfDebs
<1>5. \A f \in Path : file[f] = Admin => file'[f] = Admin
  BY <1>3, NamesAssumption
<1> QED BY <1>1, <1>2, <1>3, <1>4, <1>5

LEMMA ConfiguredOwners ==
    ASSUME TargetOK, NEW p \in Package, status[p] = "unpacked",
           NEW r \in {"installed", "half_configured"}, Configured(p, r)
    PROVE  /\ FilesOwned => FilesOwned'
           /\ NoAdmin => NoAdmin'
<1> DEFINE Q(q) == status'[q] \in Present => status[q] \in Present /\ deb'[q] = deb[q]
<1>1. \A q \in Package : Q(q)
  BY ConfiguredFiles DEF Present
<1>2. ASSUME FilesOwned, NEW q \in Package, status'[q] \in Present, NEW f \in Regular(deb'[q])
      PROVE  file'[f] = deb'[q]
  <2>1. status[q] \in Present /\ deb'[q] = deb[q] /\ f \in Regular(deb[q])
    BY <1>1, <1>2
  <2>2. deb[q] \in Deb /\ Name(deb[q]) = q /\ f \in Path /\ file[f] = deb[q]
    BY <1>2, <2>1, TheTarget, TheDeb DEF FilesOwned, Present
  <2>3. CASE file'[f] # file[f]
    <3>1. f \in Conf(deb[p]) /\ sums[p] \in Deb /\ Name(sums[p]) = p /\ file[f] = sums[p]
      BY <2>2, <2>3, ConfiguredFiles, TheDeb
    <3>2. q = p
      BY <2>2, <3>1
    <3> QED BY <2>1, <2>2, <3>1, <3>2, TheDeb
  <2> QED BY <2>1, <2>2, <2>3
<1>3. ASSUME NoAdmin, NEW q \in Package, status'[q] \in Present, NEW f \in Regular(deb'[q])
      PROVE  file'[f] # Admin
  <2>1. status[q] \in Present /\ f \in Regular(deb[q])
    BY <1>1, <1>3
  <2>2. deb[q] \in Deb /\ f \in Path /\ file[f] # Admin
    BY <1>3, <2>1, TheTarget, TheDeb DEF NoAdmin, Present
  <2> QED BY <2>2, ConfiguredFiles
<1> QED BY <1>2, <1>3 DEF FilesOwned, NoAdmin

LEMMA ConfiguredChecked ==
    ASSUME TargetOK, NEW p \in Package, status[p] = "unpacked",
           NEW r \in {"installed", "half_configured"}, Configured(p, r), cmd' = cmd,
           NEW d \in Deb, Name(d) # p
    PROVE  /\ d \in Unedited => d \in Unedited'
           /\ d \in Untaken => d \in Untaken'
           /\ NoEssentialConf => (d \in Unessential => d \in Unessential')
<1>1. OldFiles(d)' = OldFiles(d) /\ Forces("overwrite")' = Forces("overwrite")
      /\ Regular(d) \subseteq Path
  BY ConfiguredFiles, TheDeb DEF OldFiles, Forces
<1>2. d \in Unedited => d \in Unedited'
  BY <1>1, ConfiguredFiles DEF Unedited
<1>3. d \in Untaken => d \in Untaken'
  BY <1>1, ConfiguredFiles DEF Untaken, Present
<1>4. ASSUME NoEssentialConf, d \in Unessential PROVE d \in Unessential'
  <2>1. ASSUME NEW f \in Path, NEW e \in Deb, Essential(e), file'[f] = e
        PROVE  file[f] = e
    <3>1. CASE file'[f] # file[f]
      <4>1. fresh[f] = e
        BY <2>1, <3>1, ConfiguredFiles
      <4>2. f \in Conf(e)
        BY <4>1 DEF TargetOK, FilesOfDebs
      <4> QED BY <1>4, <2>1, <4>2 DEF NoEssentialConf
    <3> QED BY <2>1, <3>1
  <2> QED BY <1>1, <1>4, <2>1 DEF Unessential
<1> QED BY <1>2, <1>3, <1>4

(* Unpacking a package that was checked.                                   *)
LEMMA UnpackFiles ==
    ASSUME Base, Unpack
    PROVE  /\ TargetOK /\ Next1 \in Deb /\ Name(Next1) \in Package
           /\ status[Name(Next1)] \in Unpackable
           /\ \A q \in Package : /\ status'[q] = IF q = Name(Next1) THEN "unpacked" ELSE status[q]
                                 /\ deb'[q] = IF q = Name(Next1) THEN Next1 ELSE deb[q]
           /\ \A f \in Path : file'[f] = IF f \in Regular(Next1) THEN Next1
                                         ELSE IF f \in Dropped(Next1) THEN Absent ELSE file[f]
           /\ cmd' = cmd
<1>1. TargetOK /\ ProcessOK
  BY BaseParts
<1>2. Next1 \in Deb /\ Name(Next1) \in Package /\ status[Name(Next1)] \in Unpackable
  BY <1>1, TheUnpacked, Zenon DEF Unpack
<1> QED BY <1>1, <1>2 DEF Unpack, TargetOK

LEMMA UnpackOwners ==
    ASSUME Base, Unpack, OneRole, NoAdmin, FilesOwned,
           Next1 \in Untaken, Forces("overwrite") => ~Overwrites(Next1)
    PROVE  FilesOwned'
<1> DEFINE d == Next1
           p == Name(d)
<1> SUFFICES ASSUME NEW q \in Package, status'[q] \in Present, NEW f \in Regular(deb'[q])
             PROVE  file'[f] = deb'[q]
  BY DEF FilesOwned
<1>1. TargetOK /\ d \in Deb /\ p \in Package
  BY UnpackFiles
<1>2. CASE q = p
  <2>1. deb'[q] = d /\ f \in Path
    BY <1>1, <1>2, UnpackFiles, TheDeb
  <2> QED BY <2>1, UnpackFiles
<1>3. CASE q # p
  <2>1. status[q] \in Present /\ deb'[q] = deb[q]
    BY <1>3, UnpackFiles
  <2>2. deb[q] \in Deb /\ Name(deb[q]) = q /\ f \in Regular(deb[q]) /\ f \in Path
        /\ file[f] = deb[q] /\ file[f] # Absent
    BY <1>1, <2>1, TheTarget, TheDeb DEF FilesOwned, Present
  <2>3. ASSUME f \in Files(deb[p]), status[p] = "installed" PROVE f \in Conf(deb[p])
    <3>1. deb[p] \in Deb /\ Name(deb[p]) = p
      BY <1>1, <2>3, TheTarget
    <3>2. f \in Regular(deb[p]) => file[f] = deb[p]
      BY <1>1, <2>3 DEF FilesOwned, Present
    <3> QED BY <1>3, <2>2, <2>3, <3>1, <3>2, TheDeb
  <2>4. f \notin Regular(d)
    <3> SUFFICES ASSUME f \in Regular(d) PROVE FALSE
      OBVIOUS
    <3>1. CASE ~Forces("overwrite")
      BY <1>3, <2>1, <2>2, <3>1 DEF Untaken
    <3>2. CASE Forces("overwrite")
      <4>1. f \in OldFiles(d)
        BY <2>2, <3>2 DEF Overwrites
      <4>2. status[p] = "installed" /\ f \in Files(deb[p])
        BY <4>1 DEF OldFiles
      <4>3. f \in Conf(deb[p]) /\ deb[p] \in Deb
        BY <1>1, <2>3, <4>2, TheTarget
      <4> QED BY <1>1, <4>3 DEF OneRole
    <3> QED BY <3>1, <3>2
  <2>5. f \notin Dropped(d)
    <3> SUFFICES ASSUME f \in Dropped(d) PROVE FALSE
      OBVIOUS
    <3>1. status[p] = "installed" /\ f \in Regular(deb[p])
      BY DEF Dropped, Upgrades
    <3>2. deb[p] \in Deb
      BY <1>1, <3>1, TheTarget
    <3> QED BY <2>3, <3>1, <3>2, TheDeb
  <2> QED BY <2>1, <2>2, <2>4, <2>5, UnpackFiles
<1> QED BY <1>2, <1>3

LEMMA UnpackNoAdmin ==
    ASSUME Base, Unpack, NoAdmin
    PROVE  NoAdmin'
<1> DEFINE d == Next1
           p == Name(d)
<1> SUFFICES ASSUME NEW q \in Package, status'[q] \in Present, NEW f \in Regular(deb'[q])
             PROVE  file'[f] # Admin
  BY DEF NoAdmin
<1>1. TargetOK /\ d \in Deb /\ p \in Package /\ d # Admin /\ Absent # Admin
  BY UnpackFiles, TheDeb, NamesAssumption
<1>2. CASE q = p
  <2>1. deb'[q] = d /\ f \in Path
    BY <1>1, <1>2, UnpackFiles, TheDeb
  <2> QED BY <1>1, <2>1, UnpackFiles
<1>3. CASE q # p
  <2>1. status[q] \in Present /\ deb'[q] = deb[q]
    BY <1>3, UnpackFiles
  <2>2. f \in Path /\ file[f] # Admin
    BY <1>1, <2>1, TheTarget, TheDeb DEF NoAdmin, Present
  <2> QED BY <1>1, <2>2, UnpackFiles
<1> QED BY <1>2, <1>3

(* The .deb that wait have no file in common with it.                      *)
LEMMA UnpackChecked ==
    ASSUME Base, Unpack, NEW d \in Deb, Apart(d, Next1)
    PROVE  /\ d \in Unedited => d \in Unedited'
           /\ d \in Untaken => d \in Untaken'
           /\ d \in Unessential => d \in Unessential'
<1>1. /\ TargetOK /\ Next1 \in Deb /\ Name(Next1) # Name(d) /\ Name(d) \in Package
      /\ Files(d) \cap Files(Next1) = {} /\ Regular(d) \subseteq Path
      /\ Regular(d) \cap Regular(Next1) = {}
  BY UnpackFiles, TheDeb DEF Apart
<1>2. OldFiles(d)' = OldFiles(d) /\ Forces("overwrite")' = Forces("overwrite")
  BY <1>1, UnpackFiles DEF OldFiles, Forces
<1>3. \A f \in Regular(d) : file'[f] = file[f] \/ file'[f] = Absent
  BY <1>1, UnpackFiles
<1>4. d \in Unedited => d \in Unedited'
  BY <1>2, <1>3, NamesAssumption DEF Unedited
<1>5. d \in Unessential => d \in Unessential'
  BY <1>2, <1>3, TheDeb DEF Unessential
<1>6. d \in Untaken => d \in Untaken'
  BY <1>1, <1>2, UnpackFiles DEF Untaken
<1> QED BY <1>4, <1>5, <1>6

(* What a removal deletes is of no other package that is there, unless it  *)
(* takes it from that one.                                                 *)
LEMMA DeleteOwners ==
    ASSUME TargetOK, NEW p \in Package, deb[p] \in Deb, NEW F \in SUBSET Files(deb[p]),
           OneRole, Delete(p, F), deb' = deb, FilesOwned,
           status[p] \notin Present => ~TakesOthers(p, F),
           NEW s \in {"not_installed", "config_files", "half_configured"},
           status' = [status EXCEPT ![p] = s]
    PROVE  FilesOwned'
<1> SUFFICES ASSUME NEW q \in Package, status'[q] \in Present, NEW f \in Regular(deb'[q])
             PROVE  file'[f] = deb'[q]
  BY DEF FilesOwned
<1>1. q # p /\ status[q] \in Present /\ deb'[q] = deb[q]
  BY DEF TargetOK, Present
<1>2. deb[q] \in Deb /\ Name(deb[q]) = q /\ f \in Regular(deb[q]) /\ f \in Path
      /\ file[f] = deb[q]
  BY <1>1, TheTarget, TheDeb DEF FilesOwned, Present
<1>3. f \notin F
  <2> SUFFICES ASSUME f \in F PROVE FALSE
    OBVIOUS
  <2>1. f \in Regular(deb[p]) /\ f \notin Conf(deb[p])
    BY <1>2, TheDeb DEF OneRole
  <2>2. CASE status[p] \in Present
    <3>1. file[f] = deb[p]
      BY <2>1, <2>2 DEF FilesOwned
    <3>2. Name(deb[p]) = p
      BY <2>2, TheTarget DEF Present
    <3> QED BY <1>1, <1>2, <3>1, <3>2
  <2>3. CASE status[p] \notin Present
    <3>1. TakesOthers(p, F)
      BY <1>1, <1>2, <2>1 DEF TakesOthers
    <3> QED BY <2>3, <3>1
  <2> QED BY <2>2, <2>3
<1>4. file'[f] = file[f]
  BY <1>2, <1>3 DEF Delete
<1> QED BY <1>1, <1>2, <1>4

LEMMA DeleteNoAdmin ==
    ASSUME TargetOK, NEW p \in Package, NEW F, Delete(p, F), deb' = deb, NoAdmin,
           NEW s \in {"not_installed", "config_files", "half_configured"},
           status' = [status EXCEPT ![p] = s]
    PROVE  NoAdmin'
<1> SUFFICES ASSUME NEW q \in Package, status'[q] \in Present, NEW f \in Regular(deb'[q])
             PROVE  file'[f] # Admin
  BY DEF NoAdmin
<1>1. q # p /\ status[q] \in Present /\ deb'[q] = deb[q]
  BY DEF TargetOK, Present
<1>2. f \in Path /\ file[f] # Admin
  BY <1>1, TheTarget, TheDeb DEF NoAdmin, Present
<1> QED BY <1>2, NamesAssumption DEF Delete

(* The two steps that delete the files of a package.                       *)
LEMMA ErasedFiles ==
    ASSUME Base, Removed \/ PurgeFails
    PROVE  \E F \in SUBSET Files(deb[cmd.package]),
              s \in {"not_installed", "config_files", "half_configured"} :
             /\ Delete(cmd.package, F) /\ status' = [status EXCEPT ![cmd.package] = s]
             /\ cmd.name = "purge" \/ F = Regular(deb[cmd.package])
<1>1. deb[cmd.package] \in Deb /\ pc = "remove" /\ cmd.name \in {"remove", "purge"}
  BY BaseParts, TheRemoved, Zenon DEF Removed, PurgeFails
<1>2. CASE Removed
  <2> DEFINE F == IF cmd.name = "purge" THEN Files(deb[cmd.package])
                  ELSE Regular(deb[cmd.package])
             s == IF cmd.name = "purge" THEN "not_installed" ELSE AfterRemove(cmd.package)
  <2>1. Delete(cmd.package, F) /\ status' = [status EXCEPT ![cmd.package] = s]
    BY <1>2 DEF Removed
  <2>2. F \in SUBSET Files(deb[cmd.package]) /\ s \in {"not_installed", "config_files"}
    BY <1>1, TheDeb DEF AfterRemove
  <2>3. cmd.name = "purge" \/ F = Regular(deb[cmd.package])
    OBVIOUS
  <2> HIDE DEF F, s
  <2> QED BY <2>1, <2>2, <2>3
<1>3. CASE PurgeFails
  <2>1. Delete(cmd.package, Regular(deb[cmd.package])) /\ cmd.name = "purge"
    BY <1>3 DEF PurgeFails
  <2>2. PICK s \in {"config_files", "half_configured"} : status' = [status EXCEPT ![cmd.package] = s]
    BY <1>3 DEF PurgeFails
  <2>3. Regular(deb[cmd.package]) \in SUBSET Files(deb[cmd.package])
    BY <1>1, TheDeb
  <2> QED BY <2>1, <2>2, <2>3
<1> QED BY <1>2, <1>3

LEMMA OwnersErased ==
    ASSUME Base, OneRole, Owners, Removed \/ PurgeFails
    PROVE  Owners'
<1> DEFINE p == cmd.package
<1>1. TargetOK /\ p \in Package /\ deb[p] \in Deb /\ Stop /\ deb' = deb
  BY BaseParts, TheRemoved, Zenon DEF Removed, PurgeFails, Delete
<1>2. PICK F \in SUBSET Files(deb[p]), s \in {"not_installed", "config_files", "half_configured"} :
        Delete(p, F) /\ status' = [status EXCEPT ![p] = s]
  BY ErasedFiles
<1>3. ~excused' => ~excused /\ (status[p] \notin Present => ~TakesOthers(p, F))
  BY <1>2, Zenon DEF Delete
<1>4. ~excused => FilesOwned
  BY Zenon DEF Owners, OwnFiles, FilesOwned
<1>5. ASSUME ~excused' PROVE FilesOwned'
  <2>1. FilesOwned /\ (status[p] \notin Present => ~TakesOthers(p, F))
    BY <1>3, <1>4, <1>5, Zenon
  <2> HIDE DEF p
  <2> HIDE <1>3, <1>4, <1>5
  <2> QED BY <1>1, <1>2, <2>1, DeleteOwners
<1>6. NoAdmin'
  <2>1. NoAdmin
    BY DEF Owners
  <2> HIDE DEF p
  <2> QED BY <1>1, <1>2, <2>1, DeleteNoAdmin
<1>7. ~Sound'
  BY <1>1, StopUnsound
<1> QED BY <1>5, <1>6, <1>7, Zenon DEF Owners, OwnFiles, FilesOwned, Compared

(* A package that could not be unpacked is there only if it was before.    *)
LEMMA OwnersUnpackFails ==
    ASSUME Base, Owners, UnpackFails
    PROVE  Owners'
<1> DEFINE d == Next1
           p == Name(d)
<1>1. TargetOK /\ d \in Deb /\ p \in Package
  BY BaseParts, TheUnpacked, Zenon DEF UnpackFails
<1>2. Stop /\ file' = file
  BY Zenon DEF UnpackFails
<1>3. \A q \in Package : status'[q] \in Present => status[q] \in Present /\ deb'[q] = deb[q]
  <2>1. CASE Upgrades(d)
    <3>1. deb' = deb /\ \E s \in Half \cup Present : status' = [status EXCEPT ![p] = s]
      BY <2>1, Zenon DEF UnpackFails
    <3> QED BY <1>1, <2>1, <3>1 DEF TargetOK, Upgrades, Present
  <2>2. CASE ~Upgrades(d)
    <3>1. deb' = [deb EXCEPT ![p] = d]
          /\ \E s \in {"half_installed", "not_installed"} : status' = [status EXCEPT ![p] = s]
      BY <2>2, Zenon DEF UnpackFails
    <3> QED BY <1>1, <3>1 DEF TargetOK, Present
  <2> QED BY <2>1, <2>2
<1>4. ~excused' => ~excused
  BY Zenon DEF UnpackFails
<1>5. FilesOwned => FilesOwned'
  BY <1>2, <1>3 DEF FilesOwned
<1>6. NoAdmin => NoAdmin'
  BY <1>2, <1>3 DEF NoAdmin
<1>7. ~Sound'
  BY <1>2, StopUnsound
<1> QED BY <1>4, <1>5, <1>6, <1>7, Zenon DEF Owners, OwnFiles, FilesOwned, Compared

LEMMA OwnersRemoveFails ==
    ASSUME Base, Owners, RemoveFails
    PROVE  Owners'
<1>1. TargetOK /\ cmd.package \in Package
  BY BaseParts, TheRemoved, Zenon DEF RemoveFails
<1>2. Stop /\ file' = file /\ deb' = deb
  BY Zenon DEF RemoveFails
<1>3. \A q \in Package : status'[q] \in Present => status[q] \in Present /\ deb'[q] = deb[q]
  <2>1. PICK s \in {status[cmd.package], "half_installed"}
               \cup (IF status[cmd.package] = "config_files" THEN {"half_configured"} ELSE {}) :
          status' = [status EXCEPT ![cmd.package] = s]
    BY DEF RemoveFails
  <2> QED BY <1>1, <1>2, <2>1 DEF TargetOK, Present
<1>4. excused' = excused
  BY Zenon DEF RemoveFails
<1>5. FilesOwned => FilesOwned'
  BY <1>2, <1>3 DEF FilesOwned
<1>6. NoAdmin => NoAdmin'
  BY <1>2, <1>3 DEF NoAdmin
<1>7. ~Sound'
  BY <1>2, StopUnsound
<1> QED BY <1>4, <1>5, <1>6, <1>7, Zenon DEF Owners, OwnFiles, FilesOwned, Compared

LEMMA OwnersAdminWrites ==
    ASSUME Base, Owners, NEW g \in Path, AdminWrites(g)
    PROVE  Owners'
<1>1. TargetOK
  BY BaseParts
<1>2. UNCHANGED <<status, deb>> /\ file' = [file EXCEPT ![g] = Admin] /\ g \notin Owned
      /\ pc = "idle" /\ pc' = pc
  BY Zenon DEF AdminWrites, process
<1>3. \A q \in Package : status[q] \in Present => g \notin Regular(deb[q])
  BY <1>2 DEF Owned
<1>4. \A q \in Package : status[q] \in Present =>
        \A f \in Regular(deb[q]) : file'[f] = file[f]
  BY <1>1, <1>2, <1>3, TheTarget, TheDeb DEF TargetOK, Present
<1>5. excused' = excused
  BY Zenon DEF AdminWrites
<1>6. FilesOwned => FilesOwned'
  BY <1>2, <1>4 DEF FilesOwned
<1>7. NoAdmin => NoAdmin'
  BY <1>2, <1>4 DEF NoAdmin
<1>8. ~Sound'
  BY <1>2, Zenon DEF Sound, Ready
<1> QED BY <1>5, <1>6, <1>7, <1>8, Zenon DEF Owners, OwnFiles, FilesOwned, Compared

(* A step that leaves the target alone.                                    *)
LEMMA OwnersSame ==
    ASSUME UNCHANGED target
    PROVE  /\ FilesOwned' <=> FilesOwned
           /\ NoAdmin' <=> NoAdmin
           /\ EssentialOwned' <=> EssentialOwned
           /\ cmd' = cmd =>
                Unedited' = Unedited /\ Untaken' = Untaken /\ Unessential' = Unessential
<1>1. status' = status /\ deb' = deb /\ file' = file
  BY DEF target
<1>2. FilesOwned' <=> FilesOwned
  BY <1>1 DEF FilesOwned
<1>3. NoAdmin' <=> NoAdmin
  BY <1>1 DEF NoAdmin
<1>4. EssentialOwned' <=> EssentialOwned
  BY <1>1 DEF EssentialOwned
<1>5. ASSUME cmd' = cmd
      PROVE  Unedited' = Unedited /\ Untaken' = Untaken /\ Unessential' = Unessential
  BY <1>1, <1>5 DEF Unedited, Untaken, Unessential, OldFiles, Forces
<1> QED BY <1>2, <1>3, <1>4, <1>5

(* An item that was checked without an error.                              *)
LEMMA ItemUnedited ==
    ASSUME Base, Item \in Deb, \A f \in Clashes : Allowed(f)
    PROVE  Item \in Unedited
<1> SUFFICES ASSUME ~Forces("overwrite"), NEW f \in Regular(Item), file[f] = Admin
             PROVE  f \in OldFiles(Item)
  BY DEF Unedited
<1>1. f \in Files(Item) /\ f \notin Conf(Item) /\ file[f] # Absent
  BY NamesAssumption DEF Regular
<1>2. f \notin Clashes
  BY <1>1 DEF Allowed
<1> QED BY <1>1, <1>2 DEF Clashes

LEMMA ItemUntaken ==
    ASSUME Base, OneRole, FilesOwned, Item \in Deb, \A f \in Clashes : Allowed(f)
    PROVE  Item \in Untaken
<1> DEFINE p == Name(Item)
<1>1. TargetOK /\ p \in Package
  BY BaseParts, TheDeb
<1> SUFFICES ASSUME ~Forces("overwrite"), NEW f \in Regular(Item), NEW q \in Package \ {p},
                    status[q] \in Present, f \in Regular(deb[q])
             PROVE  FALSE
  BY DEF Untaken
<1>2. deb[q] \in Deb /\ Name(deb[q]) = q /\ file[f] = deb[q] /\ file[f] # Absent
  BY <1>1, TheTarget, TheDeb DEF FilesOwned, Present
<1>3. f \in Files(Item) /\ f \notin Conf(Item)
  BY DEF Regular
<1>4. f \notin Clashes
  BY <1>3 DEF Allowed
<1>5. f \in OldFiles(Item)
  BY <1>2, <1>3, <1>4 DEF Clashes
<1>6. status[p] = "installed" /\ f \in Files(deb[p])
  BY <1>5 DEF OldFiles
<1>7. deb[p] \in Deb /\ Name(deb[p]) = p
  BY <1>1, <1>6, TheTarget
<1>8. f \in Regular(deb[p])
  BY <1>6, <1>7, TheDeb DEF OneRole
<1>9. file[f] = deb[p]
  BY <1>1, <1>6, <1>8 DEF FilesOwned, Present
<1> QED BY <1>2, <1>7, <1>9

LEMMA OwnersCheckFiles ==
    ASSUME Base, OneRole, Owners, CheckFiles
    PROVE  Owners'
<1>1. UNCHANGED target /\ cmd' = cmd /\ excused' = excused
  BY Zenon DEF CheckFiles
<1>2. ~excused => FilesOwned
  BY Zenon DEF Owners, OwnFiles, FilesOwned
<1>3. ASSUME Sound' PROVE Checked' \subseteq Unedited'
  <2>1. Checked \subseteq Unedited
    BY <1>3, CheckedCheckFiles, Zenon DEF Owners, Compared
  <2>2. kind[at] = "explicit" => Item \in Unedited
    BY <1>3, CheckedCheckFiles, ItemUnedited, Zenon
  <2> QED BY <1>1, <2>1, <2>2, CheckedCheckFiles, OwnersSame
<1>4. ASSUME Sound', ~excused' PROVE Checked' \subseteq Untaken'
  <2>1. Checked \subseteq Untaken /\ FilesOwned
    BY <1>1, <1>2, <1>4, CheckedCheckFiles, Zenon DEF Owners, Compared
  <2>2. kind[at] = "explicit" => Item \in Untaken
    BY <1>4, <2>1, CheckedCheckFiles, ItemUntaken, Zenon
  <2> HIDE <1>4
  <2> QED BY <1>1, <2>1, <2>2, CheckedCheckFiles, OwnersSame
<1>5. NoAdmin'
  BY <1>1, OwnersSame, Zenon DEF Owners
<1>6. ~excused' => FilesOwned'
  BY <1>1, <1>2, OwnersSame, Zenon
<1> QED BY <1>3, <1>4, <1>5, <1>6, Zenon DEF Owners, OwnFiles, FilesOwned, Compared

(* The other steps that leave the target alone.                            *)
LEMMA OwnersTargetSame ==
    ASSUME Base, Owners, UNCHANGED target, UNCHANGED excused,
           \/ ~Sound'
           \/ Checked' = {}
           \/ Sound /\ Checked' \subseteq Checked /\ cmd' = cmd
    PROVE  Owners'
<1>1. ~excused => FilesOwned
  BY Zenon DEF Owners, OwnFiles, FilesOwned
<1>2. ~excused' => FilesOwned'
  BY <1>1, OwnersSame, Zenon
<1>3. NoAdmin'
  BY OwnersSame, Zenon DEF Owners
<1>4. ASSUME Sound' PROVE Checked' \subseteq Unedited'
  <2>1. CASE Checked' = {}
    BY <2>1
  <2>2. CASE Sound /\ Checked' \subseteq Checked /\ cmd' = cmd
    <3>1. Checked \subseteq Unedited /\ Unedited' = Unedited
      BY <2>2, OwnersSame, Zenon DEF Owners, Compared
    <3> QED BY <2>2, <3>1
  <2> QED BY <1>4, <2>1, <2>2
<1>5. ASSUME Sound', ~excused' PROVE Checked' \subseteq Untaken'
  <2>1. CASE Checked' = {}
    BY <2>1
  <2>2. CASE Sound /\ Checked' \subseteq Checked /\ cmd' = cmd
    <3>1. Checked \subseteq Untaken /\ Untaken' = Untaken
      BY <1>5, <2>2, OwnersSame, Zenon DEF Owners, Compared
    <3> QED BY <2>2, <3>1, Zenon
  <2> QED BY <1>5, <2>1, <2>2, Zenon
<1> QED BY <1>2, <1>3, <1>4, <1>5, Zenon DEF Owners, OwnFiles, FilesOwned, Compared

(* A package is configured, and the ones that wait are others.             *)
LEMMA OwnersConfigured ==
    ASSUME Base, Owners, NEW p \in Package, status[p] = "unpacked",
           NEW r \in {"installed", "half_configured"}, Configured(p, r),
           ~Sound' \/ /\ Sound /\ Checked' \subseteq Checked /\ cmd' = cmd
                      /\ \A d \in Checked' : d \in Deb /\ Name(d) # p
    PROVE  Owners'
<1>1. TargetOK /\ excused' = excused
  BY BaseParts, Zenon DEF Configured
<1>2. (FilesOwned => FilesOwned') /\ (NoAdmin => NoAdmin')
  BY <1>1, ConfiguredOwners
<1>3. ASSUME Sound' PROVE Checked' \subseteq Unedited'
  <2>1. Checked' \subseteq Unedited
    BY <1>3, Zenon DEF Owners, Compared
  <2> QED BY <1>1, <1>3, <2>1, ConfiguredChecked
<1>4. ASSUME Sound', ~excused' PROVE Checked' \subseteq Untaken'
  <2>1. Checked' \subseteq Untaken
    BY <1>1, <1>4, Zenon DEF Owners, Compared
  <2>2. \A d \in Checked' : d \in Deb /\ Name(d) # p /\ cmd' = cmd
    BY <1>4, Zenon
  <2>3. TargetOK
    BY <1>1
  <2> HIDE <1>1, <1>4
  <2> QED BY <2>1, <2>2, <2>3, ConfiguredChecked
<1> QED BY <1>1, <1>2, <1>3, <1>4, Zenon DEF Owners, OwnFiles, FilesOwned, Compared

(* The package that is configured, whether it succeeds or fails.           *)
LEMMA ConfiguredOne ==
    ASSUME Base, PreConfigure \/ ConfigureNext
    PROVE  \E p \in Package, r \in {"installed", "half_configured"} :
             /\ status[p] = "unpacked" /\ Configured(p, r)
             /\ ~Sound' \/ /\ Sound /\ Checked' \subseteq Checked /\ cmd' = cmd
                           /\ \A d \in Checked' : d \in Deb /\ Name(d) # p
<1>1. CASE Stop
  <2>1. CASE PreConfigure
    <3>1. TargetOK /\ PlaceOK /\ Stages /\ pc = "preconfigure"
      BY <2>1, BaseParts, Zenon DEF PreConfigure, ProcessOK
    <3>2. cmd \in Command /\ at \in Given /\ kind[at] = "configure" /\ at \in Nat
      BY <3>1 DEF PlaceOK, Stages
    <3>3. status[Name(Item)] = "unpacked"
      BY <3>1, <3>2 DEF Stages, Item
    <3>4. Name(Item) \in Package
      BY <3>2, TheCommand, TheDeb DEF Item
    <3>5. Configured(Name(Item), "installed") \/ Configured(Name(Item), "half_configured")
      BY <2>1, Zenon DEF PreConfigure, Succeeds, Fails
    <3>6. ~Sound'
      BY <1>1, StopUnsound
    <3> QED BY <3>3, <3>4, <3>5, <3>6
  <2>2. CASE ConfigureNext
    <3>1. PlaceOK /\ Stages /\ pc = "configure"
      BY <2>2, BaseParts, Zenon DEF ConfigureNext, ProcessOK
    <3>2. todo # <<>> /\ todo \in Seq(Deb) /\ status[Name(Next1)] = "unpacked"
      BY <3>1 DEF Stages, PlaceOK
    <3>3. Name(Next1) \in Package
      BY <3>2, TheDeb DEF Next1
    <3>4. Configured(Name(Next1), "installed") \/ Configured(Name(Next1), "half_configured")
      BY <2>2, Zenon DEF ConfigureNext, Succeeds, Fails
    <3>5. ~Sound'
      BY <1>1, StopUnsound
    <3> QED BY <3>2, <3>3, <3>4, <3>5
  <2> QED BY <2>1, <2>2
<1>2. CASE ~Stop
  <2>1. CASE PreConfigure
    BY <1>2, <2>1, CheckedPreConfigure
  <2>2. CASE ConfigureNext
    BY <1>2, <2>2, CheckedConfigureNext
  <2> QED BY <2>1, <2>2
<1> QED BY <1>1, <1>2

LEMMA OwnersUnpack ==
    ASSUME Base, OneRole, Owners, Unpack
    PROVE  Owners'
<1>1. pc = "unpack" /\ todo # <<>>
      /\ (~excused' => ~excused /\ (Forces("overwrite") => ~Overwrites(Next1)))
  BY Zenon DEF Unpack
<1>2. Sound /\ Next1 \in Checked /\ \A d \in Checked : d \in Deb
  BY <1>1, CheckedUnpack, Zenon
<1>3. ASSUME ~excused' PROVE FilesOwned'
  <2>1. FilesOwned /\ NoAdmin /\ Next1 \in Untaken
    <3>1. Checked \subseteq Untaken /\ FilesOwned /\ NoAdmin
      BY <1>1, <1>2, <1>3, Zenon DEF Owners, OwnFiles, FilesOwned, Compared
    <3> QED BY <1>2, <3>1, Zenon
  <2> QED BY <1>1, <1>3, <2>1, UnpackOwners, Zenon
<1>4. NoAdmin'
  BY UnpackNoAdmin, Zenon DEF Owners
<1>5. Checked' \subseteq Unedited'
  <2>1. Checked \subseteq Unedited
    BY <1>2, Zenon DEF Owners, Compared
  <2> HIDE <1>1
  <2> QED BY <1>2, <2>1, CheckedUnpackNext, UnpackChecked
<1>6. ASSUME ~excused' PROVE Checked' \subseteq Untaken'
  <2>1. Checked \subseteq Untaken
    BY <1>1, <1>2, <1>6, Zenon DEF Owners, Compared
  <2> HIDE <1>1, <1>6
  <2> QED BY <1>2, <2>1, CheckedUnpackNext, UnpackChecked
<1> QED BY <1>3, <1>4, <1>5, <1>6, Zenon DEF Owners, OwnFiles, FilesOwned, Compared

LEMMA OwnersInit == Init => Owners
<1> SUFFICES ASSUME Init PROVE Owners
  OBVIOUS
<1>1. \A p \in Package : status[p] \notin Present
  BY DEF Init, Present
<1>2. pc = "idle"
  BY DEF Init
<1>3. ~Sound
  BY <1>2, Zenon DEF Sound, Ready
<1>4. FilesOwned /\ NoAdmin
  BY <1>1 DEF FilesOwned, NoAdmin
<1> QED BY <1>3, <1>4, Zenon DEF Owners, OwnFiles, FilesOwned, Compared

LEMMA OwnersNext == ASSUME OneRole PROVE Base /\ Owners /\ [Next]_vars => Owners'
<1> SUFFICES ASSUME Base, Owners, [Next]_vars PROVE Owners'
  OBVIOUS
<1>1. CASE UNCHANGED vars
  <2>1. UNCHANGED <<pc, cmd, kind, at, todo>> /\ UNCHANGED errors /\ UNCHANGED target
        /\ UNCHANGED excused
    BY <1>1, Zenon DEF vars, target
  <2>2. Checked' = Checked
    BY <2>1 DEF Checked, Waiting, Explicit, Given
  <2>3. Sound' => Sound
    BY <2>1, Zenon DEF Sound
  <2> QED BY <2>1, <2>2, <2>3, OwnersTargetSame
<1>2. CASE \E c \in Command : Install(c) \/ Configure(c) \/ Remove(c)
  <2>1. UNCHANGED target /\ UNCHANGED excused
    BY <1>2, Zenon DEF Install, Configure, Remove, Enter
  <2>2. Checked' = {} \/ ~Sound'
    BY <1>2, CheckedInstall, CheckedConfigure, CheckedRemove
  <2> QED BY <2>1, <2>2, OwnersTargetSame
<1>3. CASE CheckFiles
  BY <1>3, OwnersCheckFiles
<1>4. CASE Invalid \/ InstallDone \/ Killed
  <2>1. Stop /\ UNCHANGED target /\ UNCHANGED excused
    BY <1>4, Zenon DEF Invalid, InstallDone, Killed
  <2> QED BY <2>1, StopUnsound, OwnersTargetSame
<1>5. CASE Valid
  <2>1. UNCHANGED target /\ UNCHANGED excused /\ cmd' = cmd
    BY <1>5, Zenon DEF Valid
  <2> QED BY <1>5, <2>1, CheckedValid, OwnersTargetSame
<1>6. CASE PreConfigure \/ ConfigureNext
  BY <1>6, ConfiguredOne, OwnersConfigured
<1>7. CASE Unpack
  BY <1>7, OwnersUnpack
<1>8. CASE UnpackFails
  BY <1>8, OwnersUnpackFails
<1>9. CASE Removed \/ PurgeFails
  BY <1>9, OwnersErased
<1>10. CASE RemoveFails
  BY <1>10, OwnersRemoveFails
<1>11. CASE \E f \in Path : AdminWrites(f)
  BY <1>11, OwnersAdminWrites
<1> QED BY <1>1, <1>2, <1>3, <1>4, <1>5, <1>6, <1>7, <1>8, <1>9, <1>10, <1>11, Zenon DEF Next, Work

LEMMA OwnersAlways == ASSUME OneRole PROVE Spec => [](Base /\ Owners)
<1>1. Init => Base /\ Owners
  BY BaseInit, OwnersInit
<1>2. Base /\ Owners /\ [Next]_vars => (Base /\ Owners)'
  BY BaseNext, OwnersNext
<1> QED BY <1>1, <1>2, PTL DEF Spec

(* No package loses a file to another: whatever is installed, upgraded,    *)
(* removed or fails, without --force-overwrite every file of a package     *)
(* that is there is the one it brought (compute_size_and_verify_overwrite, *)
(* do_unpack, do_remove), if no path is a configuration file here and a    *)
(* regular file there; and until a package that had been removed before is *)
(* removed again together with the file another one has there now.         *)
THEOREM FilesStayOwn == ASSUME OneRole PROVE Spec => []OwnFiles
<1>1. Owners => OwnFiles
  BY Zenon DEF Owners
<1> QED BY <1>1, OwnersAlways, PTL

-----------------------------------------------------------------------------
(* What the administrator wrote.                                           *)

(* Only an unpack and a removal may replace it.                            *)
LEMMA AdminStep ==
    ASSUME OneRole, Base, Owners, [Next]_vars,
           NEW f \in Path, file[f] = Admin, file'[f] # Admin
    PROVE  \/ Forces("overwrite") /\ pc = "unpack"
           \/ /\ pc = "remove" /\ f \in Files(deb[cmd.package])
              /\ cmd.name = "purge" \/ status[cmd.package] \in Half
<1>1. TargetOK /\ ProcessOK /\ NoAdmin
  BY BaseParts, Zenon DEF Owners
<1>2. CASE file' = file
  BY <1>2
<1>3. CASE PreConfigure \/ ConfigureNext
  <2>1. PICK p \in Package, r \in {"installed", "half_configured"} :
          status[p] = "unpacked" /\ Configured(p, r)
    BY <1>3, ConfiguredOne
  <2> QED BY <1>1, <2>1, ConfiguredFiles
<1>4. CASE Unpack
  <2> DEFINE d == Next1
             p == Name(d)
  <2>1. d \in Deb /\ p \in Package /\ pc = "unpack" /\ todo # <<>>
    BY <1>4, UnpackFiles, Zenon DEF Unpack
  <2>2. d \in Unedited
    <3>1. Checked \subseteq Unedited
      BY <2>1, CheckedUnpack, Zenon DEF Owners, Compared
    <3> QED BY <2>1, <3>1, CheckedUnpack, Zenon
  <2>3. f \notin Dropped(d)
    <3> SUFFICES ASSUME f \in Dropped(d) PROVE FALSE
      OBVIOUS
    <3>1. status[p] = "installed" /\ f \in Regular(deb[p])
      BY DEF Dropped, Upgrades
    <3> QED BY <1>1, <2>1, <3>1 DEF NoAdmin, Present
  <2>4. f \in Regular(d)
    BY <1>4, <2>3, UnpackFiles
  <2>5. ASSUME ~Forces("overwrite") PROVE FALSE
    <3>1. f \in OldFiles(d)
      BY <2>2, <2>4, <2>5 DEF Unedited
    <3>2. status[p] = "installed" /\ f \in Files(deb[p])
      BY <3>1 DEF OldFiles
    <3>3. deb[p] \in Deb
      BY <1>1, <2>1, <3>2, TheTarget
    <3>4. f \in Regular(deb[p])
      BY <2>1, <2>4, <3>2, <3>3, TheDeb DEF OneRole
    <3> QED BY <1>1, <2>1, <3>2, <3>4 DEF NoAdmin, Present
  <2> QED BY <2>1, <2>5
<1>5. CASE Removed \/ PurgeFails
  <2> DEFINE p == cmd.package
  <2>1. pc = "remove"
    BY <1>5, Zenon DEF Removed, PurgeFails
  <2>2. PICK F \in SUBSET Files(deb[p]), s \in {"not_installed", "config_files", "half_configured"} :
          Delete(p, F) /\ (cmd.name = "purge" \/ F = Regular(deb[p]))
    BY <1>5, ErasedFiles
  <2>3. f \in F
    BY <2>2 DEF Delete
  <2>4. f \in Files(deb[p])
    BY <2>2, <2>3
  <2>5. ASSUME cmd.name # "purge" PROVE status[p] \in Half
    <3>1. p \in Package /\ f \in Regular(deb[p])
          /\ status[p] \in Present \cup Half \cup {"config_files"} /\ status[p] # "config_files"
      BY <1>1, <2>1, <2>2, <2>3, <2>5, TheRemoved
    <3> QED BY <1>1, <3>1 DEF NoAdmin
  <2> QED BY <2>1, <2>4, <2>5
<1>6. CASE \E g \in Path : AdminWrites(g)
  <2>1. PICK g \in Path : file' = [file EXCEPT ![g] = Admin]
    BY <1>6 DEF AdminWrites
  <2> QED BY <1>1, <2>1 DEF TargetOK
<1>7. ASSUME \/ UNCHANGED vars
             \/ \E c \in Command : Install(c) \/ Configure(c) \/ Remove(c)
             \/ CheckFiles \/ Invalid \/ Valid \/ InstallDone \/ Killed
             \/ UnpackFails \/ RemoveFails
      PROVE  file' = file
  BY <1>7, Zenon DEF vars, target, Install, Configure, Remove, Enter, CheckFiles, Invalid, Valid,
     InstallDone, Killed, UnpackFails, RemoveFails
<1> QED BY <1>2, <1>3, <1>4, <1>5, <1>6, <1>7, Zenon DEF Next, Work

(* Only --force-overwrite, --purge and the removal of a half-made package  *)
(* replace or delete what the administrator wrote (do_unpack,              *)
(* configure_package, do_remove), if no path is a configuration file here  *)
(* and a regular file there.                                               *)
THEOREM EditsAreKept == ASSUME OneRole PROVE Spec => AdminKept
<1> DEFINE A == \A f \in Path : file[f] = Admin /\ file'[f] # Admin =>
                  \/ Forces("overwrite") /\ pc = "unpack"
                  \/ /\ pc = "remove" /\ f \in Files(deb[cmd.package])
                     /\ cmd.name = "purge" \/ status[cmd.package] \in Half
<1>1. Base /\ Owners /\ [Next]_vars => [A]_vars
  <2>1. Base /\ Owners /\ [Next]_vars => A
    BY AdminStep
  <2> QED BY <2>1
<1>2. Spec => [][A]_vars
  BY <1>1, OwnersAlways, PTL DEF Spec
<1> QED BY <1>2 DEF AdminKept

-----------------------------------------------------------------------------
(* The files of the essential packages.                                    *)

LEMMA EssentialsInit == Init => Essentials
<1> SUFFICES ASSUME Init PROVE Essentials
  OBVIOUS
<1>1. EssentialOwned
  BY NamesAssumption DEF Init, EssentialOwned
<1>2. pc = "idle"
  BY DEF Init
<1>3. ~Sound
  BY <1>2, Zenon DEF Sound, Ready
<1> QED BY <1>1, <1>2, <1>3 DEF Essentials, EssentialCompared

(* The list is made of what is installed, the first time it is needed.     *)
LEMMA SearchedFinds ==
    ASSUME Base, Essentials, pc = "check",
           NEW f \in Path, NEW e \in Deb, Essential(e), file[f] = e
    PROVE  f \in Searched
<1>1. TargetOK /\ Stages
  BY BaseParts, Zenon DEF ProcessOK
<1>2. CASE essentials = None
  <2> DEFINE q == Name(e)
  <2>1. deb[q] = e /\ status[q] \in Present \cup Half /\ q \in Package
    BY TheDeb DEF Essentials, EssentialOwned
  <2>2. status[q] \in Present
    BY <1>1, <2>1 DEF Stages
  <2>3. f \in Files(deb[q])
    BY <1>1, <2>1 DEF TargetOK, FilesOfDebs
  <2>4. f \in EssentialFiles(at)
    BY <2>1, <2>2, <2>3 DEF EssentialFiles
  <2> QED BY <1>2, <2>4 DEF Searched
<1>3. CASE essentials # None
  BY <1>3 DEF Searched, Essentials, EssentialCompared
<1> QED BY <1>2, <1>3

LEMMA EssentialsCheckFiles ==
    ASSUME Base, Essentials, CheckFiles
    PROVE  Essentials'
<1>1. UNCHANGED target /\ cmd' = cmd /\ pc = "check" /\ file' = file
  BY Zenon DEF CheckFiles, target
<1>2. EssentialOwned' /\ Unessential' = Unessential
  BY <1>1, OwnersSame, Zenon DEF Essentials
<1>3. ASSUME essentials' # None, NEW f \in Path, NEW e \in Deb, Essential(e), file'[f] = e
      PROVE  f \in essentials'
  <2>1. essentials' \in {essentials, Searched}
    BY Zenon DEF CheckFiles
  <2>2. essentials' = Searched
    BY <1>3, <2>1 DEF Searched
  <2> QED BY <1>1, <1>3, <2>2, SearchedFinds
<1>4. ASSUME Sound' PROVE Checked' \subseteq Unessential
  <2>1. Checked \subseteq Unessential
    BY <1>4, CheckedCheckFiles, Zenon DEF Essentials, EssentialCompared
  <2>2. ASSUME kind[at] = "explicit" PROVE Item \in Unessential
    <3>1. Item \in Deb /\ \A f \in Clashes : Allowed(f)
      BY <1>4, <2>2, CheckedCheckFiles
    <3> SUFFICES ASSUME NEW f \in Regular(Item), NEW e \in Deb, Essential(e), file[f] = e,
                        f \notin OldFiles(Item)
                 PROVE  FALSE
      BY <3>1 DEF Unessential
    <3>2. f \in Files(Item) /\ file[f] # Absent /\ f \in Path
      BY <3>1, TheDeb
    <3>3. f \in Clashes
      BY <3>2 DEF Clashes
    <3>4. f \in OfEssential
      BY <1>1, <3>2, <3>3, SearchedFinds DEF OfEssential
    <3> QED BY <3>1, <3>3, <3>4 DEF Allowed
  <2> QED BY <2>1, <2>2, CheckedCheckFiles
<1> QED BY <1>2, <1>3, <1>4 DEF Essentials, EssentialCompared

LEMMA EssentialsTargetSame ==
    ASSUME Base, Essentials, UNCHANGED target,
           pc' = "check" => essentials' = None,
           \/ ~Sound'
           \/ Checked' = {}
           \/ Sound /\ Checked' \subseteq Checked /\ cmd' = cmd
    PROVE  Essentials'
<1>1. EssentialOwned'
  BY OwnersSame DEF Essentials
<1>2. Sound' => Checked' \subseteq Unessential'
  BY OwnersSame DEF Essentials, EssentialCompared
<1> QED BY <1>1, <1>2 DEF Essentials, EssentialCompared

LEMMA EssentialsConfigured ==
    ASSUME NoEssentialConf, Base, Essentials, NEW p \in Package, status[p] = "unpacked",
           NEW r \in {"installed", "half_configured"}, Configured(p, r), pc' # "check",
           ~Sound' \/ /\ Sound /\ Checked' \subseteq Checked /\ cmd' = cmd
                      /\ \A d \in Checked' : d \in Deb /\ Name(d) # p
    PROVE  Essentials'
<1>1. TargetOK
  BY BaseParts
<1>2. EssentialOwned'
  <2> SUFFICES ASSUME NEW f \in Path, NEW e \in Deb, Essential(e), file'[f] = e
               PROVE  deb'[Name(e)] = e /\ status'[Name(e)] \in Present \cup Half
    BY DEF EssentialOwned
  <2>1. file[f] = e
    <3>1. CASE file'[f] # file[f]
      <4>1. fresh[f] = e
        BY <1>1, <3>1, ConfiguredFiles
      <4>2. f \in Conf(e)
        BY <1>1, <4>1 DEF TargetOK, FilesOfDebs
      <4> QED BY <4>2 DEF NoEssentialConf
    <3> QED BY <3>1
  <2>2. deb[Name(e)] = e /\ status[Name(e)] \in Present \cup Half /\ Name(e) \in Package
    BY <2>1, TheDeb DEF Essentials, EssentialOwned
  <2> QED BY <1>1, <2>2, ConfiguredFiles DEF Present, Half
<1>3. Sound' => Checked' \subseteq Unessential'
  BY <1>1, ConfiguredChecked DEF Essentials, EssentialCompared
<1> QED BY <1>2, <1>3 DEF Essentials, EssentialCompared

LEMMA EssentialsUnpack ==
    ASSUME NoEssentialConf, Base, Essentials, Unpack
    PROVE  Essentials'
<1> DEFINE d == Next1
           p == Name(d)
<1>1. TargetOK /\ d \in Deb /\ p \in Package /\ status[p] \in Unpackable
  BY UnpackFiles
<1>2. pc = "unpack" /\ todo # <<>> /\ pc' = "configure"
  BY Zenon DEF Unpack
<1>3. EssentialOwned'
  <2> SUFFICES ASSUME NEW f \in Path, NEW e \in Deb, Essential(e), file'[f] = e
               PROVE  deb'[Name(e)] = e /\ status'[Name(e)] \in Present \cup Half
    BY DEF EssentialOwned
  <2>1. Name(e) \in Package /\ e # Absent
    BY TheDeb
  <2>2. CASE f \in Regular(d)
    <3>1. e = d
      BY <2>2, UnpackFiles
    <3> QED BY <1>1, <3>1, UnpackFiles DEF Present
  <2>3. CASE f \notin Regular(d)
    <3>1. f \notin Dropped(d) /\ file[f] = e
      BY <2>1, <2>3, UnpackFiles
    <3>2. deb[Name(e)] = e /\ status[Name(e)] \in Present \cup Half
      BY <3>1 DEF Essentials, EssentialOwned
    <3>3. Name(e) # p
      <4> SUFFICES ASSUME Name(e) = p PROVE FALSE
        OBVIOUS
      <4>1. status[p] = "installed"
        BY <1>1, <3>2 DEF Unpackable, Present, Half
      <4>2. f \in Regular(deb[p])
        <5>1. f \in Files(e)
          BY <1>1, <3>1 DEF TargetOK, FilesOfDebs
        <5> QED BY <3>2, <5>1, TheDeb DEF NoEssentialConf
      <4> QED BY <2>3, <3>1, <4>1, <4>2 DEF Dropped, Upgrades
    <3> QED BY <2>1, <3>2, <3>3, UnpackFiles
  <2> QED BY <2>2, <2>3
<1>4. Checked' \subseteq Unessential'
  <2>1. Sound /\ \A x \in Checked : x \in Deb
    BY <1>2, CheckedUnpack, Zenon
  <2>2. Checked \subseteq Unessential
    BY <2>1, Zenon DEF Essentials, EssentialCompared
  <2> QED BY <2>1, <2>2, CheckedUnpackNext, UnpackChecked
<1> QED BY <1>2, <1>3, <1>4 DEF Essentials, EssentialCompared

LEMMA EssentialsUnpackFails ==
    ASSUME Base, Essentials, UnpackFails
    PROVE  Essentials'
<1> DEFINE d == Next1
           p == Name(d)
<1>1. TargetOK /\ d \in Deb /\ p \in Package /\ status[p] \in Unpackable
  BY BaseParts, TheUnpacked, Zenon DEF UnpackFails
<1>2. Stop /\ file' = file
  BY Zenon DEF UnpackFails
<1>3. EssentialOwned'
  <2> SUFFICES ASSUME NEW f \in Path, NEW e \in Deb, Essential(e), file'[f] = e
               PROVE  deb'[Name(e)] = e /\ status'[Name(e)] \in Present \cup Half
    BY DEF EssentialOwned
  <2>1. deb[Name(e)] = e /\ status[Name(e)] \in Present \cup Half /\ Name(e) \in Package
    BY <1>2, TheDeb DEF Essentials, EssentialOwned
  <2>2. CASE Upgrades(d)
    <3>1. deb' = deb /\ \E s \in Half \cup Present : status' = [status EXCEPT ![p] = s]
      BY <2>2, Zenon DEF UnpackFails
    <3> QED BY <1>1, <2>1, <3>1 DEF TargetOK
  <2>3. CASE ~Upgrades(d)
    <3>1. deb' = [deb EXCEPT ![p] = d]
          /\ \E s \in {"half_installed", "not_installed"} : status' = [status EXCEPT ![p] = s]
      BY <2>3, Zenon DEF UnpackFails
    <3>2. Name(e) # p
      BY <1>1, <2>1, <2>3 DEF Upgrades, Unpackable, Present, Half
    <3> QED BY <1>1, <2>1, <3>1, <3>2 DEF TargetOK
  <2> QED BY <2>2, <2>3
<1>4. ~Sound' /\ pc' # "check"
  BY <1>2, StopUnsound DEF Stop
<1> QED BY <1>3, <1>4 DEF Essentials, EssentialCompared

(* What is removed is not essential.                                       *)
LEMMA EssentialsRemoved ==
    ASSUME Base, Essentials, Removed \/ PurgeFails \/ RemoveFails
    PROVE  Essentials'
<1> DEFINE p == cmd.package
<1>1. /\ TargetOK /\ p \in Package /\ deb[p] \in Deb /\ ~Essential(deb[p])
      /\ Stop /\ deb' = deb
  BY BaseParts, TheRemoved, Zenon DEF Removed, PurgeFails, RemoveFails, Delete
<1>2. /\ \A f \in Path : file'[f] \in {file[f], Absent}
      /\ \A q \in Package \ {p} : status'[q] = status[q]
  <2>1. CASE Removed \/ PurgeFails
    <3>1. PICK F \in SUBSET Files(deb[p]), s \in {"not_installed", "config_files", "half_configured"} :
            Delete(p, F) /\ status' = [status EXCEPT ![p] = s]
      BY <2>1, ErasedFiles
    <3> QED BY <1>1, <3>1 DEF Delete, TargetOK
  <2>2. CASE RemoveFails
    BY <1>1, <2>2 DEF RemoveFails, TargetOK
  <2> QED BY <2>1, <2>2
<1>3. EssentialOwned'
  <2> SUFFICES ASSUME NEW f \in Path, NEW e \in Deb, Essential(e), file'[f] = e
               PROVE  deb'[Name(e)] = e /\ status'[Name(e)] \in Present \cup Half
    BY DEF EssentialOwned
  <2>1. file[f] = e
    BY <1>2, TheDeb
  <2>2. deb[Name(e)] = e /\ status[Name(e)] \in Present \cup Half /\ Name(e) \in Package
    BY <2>1, TheDeb DEF Essentials, EssentialOwned
  <2> QED BY <1>1, <1>2, <2>2
<1>4. ~Sound' /\ pc' # "check"
  BY <1>1, StopUnsound DEF Stop
<1> QED BY <1>3, <1>4 DEF Essentials, EssentialCompared

LEMMA EssentialsAdminWrites ==
    ASSUME Base, Essentials, NEW g \in Path, AdminWrites(g)
    PROVE  Essentials'
<1>1. UNCHANGED <<status, deb>> /\ file' = [file EXCEPT ![g] = Admin] /\ pc' = "idle"
  BY DEF AdminWrites, process
<1>2. TargetOK
  BY BaseParts
<1>3. EssentialOwned'
  BY <1>1, <1>2, TheDeb DEF Essentials, EssentialOwned, TargetOK
<1>4. ~Sound'
  BY <1>1, Zenon DEF Sound, Ready
<1> QED BY <1>1, <1>3, <1>4 DEF Essentials, EssentialCompared

LEMMA EssentialsNext ==
    ASSUME NoEssentialConf PROVE Base /\ Essentials /\ [Next]_vars => Essentials'
<1> SUFFICES ASSUME Base, Essentials, [Next]_vars PROVE Essentials'
  OBVIOUS
<1>1. CASE UNCHANGED vars
  <2>1. UNCHANGED <<pc, cmd, kind, at, todo, essentials, status, deb, file>> /\ UNCHANGED errors
    BY <1>1, Zenon DEF vars
  <2>2. Checked' = Checked
    BY <2>1 DEF Checked, Waiting, Explicit, Given
  <2>3. Sound' => Sound
    BY <2>1, Zenon DEF Sound
  <2>4. EssentialOwned' /\ Unessential' = Unessential
    BY <2>1 DEF Essentials, EssentialOwned, Unessential, OldFiles
  <2> QED BY <2>1, <2>2, <2>3, <2>4 DEF Essentials, EssentialCompared
<1>2. CASE \E c \in Command : Install(c) \/ Configure(c) \/ Remove(c)
  <2>1. UNCHANGED target /\ essentials' = None
    BY <1>2, Zenon DEF Install, Configure, Remove, Enter
  <2>2. Checked' = {} \/ ~Sound'
    BY <1>2, CheckedInstall, CheckedConfigure, CheckedRemove
  <2> QED BY <2>1, <2>2, EssentialsTargetSame
<1>3. CASE CheckFiles
  BY <1>3, EssentialsCheckFiles
<1>4. CASE Invalid \/ InstallDone \/ Killed
  <2>1. Stop /\ UNCHANGED target /\ essentials' = None
    BY <1>4, Zenon DEF Invalid, InstallDone, Killed, Stop
  <2> QED BY <2>1, StopUnsound, EssentialsTargetSame
<1>5. CASE Valid
  <2>1. UNCHANGED target /\ cmd' = cmd
    BY <1>5, Zenon DEF Valid
  <2>2. pc' # "check"
    BY <1>5, ValidLists
  <2> QED BY <1>5, <2>1, <2>2, CheckedValid, EssentialsTargetSame
<1>6. CASE PreConfigure \/ ConfigureNext
  <2>1. pc' # "check"
    BY <1>6, Zenon DEF PreConfigure, ConfigureNext, Stop, Fails, After
  <2> QED BY <1>6, <2>1, ConfiguredOne, EssentialsConfigured
<1>7. CASE Unpack
  BY <1>7, EssentialsUnpack
<1>8. CASE UnpackFails
  BY <1>8, EssentialsUnpackFails
<1>9. CASE Removed \/ PurgeFails \/ RemoveFails
  BY <1>9, EssentialsRemoved
<1>10. CASE \E f \in Path : AdminWrites(f)
  BY <1>10, EssentialsAdminWrites
<1> QED BY <1>1, <1>2, <1>3, <1>4, <1>5, <1>6, <1>7, <1>8, <1>9, <1>10, Zenon DEF Next, Work

LEMMA EssentialsAlways == ASSUME NoEssentialConf PROVE Spec => [](Base /\ Essentials)
<1>1. Init => Base /\ Essentials
  BY BaseInit, EssentialsInit
<1>2. Base /\ Essentials /\ [Next]_vars => (Base /\ Essentials)'
  BY BaseNext, EssentialsNext
<1> QED BY <1>1, <1>2, PTL DEF Spec

(* No step replaces a file of an essential package with one of another,    *)
(* unless that one had it before.                                          *)
LEMMA EssentialStep ==
    ASSUME NoEssentialConf, Base, Essentials, [Next]_vars,
           NEW f \in Path, NEW e \in Deb, Essential(e), file[f] = e, file'[f] \in Deb
    PROVE  Name(file'[f]) = Name(e) \/ f \in OldFiles(file'[f])
<1>1. TargetOK /\ e # Absent
  BY BaseParts, TheDeb
<1>2. CASE file' = file
  BY <1>2
<1>3. CASE PreConfigure \/ ConfigureNext
  <2>1. PICK p \in Package, r \in {"installed", "half_configured"} :
          status[p] = "unpacked" /\ Configured(p, r)
    BY <1>3, ConfiguredOne
  <2>2. file'[f] = file[f]
    BY <1>1, <2>1, ConfiguredFiles DEF NoEssentialConf
  <2> QED BY <2>2
<1>4. CASE Unpack
  <2>1. Next1 \in Unessential
    <3>1. pc = "unpack" /\ todo # <<>>
      BY <1>4, Zenon DEF Unpack
    <3>2. Checked \subseteq Unessential
      BY <3>1, CheckedUnpack, Zenon DEF Essentials, EssentialCompared
    <3> QED BY <3>1, <3>2, CheckedUnpack, Zenon
  <2>2. CASE f \in Regular(Next1)
    <3>1. file'[f] = Next1
      BY <1>4, <2>2, UnpackFiles
    <3> QED BY <2>1, <2>2, <3>1 DEF Unessential
  <2>3. CASE f \notin Regular(Next1)
    <3>1. file'[f] = file[f] \/ file'[f] = Absent
      BY <1>4, <2>3, UnpackFiles
    <3> QED BY <3>1, NamesAssumption
  <2> QED BY <2>2, <2>3
<1>5. CASE Removed \/ PurgeFails
  <2>1. file'[f] \in {file[f], Absent}
    <3>1. PICK F \in SUBSET Files(deb[cmd.package]),
               s \in {"not_installed", "config_files", "half_configured"} :
            Delete(cmd.package, F)
      BY <1>5, ErasedFiles
    <3> QED BY <3>1 DEF Delete
  <2> QED BY <2>1, NamesAssumption
<1>6. CASE \E g \in Path : AdminWrites(g)
  <2>1. PICK g \in Path : file' = [file EXCEPT ![g] = Admin]
    BY <1>6 DEF AdminWrites
  <2> QED BY <1>1, <2>1, NamesAssumption DEF TargetOK
<1>7. ASSUME \/ UNCHANGED vars
             \/ \E c \in Command : Install(c) \/ Configure(c) \/ Remove(c)
             \/ CheckFiles \/ Invalid \/ Valid \/ InstallDone \/ Killed
             \/ UnpackFails \/ RemoveFails
      PROVE  file' = file
  BY <1>7, Zenon DEF vars, target, Install, Configure, Remove, Enter, CheckFiles, Invalid, Valid,
     InstallDone, Killed, UnpackFails, RemoveFails
<1> QED BY <1>2, <1>3, <1>4, <1>5, <1>6, <1>7, Zenon DEF Next, Work

(* Not even --force-overwrite lets a package take a file of an essential   *)
(* one that it did not have before (find_essential_file), if no essential  *)
(* package has configuration files.                                        *)
THEOREM EssentialFilesAreKept == ASSUME NoEssentialConf PROVE Spec => EssentialKept
<1> DEFINE A == \A f \in Path, e \in Deb : Essential(e) /\ file[f] = e /\ file'[f] \in Deb =>
                  Name(file'[f]) = Name(e) \/ f \in OldFiles(file'[f])
<1>1. Base /\ Essentials /\ [Next]_vars => [A]_vars
  <2>1. Base /\ Essentials /\ [Next]_vars => A
    BY EssentialStep
  <2> QED BY <2>1
<1>2. Spec => [][A]_vars
  BY <1>1, EssentialsAlways, PTL DEF Spec
<1> QED BY <1>2 DEF EssentialKept

-----------------------------------------------------------------------------
(* The order in which the packages are unpacked.                           *)

(* What a package that waits needs of the command line is before it in the *)
(* list or installed, in that version.                                     *)
Done        == {i \in Given : /\ status[Name(cmd.debs[i])] = "installed"
                              /\ deb[Name(cmd.debs[i])] = cmd.debs[i]}
NeededBy(d) == {i \in Explicit : Name(cmd.debs[i]) \in Image(Needs(d))}
Ahead(k)    == {i \in Given : \E l \in 1..(k - 1) : todo[l] = cmd.debs[i]}
InTurn ==
    pc \in Ready => \A k \in Waiting :
        /\ \E j \in Given : todo[k] = cmd.debs[j]
        /\ NeededBy(todo[k]) \subseteq Ahead(k) \cup Done

LEMMA InTurnStopped ==
    ASSUME Stop
    PROVE  InTurn'
BY Zenon DEF Stop, InTurn, Ready

LEMMA InTurnEnter ==
    ASSUME NEW c \in Command, Install(c) \/ Configure(c) \/ Remove(c)
    PROVE  InTurn'
<1>1. CASE Install(c)
  BY <1>1, Zenon DEF Install, Enter, InTurn, Ready
<1>2. CASE Configure(c)
  <2>1. pc' = "configure" /\ todo' = <<deb[c.package]>>
    BY <1>2, Zenon DEF Configure, Enter
  <2>2. Waiting' = {}
    BY <2>1 DEF Waiting
  <2> QED BY <2>2 DEF InTurn
<1>3. CASE Remove(c)
  BY <1>3, Zenon DEF Remove, Enter, InTurn, Ready
<1> QED BY <1>1, <1>2, <1>3

LEMMA InTurnValid ==
    ASSUME Acyclic, Base, Valid
    PROVE  InTurn'
<1>1. /\ pc' \in {"preconfigure", "unpack"} /\ Waiting' = DOMAIN todo'
      /\ cmd \in Command
  BY ValidLists, Zenon
<1>2. PICK s \in Orders : DOMAIN s = DOMAIN todo' /\
        \A k \in DOMAIN s : s[k] \in Explicit \cap 1..at - 1 /\ todo'[k] = cmd.debs[s[k]]
  BY ValidLists, Zenon
<1>3. UNCHANGED <<cmd, kind>>
  BY Zenon DEF Valid
<1>4. InOrder(s) /\ DOMAIN s = 1..Len(s) /\ Len(s) \in Nat
  BY <1>2 DEF Orders
<1>5. \A k \in DOMAIN s : s[k] \in Given /\ todo'[k] = cmd.debs[s[k]]
  BY <1>2 DEF Explicit
<1>6. ASSUME NEW k \in DOMAIN s, NEW i \in Explicit,
             Name(cmd.debs[i]) \in Image(Needs(cmd.debs[s[k]]))
      PROVE  \E l \in 1..(k - 1) : todo'[l] = cmd.debs[i]
  <2>1. PICK l \in 1..(k - 1) : s[l] = i
    BY <1>4, <1>6 DEF InOrder, Explicit
  <2>2. l \in DOMAIN s
    BY <1>4
  <2> QED BY <1>5, <2>1, <2>2
<1>7. Given' = Given /\ Explicit' = Explicit
  BY <1>3 DEF Given, Explicit
<1>8. \A k \in DOMAIN s : NeededBy(todo[k])' \subseteq Ahead(k)'
  BY <1>3, <1>5, <1>6, <1>7 DEF NeededBy, Ahead, Explicit
<1> QED BY <1>1, <1>2, <1>3, <1>5, <1>7, <1>8 DEF InTurn

(* A package that is configured does not undo what is done.                *)
LEMMA DoneConfigured ==
    ASSUME Base, cmd \in Command, NEW p \in Package, Configured(p, "installed"),
           UNCHANGED <<cmd, kind>>
    PROVE  /\ Done \subseteq Done' /\ Given' = Given /\ Explicit' = Explicit
           /\ \A i \in Given : cmd.debs[i] = deb[p] => i \in Done'
<1>1. Given' = Given /\ Explicit' = Explicit
  BY DEF Given, Explicit
<1>2. \A q \in Package : status'[q] = IF q = p THEN "installed" ELSE status[q]
  BY BaseParts DEF Configured, TargetOK
<1>3. deb' = deb
  BY DEF Configured
<1>4. \A i \in Given : cmd.debs[i] \in Deb /\ Name(cmd.debs[i]) \in Package
  BY TheCommand, TheDeb
<1>5. \A i \in Given : cmd.debs[i] = deb[p] => Name(cmd.debs[i]) = p
  BY <1>4, TheDeb, BaseParts, NamesAssumption DEF TargetOK
<1> QED BY <1>1, <1>2, <1>3, <1>4, <1>5 DEF Done

LEMMA InTurnPreConfigure ==
    ASSUME Base, InTurn, PreConfigure, ~Stop
    PROVE  InTurn'
<1>1. Configured(Name(Item), "installed") /\ Name(Item) \in Package
  BY CheckedPreConfigure
<1>2. UNCHANGED <<cmd, kind, todo>> /\ pc = "preconfigure" /\ pc' \in {"preconfigure", "unpack"}
  BY Zenon DEF PreConfigure, Fails, After
<1>3. cmd \in Command
  BY <1>2, BaseParts DEF ProcessOK, PlaceOK
<1>4. Waiting' = Waiting
  BY <1>2 DEF Waiting
<1>5. Done \subseteq Done' /\ Given' = Given /\ Explicit' = Explicit
  BY <1>1, <1>2, <1>3, DoneConfigured
<1>6. \A k \in Waiting : Ahead(k)' = Ahead(k) /\ NeededBy(todo[k])' = NeededBy(todo[k])
  BY <1>2, <1>5 DEF Ahead, NeededBy
<1>7. \A k \in Waiting : /\ \E j \in Given : todo[k] = cmd.debs[j]
                         /\ NeededBy(todo[k]) \subseteq Ahead(k) \cup Done
  BY <1>2 DEF InTurn, Ready
<1>8. ASSUME NEW k \in Waiting
      PROVE  (NeededBy(todo[k]) \subseteq Ahead(k) \cup Done)'
  <2>1. todo'[k] = todo[k]
    BY <1>2
  <2> QED BY <1>5, <1>6, <1>7, <2>1
<1> QED BY <1>2, <1>4, <1>5, <1>7, <1>8 DEF InTurn

(* The package that is unpacked is of the command line: another version of *)
(* one that was done cannot take its place.                                *)
LEMMA InTurnUnpack ==
    ASSUME Base, InTurn, Unpack
    PROVE  InTurn'
<1>1. TargetOK /\ ProcessOK /\ pc = "unpack" /\ todo # <<>>
  BY BaseParts DEF Unpack
<1>2. /\ Next1 \in Deb /\ Name(Next1) \in Package /\ cmd \in Command
      /\ Next1 = todo[1] /\ 1 \in DOMAIN todo
  BY <1>1, TheUnpacked
<1>3. /\ UNCHANGED <<cmd, kind, todo>> /\ pc' = "configure"
      /\ status' = [status EXCEPT ![Name(Next1)] = "unpacked"]
      /\ deb' = [deb EXCEPT ![Name(Next1)] = Next1]
  BY DEF Unpack
<1>4. todo \in Seq(Deb) /\ Len(todo) \in Nat /\ DOMAIN todo = 1..Len(todo)
  BY <1>1 DEF ProcessOK, PlaceOK
<1>5. Waiting = 1..Len(todo) /\ Waiting' = 2..Len(todo) /\ 1 \in Waiting
  BY <1>1, <1>2, <1>3, <1>4 DEF Waiting
<1>6. \A k \in Waiting : /\ \E j \in Given : todo[k] = cmd.debs[j]
                         /\ NeededBy(todo[k]) \subseteq Ahead(k) \cup Done
  BY <1>1 DEF InTurn, Ready
<1>7. PICK j \in Given : Next1 = cmd.debs[j]
  BY <1>2, <1>5, <1>6
<1>8. \A i \in Given : Name(cmd.debs[i]) \in Package /\ (i # j => Name(cmd.debs[i]) # Name(Next1))
  BY <1>2, <1>7, TheCommand, TheDeb
<1>9. \A q \in Package \ {Name(Next1)} : status'[q] = status[q] /\ deb'[q] = deb[q]
  BY <1>1, <1>3 DEF TargetOK
<1>10. Given' = Given /\ Explicit' = Explicit
  BY <1>3 DEF Given, Explicit
<1>11. \A i \in Done : i = j \/ i \in Done'
  BY <1>3, <1>8, <1>9, <1>10 DEF Done
<1>12. ASSUME NEW k \in 2..Len(todo), NEW i \in NeededBy(todo[k])
       PROVE  (\E l \in 1..(k - 1) : todo[l] = cmd.debs[i]) \/ i \in Done'
  <2>1. k \in Waiting /\ 1 \in 1..(k - 1)
    BY <1>5
  <2>2. (\E l \in 1..(k - 1) : todo[l] = cmd.debs[i]) \/ i \in Done
    BY <1>6, <1>12, <2>1 DEF Ahead
  <2> QED BY <1>2, <1>7, <1>11, <2>1, <2>2
<1>13. \A k \in 2..Len(todo) : NeededBy(todo[k])' \subseteq Ahead(k)' \cup Done'
  BY <1>3, <1>10, <1>12 DEF NeededBy, Ahead, Explicit
<1>14. \A k \in 2..Len(todo) : \E i \in Given' : todo'[k] = cmd'.debs[i]
  <2>1. \A k \in 2..Len(todo) : k \in Waiting
    BY <1>4, <1>5
  <2> QED BY <1>3, <1>6, <1>10, <2>1
<1> QED BY <1>5, <1>13, <1>14 DEF InTurn

(* The first of the list is done, and the others are one place nearer.     *)
LEMMA InTurnConfigureNext ==
    ASSUME Base, InTurn, ConfigureNext, ~Stop
    PROVE  InTurn'
<1>1. TargetOK /\ ProcessOK /\ pc = "configure"
  BY BaseParts DEF ConfigureNext
<1>2. Stages /\ PlaceOK
  BY <1>1 DEF ProcessOK
<1>3. todo # <<>> /\ todo \in Seq(Deb) /\ deb[Name(Next1)] = Next1 /\ cmd \in Command
  BY <1>1, <1>2 DEF Stages, PlaceOK
<1>4. Next1 = todo[1] /\ Name(Next1) \in Package
  BY <1>3, TheDeb DEF Next1
<1>5. /\ Configured(Name(Next1), "installed") /\ UNCHANGED <<cmd, kind>>
      /\ pc' = "unpack" /\ todo' = Tail(todo)
  BY Zenon DEF ConfigureNext, Succeeds, Fails
<1>6. /\ Len(todo) \in Nat \ {0} /\ Len(todo') = Len(todo) - 1
      /\ \A k \in 1..Len(todo') : k + 1 \in 2..Len(todo) /\ todo'[k] = todo[k + 1]
  BY <1>3, <1>5
<1>7. Waiting = 2..Len(todo) /\ Waiting' = 1..Len(todo')
  BY <1>1, <1>5 DEF Waiting
<1>8. \A k \in Waiting : /\ \E j \in Given : todo[k] = cmd.debs[j]
                         /\ NeededBy(todo[k]) \subseteq Ahead(k) \cup Done
  BY <1>1 DEF InTurn, Ready
<1>9. /\ Done \subseteq Done' /\ Given' = Given /\ Explicit' = Explicit
      /\ \A i \in Given : cmd.debs[i] = Next1 => i \in Done'
  <2>1. /\ Done \subseteq Done' /\ Given' = Given /\ Explicit' = Explicit
        /\ \A i \in Given : cmd.debs[i] = deb[Name(Next1)] => i \in Done'
    <3> HIDE DEF Next1
    <3> QED BY <1>3, <1>4, <1>5, DoneConfigured
  <2> QED BY <1>3, <2>1
<1>10. ASSUME NEW k \in 1..Len(todo'), NEW i \in NeededBy(todo[k + 1])
       PROVE  (\E l \in 1..(k - 1) : todo'[l] = cmd.debs[i]) \/ i \in Done'
  <2>1. k + 1 \in Waiting
    BY <1>6, <1>7
  <2>2. (\E l \in 1..((k + 1) - 1) : todo[l] = cmd.debs[i]) \/ i \in Done
    BY <1>8, <1>10, <2>1 DEF Ahead
  <2>3. i \in Given
    BY <1>10 DEF NeededBy, Explicit
  <2>4. ASSUME NEW l \in 1..((k + 1) - 1), todo[l] = cmd.debs[i]
        PROVE  (\E m \in 1..(k - 1) : todo'[m] = cmd.debs[i]) \/ i \in Done'
    <3>1. CASE l = 1
      BY <1>4, <1>9, <2>3, <2>4, <3>1
    <3>2. CASE l # 1
      <4>1. l - 1 \in 1..(k - 1) /\ l - 1 \in 1..Len(todo') /\ (l - 1) + 1 = l
        BY <1>6, <3>2
      <4>2. todo'[l - 1] = todo[l]
        BY <1>6, <4>1
      <4> QED BY <2>4, <4>1, <4>2
    <3> QED BY <3>1, <3>2
  <2> QED BY <1>9, <2>2, <2>4
<1>11. \A k \in 1..Len(todo') : NeededBy(todo[k])' \subseteq Ahead(k)' \cup Done'
  BY <1>5, <1>6, <1>9, <1>10 DEF NeededBy, Ahead, Explicit
<1>12. \A k \in 1..Len(todo') : \E j \in Given' : todo'[k] = cmd'.debs[j]
  BY <1>5, <1>6, <1>7, <1>8, <1>9
<1> QED BY <1>7, <1>11, <1>12 DEF InTurn

LEMMA InTurnNext == ASSUME Acyclic PROVE Base /\ InTurn /\ [Next]_vars => InTurn'
<1> SUFFICES ASSUME Base, InTurn, [Next]_vars PROVE InTurn'
  OBVIOUS
<1>1. CASE UNCHANGED vars
  <2>1. UNCHANGED <<status, deb, pc, cmd, kind, todo>>
    BY <1>1 DEF vars
  <2> QED BY <2>1 DEF InTurn, Waiting, Done, NeededBy, Ahead, Explicit, Given
<1>2. CASE \E c \in Command : Install(c) \/ Configure(c) \/ Remove(c)
  BY <1>2, InTurnEnter
<1>3. CASE Valid
  BY <1>3, InTurnValid
<1>4. CASE Unpack
  BY <1>4, InTurnUnpack
<1>5. CASE (PreConfigure \/ ConfigureNext) /\ ~Stop
  BY <1>5, InTurnPreConfigure, InTurnConfigureNext
<1>6. CASE Stop
  BY <1>6, InTurnStopped
<1>7. CASE CheckFiles \/ \E f \in Path : AdminWrites(f)
  <2>1. pc' = pc /\ pc \notin Ready
    BY <1>7, Zenon DEF CheckFiles, AdminWrites, process, Ready
  <2> QED BY <2>1 DEF InTurn
<1>8. Invalid \/ UnpackFails \/ InstallDone \/ Removed \/ RemoveFails \/ PurgeFails \/ Killed => Stop
  BY Zenon DEF Invalid, UnpackFails, InstallDone, Removed, RemoveFails, PurgeFails, Killed
<1> QED BY <1>1, <1>2, <1>3, <1>4, <1>5, <1>6, <1>7, <1>8, Zenon DEF Next, Work

LEMMA InTurnAlways == ASSUME Acyclic PROVE Spec => [](Base /\ InTurn)
<1>1. Init => Base /\ InTurn
  <2>1. Init => InTurn
    BY Zenon DEF Init, InTurn, Ready
  <2> QED BY <2>1, BaseInit
<1>2. Base /\ InTurn /\ [Next]_vars => (Base /\ InTurn)'
  BY BaseNext, InTurnNext
<1> QED BY <1>1, <1>2, PTL DEF Spec

(* Only Unpack makes another .deb the unpacked one of its package.         *)
LEMMA UnpacksInTurn ==
    ASSUME Base, InTurn, [Next]_vars,
           NEW p \in Package, deb'[p] # deb[p], status'[p] = "unpacked"
    PROVE  NeededBy(Next1) \subseteq Done
<1>1. CASE Unpack
  <2>1. pc = "unpack" /\ todo # <<>>
    BY <1>1 DEF Unpack
  <2>2. Next1 = todo[1] /\ 1 \in DOMAIN todo /\ todo \in Seq(Deb)
    BY <2>1, TheUnpacked, BaseParts DEF ProcessOK, PlaceOK
  <2>3. 1 \in Waiting
    BY <2>1, <2>2 DEF Waiting
  <2>4. NeededBy(todo[1]) \subseteq Ahead(1) \cup Done
    BY <2>1, <2>3 DEF InTurn, Ready
  <2>5. Ahead(1) = {}
    BY DEF Ahead
  <2> QED BY <2>2, <2>4, <2>5
<1>2. CASE UnpackFails
  <2>1. TargetOK
    BY BaseParts
  <2>2. pc = "unpack" /\ todo # <<>>
    BY <1>2 DEF UnpackFails
  <2>3. Next1 \in Deb /\ Name(Next1) \in Package
    BY <2>2, TheUnpacked, BaseParts
  <2>4. deb' = deb \/ \E s \in {"half_installed", "not_installed"} :
                        /\ status' = [status EXCEPT ![Name(Next1)] = s]
                        /\ deb' = [deb EXCEPT ![Name(Next1)] = Next1]
    BY <1>2, Zenon DEF UnpackFails
  <2> QED BY <2>1, <2>3, <2>4 DEF TargetOK
<1>3. ASSUME \/ UNCHANGED vars
             \/ \E c \in Command : Install(c) \/ Configure(c) \/ Remove(c)
             \/ CheckFiles \/ Invalid \/ Valid \/ InstallDone \/ Killed
             \/ PreConfigure \/ ConfigureNext
             \/ Removed \/ RemoveFails \/ PurgeFails
             \/ \E f \in Path : AdminWrites(f)
      PROVE  deb' = deb
  BY <1>3, Zenon DEF vars, target, Install, Configure, Remove, Enter, CheckFiles, Invalid, Valid,
     InstallDone, Killed, PreConfigure, ConfigureNext, Succeeds, Fails, Configured,
     Removed, RemoveFails, PurgeFails, Delete, AdminWrites
<1> QED BY <1>1, <1>2, <1>3, Zenon DEF Next, Work

(* When a package is unpacked, every package of the command line it needs  *)
(* is installed already, in the version of the command line                *)
(* (sort_packages, unpack, configure), if they do not need each other in a *)
(* circle: a level of the packages, that is lower for what is needed, is   *)
(* what ends the walk from a package to what it needs.                     *)
THEOREM DependenciesAreFirst == ASSUME Acyclic PROVE Spec => DependenciesFirst
<1> DEFINE A == (\E p \in Package : deb'[p] # deb[p] /\ status'[p] = "unpacked") =>
                  \A i \in Given :
                      kind[i] = "explicit" /\ Name(cmd.debs[i]) \in Image(Needs(Next1)) =>
                          /\ status[Name(cmd.debs[i])] = "installed"
                          /\ deb[Name(cmd.debs[i])] = cmd.debs[i]
<1>1. Base /\ InTurn /\ [Next]_vars => [A]_vars
  <2> SUFFICES ASSUME Base, InTurn, [Next]_vars,
                      NEW p \in Package, deb'[p] # deb[p], status'[p] = "unpacked"
               PROVE  \A i \in Given :
                        kind[i] = "explicit" /\ Name(cmd.debs[i]) \in Image(Needs(Next1)) =>
                            /\ status[Name(cmd.debs[i])] = "installed"
                            /\ deb[Name(cmd.debs[i])] = cmd.debs[i]
    OBVIOUS
  <2>1. NeededBy(Next1) \subseteq Done
    BY UnpacksInTurn
  <2> QED BY <2>1 DEF NeededBy, Explicit, Done
<1>2. Spec => [][A]_vars
  BY <1>1, InTurnAlways, PTL DEF Spec
<1> QED BY <1>2 DEF DependenciesFirst
==============================================================================

------------------------------- MODULE Version -------------------------------
(***************************************************************************)
(* Debian versions: how a version is broken into parts, compared with      *)
(* another and written back (debian_version.cpp, and versioncmp() and      *)
(* canonicalize_version() of wpkg_util.cpp).  A version is the sequence of *)
(* its characters, letters in lowercase as fix_version() makes them.       *)
(***************************************************************************)
EXTENDS Integers, Sequences

CONSTANTS
    Input,     \* the versions that are compared: sequences of characters
    MaxInt     \* bound: the largest int; a larger one wraps around

Digits  == <<"0", "1", "2", "3", "4", "5", "6", "7", "8", "9">>
Letters == <<"a", "b", "c", "d", "e", "f", "g", "h", "i", "j", "k", "l", "m", "n", "o",
             "p", "q", "r", "s", "t", "u", "v", "w", "x", "y", "z">>
Signs   == <<"+", "-", ".", ":">>       \* in the order of their codes
Image(s) == {s[i] : i \in DOMAIN s}
Digit(c) == c \in Image(Digits)
Value(c) == (CHOOSE i \in DOMAIN Digits : Digits[i] = c) - 1
Char == Image(Digits) \cup Image(Letters) \cup Image(Signs) \cup {"~"}

ASSUME InputAssumption == Input \subseteq Seq(Char)
ASSUME MaxIntAssumption == MaxInt \in Nat

VARIABLES left, right, result
versionvars == <<left, right, result>>

NotCompared == 2     \* result is NotCompared, then -1, 0, 1 or Invalid
Invalid     == 3

Least(S) == CHOOSE i \in S : \A j \in S : i <= j
Most(S)  == CHOOSE i \in S : \A j \in S : i >= j
Sign(n)  == IF n < 0 THEN -1 ELSE IF n > 0 THEN 1 ELSE 0
Wrap(n)  == ((n + MaxInt + 1) % (2 * (MaxInt + 1))) - (MaxInt + 1)
Front(s) == SubSeq(s, 1, Len(s) - 1)
Last(s)  == s[Len(s)]

-----------------------------------------------------------------------------
(* string_to_parts(): a string, a number, a string, a number and so on;    *)
(* val is -1 for a string, which may be empty.                             *)
TextPart(s)   == [str |-> s, val |-> -1]
NumberPart(n) == [str |-> <<>>, val |-> n]

AddDigit(parts, odd, d) ==
    IF parts = <<>> THEN <<TextPart(<<>>), NumberPart(d)>>
    ELSE IF odd THEN Append(parts, NumberPart(d))
    ELSE Append(Front(parts), NumberPart(Wrap(Last(parts).val * 10 + d)))
AddChar(parts, odd, c) ==
    IF odd THEN Append(Front(parts), TextPart(Append(Last(parts).str, c)))
    ELSE Append(parts, TextPart(<<c>>))
Parts(s) ==
    LET upTo[n \in 0..Len(s)] ==
            IF n = 0 THEN <<>>
            ELSE LET parts == upTo[n - 1]
                     odd   == Len(parts) % 2 = 1        \* the last one is a string
                 IN  IF Digit(s[n]) THEN AddDigit(parts, odd, Value(s[n]))
                     ELSE AddChar(parts, odd, s[n])
    IN  upTo[Len(s)]

(* debian_version_t(): the epoch ends at the first ":", the revision       *)
(* begins after the last "-".                                              *)
Where(s, c) == {i \in DOMAIN s : s[i] = c}
Epoch(s) == IF Where(s, ":") = {} THEN <<>> ELSE SubSeq(s, 1, Least(Where(s, ":")) - 1)
Rest(s)  == IF Where(s, ":") = {} THEN s ELSE SubSeq(s, Least(Where(s, ":")) + 1, Len(s))
Upstream(s) ==
    LET r == Rest(s) IN IF Where(r, "-") = {} THEN r ELSE SubSeq(r, 1, Most(Where(r, "-")) - 1)
Revision(s) ==
    LET r == Rest(s) IN
    IF Where(r, "-") = {} THEN <<>> ELSE SubSeq(r, Most(Where(r, "-")) + 1, Len(r))

Values(e) ==                            \* the values of its beginnings
    LET upTo[n \in 0..Len(e)] == IF n = 0 THEN 0 ELSE Wrap(upTo[n - 1] * 10 + Value(e[n]))
    IN  upTo
EpochValue(s) == Values(Epoch(s))[Len(Epoch(s))]
Overflows(e)  == \E n \in DOMAIN e : Values(e)[n] < Values(e)[n - 1]

Valid(s) ==
    /\ Where(s, ":") # {} =>
         Epoch(s) # <<>> /\ Image(Epoch(s)) \subseteq Image(Digits) /\ ~Overflows(Epoch(s))
    /\ Where(Rest(s), "-") # {} => Revision(s) # <<>>
    /\ ":" \notin Image(Revision(s))
    /\ Upstream(s) # <<>> /\ Digit(Upstream(s)[1])

Parsed(s) ==
    [epoch |-> EpochValue(s), version |-> Parts(Upstream(s)), revision |-> Parts(Revision(s))]

-----------------------------------------------------------------------------
(* cmp(): "~" comes first, then the end of the string, the letters and the *)
(* other characters.                                                       *)
Rank(s, i) ==
    IF i > Len(s) THEN 1
    ELSE IF s[i] = "~" THEN 0
    ELSE IF s[i] \in Image(Letters) THEN 1 + CHOOSE n \in DOMAIN Letters : Letters[n] = s[i]
    ELSE 30 + CHOOSE n \in DOMAIN Signs : Signs[n] = s[i]

Shorter(s, t) == IF Len(s) < Len(t) THEN Len(s) ELSE Len(t)

(* compare() of two strings: the first difference, or the end of one.      *)
TextCompare(s, t) ==
    LET unlike == {i \in 1..Shorter(s, t) : Rank(s, i) # Rank(t, i)}
        at     == IF unlike = {} THEN Shorter(s, t) + 1 ELSE Least(unlike)
    IN  Sign(Rank(s, at) - Rank(t, at))

PartCompare(a, b) ==
    IF a.val = -1 THEN TextCompare(a.str, b.str) ELSE Sign(a.val - b.val)

IsZero(a) == IF a.val = -1 THEN a.str \in {<<>>, <<".">>} ELSE a.val = 0

(* compare_parts(): the first difference, else what is longer is larger    *)
(* unless all it adds is zero.                                             *)
Longer(a, n) == \E i \in n + 1..Len(a) : ~IsZero(a[i])
PartsCompareLength(a, b) ==             \* mutation: the longer one is larger
    LET n      == Shorter(a, b)
        unlike == {i \in 1..n : PartCompare(a[i], b[i]) # 0}
    IN  IF unlike # {} THEN PartCompare(a[Least(unlike)], b[Least(unlike)])
        ELSE Sign(Len(a) - Len(b))
PartsCompareOnce(a, b) ==               \* mutation: b is not looked at
    LET n      == Shorter(a, b)
        unlike == {i \in 1..n : PartCompare(a[i], b[i]) # 0}
    IN  IF unlike # {} THEN PartCompare(a[Least(unlike)], b[Least(unlike)])
        ELSE IF Longer(a, n) THEN 1 ELSE 0
PartsCompare(a, b) ==
    LET n      == Shorter(a, b)
        unlike == {i \in 1..n : PartCompare(a[i], b[i]) # 0}
    IN  IF unlike # {} THEN PartCompare(a[Least(unlike)], b[Least(unlike)])
        ELSE IF Longer(a, n) THEN 1 ELSE IF Longer(b, n) THEN -1 ELSE 0

(* compare() of two versions.                                              *)
Compare(v, w) ==
    IF v.epoch # w.epoch THEN Sign(v.epoch - w.epoch)
    ELSE IF PartsCompare(v.version, w.version) # 0 THEN PartsCompare(v.version, w.version)
    ELSE PartsCompare(v.revision, w.revision)

-----------------------------------------------------------------------------
(* to_string(), as the parts it writes: parts_to_string() drops the zeroes *)
(* at the end, the epoch 0 and the revision 0 are left out.                *)
TrimmedAll(parts) ==                    \* mutation: every zero is dropped
    SelectSeq(parts, LAMBDA a : ~IsZero(a))
Trimmed(parts) ==
    LET kept == {n \in 0..Len(parts) : \A i \in n + 1..Len(parts) : i > 2 /\ IsZero(parts[i])}
    IN  SubSeq(parts, 1, Least(kept))
NoRevision(parts) == parts = <<>> \/ (Len(parts) = 2 /\ IsZero(parts[1]) /\ IsZero(parts[2]))

Decimal(n) ==
    LET digits[k \in 0..n] ==
            (IF k < 10 THEN <<>> ELSE digits[k \div 10]) \o <<Digits[1 + (k % 10)]>>
    IN  digits[n]
Written(parts) ==
    LET t == Trimmed(parts)
        upTo[n \in 0..Len(t)] ==
            IF n = 0 THEN <<>>
            ELSE upTo[n - 1] \o IF t[n].val = -1 THEN t[n].str ELSE Decimal(t[n].val)
    IN  upTo[Len(t)]
ToString(v) ==
    (IF v.epoch > 0 \/ ":" \in Image(Written(v.version))
     THEN Append(Decimal(v.epoch), ":") ELSE <<>>)
      \o Written(v.version)
      \o (IF NoRevision(v.revision) THEN <<>> ELSE <<"-">> \o Written(v.revision))

-----------------------------------------------------------------------------
(* versioncmp() compares two versions; one that is not valid throws.       *)
VersionInit == left \in Input /\ right \in Input /\ result = NotCompared

versioncmp ==
    /\ result = NotCompared
    /\ Valid(left) /\ Valid(right)
    /\ result' = Compare(Parsed(left), Parsed(right))
    /\ UNCHANGED <<left, right>>
Throws ==
    /\ result = NotCompared
    /\ ~(Valid(left) /\ Valid(right))
    /\ result' = Invalid
    /\ UNCHANGED <<left, right>>

VersionNext == versioncmp \/ Throws
VersionSpec == VersionInit /\ [][VersionNext]_versionvars
-----------------------------------------------------------------------------
(* Properties.                                                             *)

(* The parts of a version are a string, a number, a string and so on:      *)
(* compare() of two parts throws a logic_error when the kinds differ.      *)
TextChar == Image(Letters) \cup Image(Signs) \cup {"~"}
PartList ==
    {p \in Seq([str : Seq(TextChar), val : Nat \cup {-1}]) :
        \A i \in DOMAIN p : p[i].val = -1 <=> i % 2 = 1}
ParsedVersion == [epoch : Nat, version : PartList, revision : PartList]
Parses(s) == Valid(s) => Parsed(s) \in ParsedVersion
VersionTypeOK == Parses(left) /\ Parses(right) /\ result \in -1..1 \cup {NotCompared, Invalid}

(* No number of a version comes out negative: string_to_parts() does not   *)
(* look whether one is too large for an int.                               *)
Unsigned(parts) == \A i \in DOMAIN parts : i % 2 = 0 => parts[i].val >= 0
NumbersFit ==
    \A s \in Input : Valid(s) => Unsigned(Parts(Upstream(s))) /\ Unsigned(Parts(Revision(s)))

Versions == {s \in Input : Valid(s)}
Order(s, t) == Compare(Parsed(s), Parsed(t))
Compared == result \in -1..1

(* The order does not depend on which version is asked first: the trees,   *)
(* the maximums and the sorts computed with it would.                      *)
Antisymmetric == Compared => result = -Order(right, left)

(* A release: numbers, dots and nothing else between two numbers.          *)
Release(s) ==
    \A i \in DOMAIN s : \/ Digit(s[i])
                        \/ s[i] = "." /\ i < Len(s) /\ Digit(s[i + 1])

(* Releases are ordered as their numbers, what is missing being zero: in   *)
(* particular their order is transitive and 1.2 is 1.2.0.                  *)
Numbers(s, n) ==
    LET p == Parts(s)
    IN  [i \in 1..n |-> IF 2 * i <= Len(p) THEN p[2 * i].val ELSE 0]
Lexicographic(f, g) ==
    IF f = g THEN 0
    ELSE LET i == Least({j \in DOMAIN f : f[j] # g[j]}) IN Sign(f[i] - g[i])
ReleaseOrder ==
    Compared /\ Release(left) /\ Release(right) =>
        LET n == Len(left) + Len(right)
        IN  result = Lexicographic(Numbers(left, n), Numbers(right, n))

(* A version with "~" comes before the version without what follows, when  *)
(* the "~" follows a letter and does not make a revision part of upstream. *)
TildeFirst ==
    Compared /\ Len(left) < Len(right) /\ left = SubSeq(right, 1, Len(left))
      /\ right[Len(left) + 1] = "~" /\ ~Digit(Last(left))
      /\ Where(left, "-") \in {{}, Where(right, "-")}
      => result = 1

(* Versions are in the order Debian gives them (debian_version_compare).   *)
DebianOrder == ReleaseOrder /\ TildeFirst

(* The canonical string of a version is the same version, if a "-" is only *)
(* found before a revision that is written.                                *)
Plain(s) == Where(Upstream(s), "-") = {}
CanonicalSame ==
    Compared /\ Plain(left) =>
        /\ Valid(ToString(Parsed(left)))
        /\ Order(left, ToString(Parsed(left))) = 0

(* The same for every version.                                             *)
CanonicalAlwaysSame == Compared => Order(left, ToString(Parsed(left))) = 0

(* The order is transitive.                                                *)
Transitive ==
    Compared /\ result <= 0 => \A s \in Versions : Order(right, s) <= 0 => Order(left, s) <= 0

(* "~" comes before the end of a version, wherever it is.                  *)
TildeAlwaysFirst ==
    Compared /\ Len(left) < Len(right) /\ left = SubSeq(right, 1, Len(left))
      /\ right[Len(left) + 1] = "~" => result = 1

(* A number never wraps around.                                            *)
NumbersOrdered ==
    Compared /\ (\A i \in DOMAIN left : Digit(left[i])) /\ (\A i \in DOMAIN right : Digit(right[i]))
      /\ Len(left) > Len(right) /\ left[1] # "0" => result = 1
==============================================================================

------------------------------ MODULE Versions -------------------------------
(***************************************************************************)
(* The versions of Updater.cpp: what a valid version is, and which of two  *)
(* is the newer one.                                                       *)
(*                                                                         *)
(* A text is the sequence of its character codes.  A version is what the   *)
(* pattern has captured; the build part, which no comparison reads, is     *)
(* left out.  The empty text is Unknown; a text that the pattern rejects   *)
(* is any other version that is not valid.                                 *)
(***************************************************************************)
EXTENDS Sequences, Integers

Digits == 48..57
Text   == Seq(Nat)

\* pre: the identifiers between the dots; none for a stable version.
Version == [major : Text, minor : Text, patch : Text, pre : Seq(Text)]

Unknown == [major |-> <<>>, minor |-> <<>>, patch |-> <<>>, pre |-> <<>>]

IsNumericIdent(x) == x # <<>> /\ \A i \in 1..Len(x) : x[i] \in Digits

LeadingZero(x) == Len(x) > 1 /\ x[1] = 48

ValidNumber(x) == IsNumericIdent(x) /\ ~LeadingZero(x)

ValidIdentifier(x) == x # <<>> /\ ~(IsNumericIdent(x) /\ LeadingZero(x))

IsValidSemVer(v) ==
  /\ ValidNumber(v.major) /\ ValidNumber(v.minor) /\ ValidNumber(v.patch)
  /\ \A i \in 1..Len(v.pre) : ValidIdentifier(v.pre[i])

-----------------------------------------------------------------------------
\* QString's order: by the first character that differs, then by length.
TextGreater(x, y) ==
  \/ \E i \in 1..Len(x) :
       i <= Len(y) /\ x[i] > y[i] /\ \A j \in 1..(i - 1) : x[j] = y[j]
  \/ Len(x) > Len(y) /\ \A j \in 1..Len(y) : x[j] = y[j]

\* compareNumericIdent(x, y) > 0: of two numbers the longer one, and of two
\* of the same length the greater text.
NumericGreater(x, y) ==
  \/ Len(x) > Len(y)
  \/ Len(x) = Len(y) /\ TextGreater(x, y)

\* One identifier of a pre-release against another: a number is less than a text.
IdentGreater(x, y) ==
  \/ IsNumericIdent(x) /\ IsNumericIdent(y) /\ NumericGreater(x, y)
  \/ ~IsNumericIdent(x) /\ IsNumericIdent(y)
  \/ ~IsNumericIdent(x) /\ ~IsNumericIdent(y) /\ TextGreater(x, y)

\* By the first identifier that differs, then by their number.
PreGreater(p, q) ==
  \/ \E i \in 1..Len(p) :
       i <= Len(q) /\ IdentGreater(p[i], q[i]) /\ \A j \in 1..(i - 1) : p[j] = q[j]
  \/ Len(p) > Len(q) /\ \A j \in 1..Len(q) : p[j] = q[j]

\* Defect: the numbers of a version are compared as texts.
SemVerGreaterAsText(v, w) ==
  \/ TextGreater(v.major, w.major)
  \/ v.major = w.major /\ TextGreater(v.minor, w.minor)
  \/ v.major = w.major /\ v.minor = w.minor /\ TextGreater(v.patch, w.patch)
  \/ /\ v.major = w.major /\ v.minor = w.minor /\ v.patch = w.patch
     /\ \/ v.pre = <<>> /\ w.pre # <<>>
        \/ v.pre # <<>> /\ w.pre # <<>> /\ PreGreater(v.pre, w.pre)

\* compareSemVer(v, w) > 0; a stable version is greater than its pre-releases.
SemVerGreater(v, w) ==
  \/ NumericGreater(v.major, w.major)
  \/ v.major = w.major /\ NumericGreater(v.minor, w.minor)
  \/ v.major = w.major /\ v.minor = w.minor /\ NumericGreater(v.patch, w.patch)
  \/ /\ v.major = w.major /\ v.minor = w.minor /\ v.patch = w.patch
     /\ \/ v.pre = <<>> /\ w.pre # <<>>
        \/ v.pre # <<>> /\ w.pre # <<>> /\ PreGreater(v.pre, w.pre)

\* compareVersions: an invalid version is neither greater nor less.
CompareVersions(v, w) ==
  IF ~IsValidSemVer(v) \/ ~IsValidSemVer(w) THEN 0
  ELSE IF SemVerGreater(v, w) THEN 1
  ELSE IF SemVerGreater(w, v) THEN -1
  ELSE 0

-----------------------------------------------------------------------------
(* The order as semver.org states it, on the values of the numbers.        *)

Value(x) ==
  LET upTo[i \in 0..Len(x)] == IF i = 0 THEN 0 ELSE 10 * upTo[i - 1] + (x[i] - 48)
  IN  upTo[Len(x)]

\* Clause 11: numbers by value, below every other identifier.
Precedes(x, y) ==
  IF IsNumericIdent(x) /\ IsNumericIdent(y) THEN Value(x) < Value(y)
  ELSE IF IsNumericIdent(x) \/ IsNumericIdent(y) THEN IsNumericIdent(x)
  ELSE TextGreater(y, x)

Newer(v, w) ==
  LET core(u) == <<Value(u.major), Value(u.minor), Value(u.patch)>>
      c == core(v)
      d == core(w)
      first == {i \in 1..3 : c[i] # d[i] /\ \A j \in 1..(i - 1) : c[j] = d[j]}
      differ == {i \in 1..Len(v.pre) : i <= Len(w.pre) /\ v.pre[i] # w.pre[i]
                                         /\ \A j \in 1..(i - 1) : v.pre[j] = w.pre[j]}
  IN  IF first # {} THEN \E i \in first : c[i] > d[i]
      ELSE IF v.pre = <<>> \/ w.pre = <<>> THEN v.pre = <<>> /\ w.pre # <<>>
      ELSE IF differ # {} THEN \E i \in differ : Precedes(w.pre[i], v.pre[i])
      ELSE Len(v.pre) > Len(w.pre)
=============================================================================

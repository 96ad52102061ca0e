--------------------------- MODULE VersionsProofs ----------------------------
(***************************************************************************)
(* The order of the versions, for versions of any length: compareSemVer is *)
(* a strict total order, and it is the order of semver.org, although it    *)
(* never computes the value of a number.                                   *)
(*                                                                         *)
(* Induction is by the least counterexample: a set of naturals that is not *)
(* empty has a least element.                                              *)
(***************************************************************************)
EXTENDS Versions, WellFoundedInduction, TLAPS

\* A set of naturals that is not empty has a least element.
LEMMA LeastNat ==
  ASSUME NEW S \in SUBSET Nat, S # {}
  PROVE  \E n \in S : n - 1 \notin S /\ \A m \in S : n <= m
<1>1. PICK n \in S : \A m \in S : <<m, n>> \notin OpToRel(<, Nat)
  BY WFMin, NatLessThanWellFounded, Zenon
<1>2. \A m \in S : ~(m < n)
  BY <1>1, Zenon DEF OpToRel
<1>3. n - 1 \notin S
  BY <1>2
<1> QED
  BY <1>2, <1>3

-----------------------------------------------------------------------------
(* Lexicographic order.                                                    *)

\* x and y agree before position i.
Agree(x, y, i) == \A j \in 1..(i - 1) : x[j] = y[j]

\* Two sequences that are not equal have a first difference, or one continues
\* the other.
LEMMA FirstDifference ==
  ASSUME NEW T, NEW x \in Seq(T), NEW y \in Seq(T), x # y
  PROVE  \/ \E i \in 1..Len(x) : i <= Len(y) /\ x[i] # y[i] /\ Agree(x, y, i)
         \/ Len(x) > Len(y) /\ \A j \in 1..Len(y) : x[j] = y[j]
         \/ Len(y) > Len(x) /\ \A j \in 1..Len(x) : x[j] = y[j]
<1> DEFINE D == {i \in 1..Len(x) : i <= Len(y) /\ x[i] # y[i]}
<1>0. Len(x) \in Nat /\ Len(y) \in Nat /\ D \in SUBSET Nat
  OBVIOUS
<1>1. CASE D # {}
  <2>1. PICK i \in D : \A j \in D : i <= j
    BY <1>0, <1>1, LeastNat
  <2>2. i \in 1..Len(x) /\ i <= Len(y) /\ x[i] # y[i]
    BY <2>1
  <2>3. ASSUME NEW j \in 1..(i - 1) PROVE x[j] = y[j]
    <3>1. j \in 1..Len(x) /\ j <= Len(y) /\ ~(i <= j)
      BY <1>0, <2>2
    <3> QED
      BY <2>1, <3>1
  <2> QED
    BY <2>2, <2>3 DEF Agree
<1>2. CASE D = {}
  <2>1. \A j \in 1..Len(x) : j <= Len(y) => x[j] = y[j]
    BY <1>2
  <2>2. CASE Len(x) = Len(y)
    BY <2>1, <2>2
  <2>3. CASE Len(x) > Len(y)
    BY <1>0, <2>1, <2>3
  <2>4. CASE Len(y) > Len(x)
    BY <1>0, <2>1, <2>4
  <2> QED
    BY <1>0, <2>2, <2>3, <2>4
<1> QED
  BY <1>1, <1>2

\* x above y, when R holds the pairs of elements whose first is the greater.
Above(R, x, y) ==
  \/ \E i \in 1..Len(x) : i <= Len(y) /\ <<x[i], y[i]>> \in R /\ Agree(x, y, i)
  \/ Len(x) > Len(y) /\ \A j \in 1..Len(y) : x[j] = y[j]

LEMMA AboveTotal ==
  ASSUME NEW T, NEW R, \A a, b \in T : a # b => <<a, b>> \in R \/ <<b, a>> \in R,
         NEW x \in Seq(T), NEW y \in Seq(T), x # y
  PROVE  Above(R, x, y) \/ Above(R, y, x)
<1>0. Len(x) \in Nat /\ Len(y) \in Nat
  OBVIOUS
<1>1. ASSUME NEW i \in 1..Len(x), i <= Len(y), x[i] # y[i], Agree(x, y, i)
      PROVE  Above(R, x, y) \/ Above(R, y, x)
  <2>1. i \in 1..Len(y) /\ i <= Len(x)
    BY <1>0, <1>1
  <2>2. x[i] \in T /\ y[i] \in T
    BY <2>1
  <2>3. Agree(y, x, i)
    BY <1>1 DEF Agree
  <2> QED
    BY <1>1, <2>1, <2>2, <2>3 DEF Above
<1>2. CASE Len(x) > Len(y) /\ \A j \in 1..Len(y) : x[j] = y[j]
  BY <1>2 DEF Above
<1>3. CASE Len(y) > Len(x) /\ \A j \in 1..Len(x) : x[j] = y[j]
  BY <1>3 DEF Above
<1> QED
  BY <1>1, <1>2, <1>3, FirstDifference

LEMMA AboveTransitive ==
  ASSUME NEW T, NEW R,
         \A a, b, c \in T : <<a, b>> \in R /\ <<b, c>> \in R => <<a, c>> \in R,
         NEW x \in Seq(T), NEW y \in Seq(T), NEW z \in Seq(T),
         Above(R, x, y), Above(R, y, z)
  PROVE  Above(R, x, z)
<1>0. Len(x) \in Nat /\ Len(y) \in Nat /\ Len(z) \in Nat
  OBVIOUS
<1> DEFINE Differ(p, q, i) == /\ i \in 1..Len(p) /\ i <= Len(q)
                              /\ <<p[i], q[i]>> \in R /\ Agree(p, q, i)
           Longer(p, q) == Len(p) > Len(q) /\ \A j \in 1..Len(q) : p[j] = q[j]
<1>1. ASSUME NEW i, NEW k, Differ(x, y, i), Differ(y, z, k) PROVE Above(R, x, z)
  <2>1. CASE i < k
    <3>1. i <= Len(z) /\ y[i] = z[i] /\ i \in 1..Len(x)
      BY <1>0, <1>1, <2>1 DEF Agree
    <3>2. Agree(x, z, i)
      BY <1>0, <1>1, <2>1 DEF Agree
    <3> QED
      BY <1>1, <3>1, <3>2 DEF Above
  <2>2. CASE k < i
    <3>1. k \in 1..Len(x) /\ k <= Len(z) /\ x[k] = y[k]
      BY <1>0, <1>1, <2>2 DEF Agree
    <3>2. Agree(x, z, k)
      BY <1>0, <1>1, <2>2 DEF Agree
    <3> QED
      BY <1>1, <3>1, <3>2 DEF Above
  <2>3. CASE i = k
    <3>1. i \in 1..Len(x) /\ i \in 1..Len(y) /\ i \in 1..Len(z)
      BY <1>0, <1>1, <2>3
    <3>2. x[i] \in T /\ y[i] \in T /\ z[i] \in T
      BY <3>1
    <3>3. <<x[i], z[i]>> \in R
      BY <1>1, <2>3, <3>2
    <3>4. Agree(x, z, i)
      BY <1>1, <2>3 DEF Agree
    <3> QED
      BY <1>1, <2>3, <3>1, <3>3, <3>4 DEF Above
  <2> QED
    BY <1>0, <1>1, <2>1, <2>2, <2>3
<1>2. ASSUME NEW i, Differ(x, y, i), Longer(y, z) PROVE Above(R, x, z)
  <2>1. CASE i <= Len(z)
    <3>1. y[i] = z[i] /\ i \in 1..Len(x)
      BY <1>0, <1>2, <2>1
    <3>2. Agree(x, z, i)
      BY <1>0, <1>2, <2>1 DEF Agree
    <3> QED
      BY <1>2, <2>1, <3>1, <3>2 DEF Above
  <2>2. CASE i > Len(z)
    <3>1. Len(x) > Len(z) /\ \A j \in 1..Len(z) : x[j] = z[j]
      BY <1>0, <1>2, <2>2 DEF Agree
    <3> QED
      BY <3>1 DEF Above
  <2> QED
    BY <1>0, <1>2, <2>1, <2>2
<1>3. ASSUME NEW k, Longer(x, y), Differ(y, z, k) PROVE Above(R, x, z)
  <2>1. k \in 1..Len(x) /\ x[k] = y[k] /\ k <= Len(z)
    BY <1>0, <1>3
  <2>2. Agree(x, z, k)
    BY <1>0, <1>3 DEF Agree
  <2> QED
    BY <1>3, <2>1, <2>2 DEF Above
<1>4. ASSUME Longer(x, y), Longer(y, z) PROVE Above(R, x, z)
  <2>1. Len(x) > Len(z) /\ \A j \in 1..Len(z) : x[j] = z[j]
    BY <1>0, <1>4
  <2> QED
    BY <2>1 DEF Above
<1>5. (\E i : Differ(x, y, i)) \/ Longer(x, y)
  BY DEF Above
<1>6. (\E k : Differ(y, z, k)) \/ Longer(y, z)
  BY DEF Above
<1> HIDE DEF Differ, Longer
<1> QED
  BY <1>1, <1>2, <1>3, <1>4, <1>5, <1>6

-----------------------------------------------------------------------------
(* Of two versions at most one is the greater.                             *)

\* Of two texts at most one is the greater.
LEMMA TextGreaterOneWay ==
  ASSUME NEW x \in Text, NEW y \in Text, TextGreater(x, y)
  PROVE  ~TextGreater(y, x)
<1> SUFFICES ASSUME TextGreater(y, x) PROVE FALSE
  OBVIOUS
<1> USE DEF Text
<1>1. CASE /\ Len(x) > Len(y) /\ \A j \in 1..Len(y) : x[j] = y[j]
  BY <1>1 DEF TextGreater
<1>2. CASE /\ Len(y) > Len(x) /\ \A j \in 1..Len(x) : x[j] = y[j]
  BY <1>2 DEF TextGreater
<1>3. CASE /\ \E i \in 1..Len(x) :
                i <= Len(y) /\ x[i] > y[i] /\ \A j \in 1..(i - 1) : x[j] = y[j]
           /\ \E i \in 1..Len(y) :
                i <= Len(x) /\ y[i] > x[i] /\ \A j \in 1..(i - 1) : y[j] = x[j]
  <2>1. PICK i \in 1..Len(x) :
          i <= Len(y) /\ x[i] > y[i] /\ \A j \in 1..(i - 1) : x[j] = y[j]
    BY <1>3
  <2>2. PICK k \in 1..Len(y) :
          k <= Len(x) /\ y[k] > x[k] /\ \A j \in 1..(k - 1) : y[j] = x[j]
    BY <1>3
  <2>a. Len(x) \in Nat /\ Len(y) \in Nat
    OBVIOUS
  <2>b. i \in 1..Len(y) /\ k \in 1..Len(x)
    BY <2>a, <2>1, <2>2
  <2>c. \A t \in Seq(Nat) : \A j \in 1..Len(t) : t[j] \in Nat
    OBVIOUS
  <2>3. x[i] \in Nat /\ y[i] \in Nat /\ x[k] \in Nat /\ y[k] \in Nat
    BY <2>b, <2>c
  <2>4. CASE i < k
    BY <2>1, <2>2, <2>3, <2>4
  <2>5. CASE k < i
    BY <2>1, <2>2, <2>3, <2>5
  <2>6. CASE i = k
    BY <2>1, <2>2, <2>3, <2>6
  <2> QED
    BY <2>4, <2>5, <2>6
<1> QED
  BY <1>1, <1>2, <1>3 DEF TextGreater

LEMMA NumericGreaterOneWay ==
  ASSUME NEW x \in Text, NEW y \in Text, NumericGreater(x, y)
  PROVE  ~NumericGreater(y, x) /\ x # y
<1>1. Len(x) \in Nat /\ Len(y) \in Nat
  BY DEF Text
<1>2. CASE Len(x) > Len(y)
  BY <1>1, <1>2 DEF NumericGreater
<1>3. CASE Len(x) = Len(y) /\ TextGreater(x, y)
  BY <1>1, <1>3, TextGreaterOneWay DEF NumericGreater
<1> QED
  BY <1>2, <1>3 DEF NumericGreater

LEMMA IdentGreaterOneWay ==
  ASSUME NEW x \in Text, NEW y \in Text, IdentGreater(x, y)
  PROVE  ~IdentGreater(y, x) /\ x # y
<1>1. CASE IsNumericIdent(x) /\ IsNumericIdent(y) /\ NumericGreater(x, y)
  BY <1>1, NumericGreaterOneWay DEF IdentGreater
<1>2. CASE ~IsNumericIdent(x) /\ IsNumericIdent(y)
  BY <1>2 DEF IdentGreater
<1>3. CASE ~IsNumericIdent(x) /\ ~IsNumericIdent(y) /\ TextGreater(x, y)
  BY <1>3, TextGreaterOneWay DEF IdentGreater
<1> QED
  BY <1>1, <1>2, <1>3 DEF IdentGreater

LEMMA PreGreaterOneWay ==
  ASSUME NEW p \in Seq(Text), NEW q \in Seq(Text), PreGreater(p, q)
  PROVE  ~PreGreater(q, p)
<1> SUFFICES ASSUME PreGreater(q, p) PROVE FALSE
  OBVIOUS
<1>0. Len(p) \in Nat /\ Len(q) \in Nat
  OBVIOUS
<1>a. \A i \in 1..Len(p) : i <= Len(q) => p[i] \in Text /\ q[i] \in Text
  <2> TAKE i \in 1..Len(p)
  <2> HAVE i <= Len(q)
  <2> QED
    BY <1>0
<1>1. CASE /\ \E i \in 1..Len(p) :
                i <= Len(q) /\ IdentGreater(p[i], q[i]) /\ \A j \in 1..(i - 1) : p[j] = q[j]
           /\ \E i \in 1..Len(q) :
                i <= Len(p) /\ IdentGreater(q[i], p[i]) /\ \A j \in 1..(i - 1) : q[j] = p[j]
  <2>1. PICK i \in 1..Len(p) :
          i <= Len(q) /\ IdentGreater(p[i], q[i]) /\ \A j \in 1..(i - 1) : p[j] = q[j]
    BY <1>1
  <2>2. PICK k \in 1..Len(q) :
          k <= Len(p) /\ IdentGreater(q[k], p[k]) /\ \A j \in 1..(k - 1) : q[j] = p[j]
    BY <1>1
  <2>3. k \in 1..Len(p)
    BY <1>0, <2>2
  <2>4. p[i] # q[i] /\ ~IdentGreater(q[i], p[i])
    BY <1>a, <2>1, IdentGreaterOneWay
  <2>5. q[k] # p[k] /\ ~IdentGreater(p[k], q[k])
    BY <1>a, <2>2, <2>3, IdentGreaterOneWay
  <2>6. i = k
    BY <1>0, <2>1, <2>2, <2>4, <2>5
  <2> QED
    BY <2>2, <2>4, <2>6
<1>2. CASE Len(p) > Len(q) /\ \A j \in 1..Len(q) : p[j] = q[j]
  <2>1. PICK k \in 1..Len(q) :
          k <= Len(p) /\ IdentGreater(q[k], p[k]) /\ \A j \in 1..(k - 1) : q[j] = p[j]
    BY <1>0, <1>2 DEF PreGreater
  <2> QED
    BY <1>0, <1>a, <1>2, <2>1, IdentGreaterOneWay
<1>3. CASE Len(q) > Len(p) /\ \A j \in 1..Len(p) : q[j] = p[j]
  <2>1. PICK k \in 1..Len(p) :
          k <= Len(q) /\ IdentGreater(p[k], q[k]) /\ \A j \in 1..(k - 1) : p[j] = q[j]
    BY <1>0, <1>3 DEF PreGreater
  <2> QED
    BY <1>0, <1>a, <1>3, <2>1, IdentGreaterOneWay
<1> QED
  BY <1>1, <1>2, <1>3 DEF PreGreater

\* Of two versions at most one is newer for compareSemVer, so that an update
\* and the way back are never both offered.
THEOREM SemVerGreaterOneWay ==
  ASSUME NEW v \in Version, NEW w \in Version, SemVerGreater(v, w)
  PROVE  ~SemVerGreater(w, v)
<1>1. /\ v.major \in Text /\ v.minor \in Text /\ v.patch \in Text /\ v.pre \in Seq(Text)
      /\ w.major \in Text /\ w.minor \in Text /\ w.patch \in Text /\ w.pre \in Seq(Text)
  BY DEF Version
<1>2. CASE NumericGreater(v.major, w.major)
  <2>1. ~NumericGreater(w.major, v.major) /\ v.major # w.major
    BY <1>1, <1>2, NumericGreaterOneWay
  <2> QED
    BY <2>1, ZenonT(20) DEF SemVerGreater
<1>3. CASE v.major = w.major /\ NumericGreater(v.minor, w.minor)
  <2>1. ~NumericGreater(w.minor, v.minor) /\ v.minor # w.minor
    BY <1>1, <1>3, NumericGreaterOneWay
  <2>2. ~NumericGreater(w.major, v.major)
    BY <1>1, <1>3, NumericGreaterOneWay
  <2> QED
    BY <2>1, <2>2, ZenonT(20) DEF SemVerGreater
<1>4. CASE v.major = w.major /\ v.minor = w.minor /\ NumericGreater(v.patch, w.patch)
  <2>1. ~NumericGreater(w.patch, v.patch) /\ v.patch # w.patch
    BY <1>1, <1>4, NumericGreaterOneWay
  <2>2. ~NumericGreater(w.major, v.major) /\ ~NumericGreater(w.minor, v.minor)
    BY <1>1, <1>4, NumericGreaterOneWay
  <2> QED
    BY <2>1, <2>2, ZenonT(20) DEF SemVerGreater
<1>5. CASE /\ v.major = w.major /\ v.minor = w.minor /\ v.patch = w.patch
           /\ \/ v.pre = <<>> /\ w.pre # <<>>
              \/ v.pre # <<>> /\ w.pre # <<>> /\ PreGreater(v.pre, w.pre)
  <2>1. /\ ~NumericGreater(w.major, v.major) /\ ~NumericGreater(w.minor, v.minor)
        /\ ~NumericGreater(w.patch, v.patch)
    BY <1>1, <1>5, NumericGreaterOneWay
  <2>2. PreGreater(v.pre, w.pre) => ~PreGreater(w.pre, v.pre)
    BY <1>1, PreGreaterOneWay
  <2> QED
    BY <1>5, <2>1, <2>2, ZenonT(20) DEF SemVerGreater
<1> QED
  BY <1>2, <1>3, <1>4, <1>5, ZenonT(20) DEF SemVerGreater

-----------------------------------------------------------------------------
(* Of two that are not equal one is the greater, and greater is transitive. *)

TextOrder  == {p \in Nat \X Nat : p[1] > p[2]}
IdentOrder == {p \in Text \X Text : IdentGreater(p[1], p[2])}

LEMMA TextGreaterIsAbove ==
  ASSUME NEW x \in Text, NEW y \in Text
  PROVE  TextGreater(x, y) <=> Above(TextOrder, x, y)
<1>1. Len(x) \in Nat /\ Len(y) \in Nat
  BY DEF Text
<1>2. \A i \in 1..Len(x) : i <= Len(y) => x[i] \in Nat /\ y[i] \in Nat
  BY <1>1 DEF Text
<1>3. \A i \in 1..Len(x) : i <= Len(y) => (x[i] > y[i] <=> <<x[i], y[i]>> \in TextOrder)
  BY <1>2 DEF TextOrder
<1> QED
  BY <1>3 DEF TextGreater, Above, Agree

LEMMA TextGreaterTotal ==
  ASSUME NEW x \in Text, NEW y \in Text, x # y
  PROVE  TextGreater(x, y) \/ TextGreater(y, x)
<1>1. \A a, b \in Nat : a # b => <<a, b>> \in TextOrder \/ <<b, a>> \in TextOrder
  BY DEF TextOrder
<1>2. Above(TextOrder, x, y) \/ Above(TextOrder, y, x)
  BY <1>1, AboveTotal DEF Text
<1> QED
  BY <1>2, TextGreaterIsAbove

LEMMA TextGreaterTransitive ==
  ASSUME NEW x \in Text, NEW y \in Text, NEW z \in Text,
         TextGreater(x, y), TextGreater(y, z)
  PROVE  TextGreater(x, z)
<1>1. \A a, b, c \in Nat :
        <<a, b>> \in TextOrder /\ <<b, c>> \in TextOrder => <<a, c>> \in TextOrder
  BY DEF TextOrder
<1>2. Above(TextOrder, x, y) /\ Above(TextOrder, y, z)
  BY TextGreaterIsAbove
<1>3. Above(TextOrder, x, z)
  BY <1>1, <1>2, AboveTransitive DEF Text
<1> QED
  BY <1>3, TextGreaterIsAbove

LEMMA NumericGreaterTotal ==
  ASSUME NEW x \in Text, NEW y \in Text, x # y
  PROVE  NumericGreater(x, y) \/ NumericGreater(y, x)
<1>1. Len(x) \in Nat /\ Len(y) \in Nat
  BY DEF Text
<1> QED
  BY <1>1, TextGreaterTotal DEF NumericGreater

LEMMA NumericGreaterTransitive ==
  ASSUME NEW x \in Text, NEW y \in Text, NEW z \in Text,
         NumericGreater(x, y), NumericGreater(y, z)
  PROVE  NumericGreater(x, z)
<1>1. Len(x) \in Nat /\ Len(y) \in Nat /\ Len(z) \in Nat
  BY DEF Text
<1> QED
  BY <1>1, TextGreaterTransitive DEF NumericGreater

LEMMA IdentGreaterTotal ==
  ASSUME NEW x \in Text, NEW y \in Text, x # y
  PROVE  IdentGreater(x, y) \/ IdentGreater(y, x)
BY NumericGreaterTotal, TextGreaterTotal DEF IdentGreater

LEMMA IdentGreaterTransitive ==
  ASSUME NEW x \in Text, NEW y \in Text, NEW z \in Text,
         IdentGreater(x, y), IdentGreater(y, z)
  PROVE  IdentGreater(x, z)
BY NumericGreaterTransitive, TextGreaterTransitive DEF IdentGreater

LEMMA PreGreaterIsAbove ==
  ASSUME NEW p \in Seq(Text), NEW q \in Seq(Text)
  PROVE  PreGreater(p, q) <=> Above(IdentOrder, p, q)
<1>1. Len(p) \in Nat /\ Len(q) \in Nat
  OBVIOUS
<1>2. \A i \in 1..Len(p) : i <= Len(q) => p[i] \in Text /\ q[i] \in Text
  BY <1>1
<1>3. \A i \in 1..Len(p) :
        i <= Len(q) => (IdentGreater(p[i], q[i]) <=> <<p[i], q[i]>> \in IdentOrder)
  BY <1>2 DEF IdentOrder
<1> QED
  BY <1>3 DEF PreGreater, Above, Agree

LEMMA PreGreaterTotal ==
  ASSUME NEW p \in Seq(Text), NEW q \in Seq(Text), p # q
  PROVE  PreGreater(p, q) \/ PreGreater(q, p)
<1>1. \A x, y \in Text : x # y => <<x, y>> \in IdentOrder \/ <<y, x>> \in IdentOrder
  BY IdentGreaterTotal DEF IdentOrder
<1>2. Above(IdentOrder, p, q) \/ Above(IdentOrder, q, p)
  BY <1>1, AboveTotal
<1> QED
  BY <1>2, PreGreaterIsAbove

LEMMA PreGreaterTransitive ==
  ASSUME NEW p \in Seq(Text), NEW q \in Seq(Text), NEW r \in Seq(Text),
         PreGreater(p, q), PreGreater(q, r)
  PROVE  PreGreater(p, r)
<1>1. \A x, y, z \in Text :
        <<x, y>> \in IdentOrder /\ <<y, z>> \in IdentOrder => <<x, z>> \in IdentOrder
  BY IdentGreaterTransitive DEF IdentOrder
<1>2. Above(IdentOrder, p, q) /\ Above(IdentOrder, q, r)
  BY PreGreaterIsAbove
<1>3. Above(IdentOrder, p, r)
  BY <1>1, <1>2, AboveTransitive
<1> QED
  BY <1>3, PreGreaterIsAbove

LEMMA VersionParts ==
  ASSUME NEW v \in Version
  PROVE  /\ v.major \in Text /\ v.minor \in Text /\ v.patch \in Text /\ v.pre \in Seq(Text)
         /\ v = [major |-> v.major, minor |-> v.minor, patch |-> v.patch, pre |-> v.pre]
BY DEF Version

\* compareSemVer tells any two versions apart: of two that differ it has one
\* for the greater.
THEOREM SemVerGreaterTotal ==
  ASSUME NEW v \in Version, NEW w \in Version, v # w
  PROVE  SemVerGreater(v, w) \/ SemVerGreater(w, v)
<1>1. \/ v.major # w.major \/ v.minor # w.minor \/ v.patch # w.patch \/ v.pre # w.pre
  BY VersionParts
<1>2. CASE v.major # w.major
  <2>1. NumericGreater(v.major, w.major) \/ NumericGreater(w.major, v.major)
    BY <1>2, VersionParts, NumericGreaterTotal
  <2> QED
    BY <2>1 DEF SemVerGreater
<1>3. CASE v.major = w.major /\ v.minor # w.minor
  <2>1. NumericGreater(v.minor, w.minor) \/ NumericGreater(w.minor, v.minor)
    BY <1>3, VersionParts, NumericGreaterTotal
  <2> QED
    BY <1>3, <2>1 DEF SemVerGreater
<1>4. CASE v.major = w.major /\ v.minor = w.minor /\ v.patch # w.patch
  <2>1. NumericGreater(v.patch, w.patch) \/ NumericGreater(w.patch, v.patch)
    BY <1>4, VersionParts, NumericGreaterTotal
  <2> QED
    BY <1>4, <2>1 DEF SemVerGreater
<1>5. CASE v.major = w.major /\ v.minor = w.minor /\ v.patch = w.patch /\ v.pre # w.pre
  <2>1. PreGreater(v.pre, w.pre) \/ PreGreater(w.pre, v.pre)
    BY <1>5, VersionParts, PreGreaterTotal
  <2> QED
    BY <1>5, <2>1 DEF SemVerGreater
<1> QED
  BY <1>1, <1>2, <1>3, <1>4, <1>5

\* "Newer than" of compareSemVer carries over: what is greater than a version
\* is greater than everything below it, however the pre-releases mix numbers
\* and words.
THEOREM SemVerGreaterTransitive ==
  ASSUME NEW u \in Version, NEW v \in Version, NEW w \in Version,
         SemVerGreater(u, v), SemVerGreater(v, w)
  PROVE  SemVerGreater(u, w)
<1>1. /\ u.major \in Text /\ u.minor \in Text /\ u.patch \in Text /\ u.pre \in Seq(Text)
      /\ v.major \in Text /\ v.minor \in Text /\ v.patch \in Text /\ v.pre \in Seq(Text)
      /\ w.major \in Text /\ w.minor \in Text /\ w.patch \in Text /\ w.pre \in Seq(Text)
  BY VersionParts
<1>2. NumericGreater(u.major, v.major) /\ NumericGreater(v.major, w.major)
        => NumericGreater(u.major, w.major)
  BY <1>1, NumericGreaterTransitive
<1>3. NumericGreater(u.minor, v.minor) /\ NumericGreater(v.minor, w.minor)
        => NumericGreater(u.minor, w.minor)
  BY <1>1, NumericGreaterTransitive
<1>4. NumericGreater(u.patch, v.patch) /\ NumericGreater(v.patch, w.patch)
        => NumericGreater(u.patch, w.patch)
  BY <1>1, NumericGreaterTransitive
<1>5. PreGreater(u.pre, v.pre) /\ PreGreater(v.pre, w.pre) => PreGreater(u.pre, w.pre)
  BY <1>1, PreGreaterTransitive
<1> QED
  BY <1>2, <1>3, <1>4, <1>5, ZenonT(60) DEF SemVerGreater

-----------------------------------------------------------------------------
(* The values of the numbers.                                              *)

\* The value of the first i digits of x, for i up to the length of x.
UpTo(x) == CHOOSE f : f = [i \in 0..Len(x) |->
                             IF i = 0 THEN 0 ELSE 10 * f[i - 1] + (x[i] - 48)]

LEMMA UpToDefined ==
  ASSUME NEW x \in Text
  PROVE  UpTo(x) = [i \in 0..Len(x) |->
                      IF i = 0 THEN 0 ELSE 10 * UpTo(x)[i - 1] + (x[i] - 48)]
<1> DEFINE G(n, f) == f = [i \in 0..n |-> IF i = 0 THEN 0 ELSE 10 * f[i - 1] + (x[i] - 48)]
           Bad == {n \in 0..Len(x) : ~\E f : G(n, f)}
<1>0. Len(x) \in Nat /\ Bad \in SUBSET Nat
  BY DEF Text
<1>1. ASSUME Bad # {} PROVE FALSE
  <2>1. PICK n \in Bad : n - 1 \notin Bad
    BY <1>0, <1>1, LeastNat
  <2>2. n # 0
    <3> SUFFICES \E f : G(0, f)
      BY <2>1
    <3> WITNESS [i \in 0..0 |-> 0]
    <3> QED
      OBVIOUS
  <2>3. n \in Nat /\ n - 1 \in Nat /\ n - 1 \in 0..Len(x)
    BY <1>0, <2>1, <2>2
  <2>4. PICK g : G(n - 1, g)
    BY <2>1, <2>3
  <2> DEFINE f == [i \in 0..n |-> IF i = n THEN 10 * g[n - 1] + (x[n] - 48) ELSE g[i]]
  <2>5. G(n, f)
    <3>1. \A i \in 0..n : f[i] = IF i = 0 THEN 0 ELSE 10 * f[i - 1] + (x[i] - 48)
      <4> TAKE i \in 0..n
      <4>1. CASE i = n
        BY <2>2, <2>3, <4>1
      <4>2. CASE i # n /\ i # 0
        <5>1. i \in 0..(n - 1) /\ i - 1 \in 0..n /\ i - 1 # n
          BY <2>3, <4>2
        <5>2. g[i] = 10 * g[i - 1] + (x[i] - 48)
          BY <2>4, <4>2, <5>1
        <5> QED
          BY <4>2, <5>1, <5>2
      <4>3. CASE i = 0
        <5>1. 0 \in 0..(n - 1)
          BY <2>3
        <5>2. g[0] = 0
          BY <2>4, <5>1
        <5> QED
          BY <2>2, <4>3, <5>2
      <4> QED
        BY <4>1, <4>2, <4>3
    <3> QED
      BY <3>1
  <2>6. \E h : G(n, h)
    BY <2>5
  <2> QED
    BY <2>1, <2>6
<1>2. \E f : G(Len(x), f)
  BY <1>0, <1>1
<1> QED
  BY <1>2 DEF UpTo

\* One digit more, and the whole of it.
LEMMA UpToSteps ==
  ASSUME NEW x \in Text
  PROVE  /\ UpTo(x)[0] = 0
         /\ \A i \in 1..Len(x) : UpTo(x)[i] = 10 * UpTo(x)[i - 1] + (x[i] - 48)
         /\ Value(x) = UpTo(x)[Len(x)]
<1>1. Len(x) \in Nat
  BY DEF Text
<1>2. UpTo(x)[0] = 0
  BY <1>1, UpToDefined
<1>3. \A i \in 1..Len(x) : UpTo(x)[i] = 10 * UpTo(x)[i - 1] + (x[i] - 48)
  <2> TAKE i \in 1..Len(x)
  <2>1. i \in 0..Len(x) /\ i # 0
    BY <1>1
  <2> QED
    BY <2>1, UpToDefined
<1>4. Value(x) = UpTo(x)[Len(x)]
  BY DEF Value, UpTo
<1> QED
  BY <1>2, <1>3, <1>4

LEMMA Digit ==
  ASSUME NEW x \in Text, IsNumericIdent(x), NEW i \in 1..Len(x)
  PROVE  x[i] - 48 \in 0..9 /\ (x[i] # 48 => x[i] - 48 >= 1)
<1>1. x[i] \in 48..57
  BY DEF IsNumericIdent, Digits
<1> QED
  BY <1>1

LEMMA OneDigitMore ==
  ASSUME NEW p \in Nat, NEW d \in 0..9
  PROVE  /\ 10 * p + d \in Nat
         /\ p >= 1 => 10 * p + d >= 1
         /\ \A q \in Nat, e \in 0..9 : p > q => 10 * p + d > 10 * q + e
OBVIOUS

LEMMA UpToNat ==
  ASSUME NEW x \in Text, IsNumericIdent(x)
  PROVE  \A i \in 0..Len(x) : UpTo(x)[i] \in Nat
<1> DEFINE Bad == {i \in 0..Len(x) : UpTo(x)[i] \notin Nat}
<1>0. Len(x) \in Nat /\ Bad \in SUBSET Nat
  BY DEF Text
<1>1. ASSUME Bad # {} PROVE FALSE
  <2>1. PICK i \in Bad : i - 1 \notin Bad
    BY <1>0, <1>1, LeastNat
  <2>2. i # 0
    BY <2>1, UpToSteps
  <2>3. i \in 1..Len(x) /\ i - 1 \in 0..Len(x) /\ i - 1 \notin Bad
    BY <1>0, <2>1, <2>2
  <2>4. UpTo(x)[i - 1] \in Nat /\ x[i] - 48 \in 0..9
    BY <2>3, Digit
  <2>5. UpTo(x)[i] = 10 * UpTo(x)[i - 1] + (x[i] - 48)
    BY <2>3, UpToSteps
  <2>6. UpTo(x)[i] \in Nat
    BY <2>4, <2>5, OneDigitMore
  <2> QED
    BY <2>1, <2>6
<1> QED
  BY <1>1

\* Once ahead, a number stays ahead: no digits that follow make up for it.
LEMMA StaysAhead ==
  ASSUME NEW x \in Text, NEW y \in Text, IsNumericIdent(x), IsNumericIdent(y),
         NEW a \in 0..Len(x), NEW b \in 0..Len(y), UpTo(x)[a] > UpTo(y)[b]
  PROVE  \A k \in Nat : a + k <= Len(x) /\ b + k <= Len(y)
                          => UpTo(x)[a + k] > UpTo(y)[b + k]
<1> DEFINE Bad == {k \in Nat : /\ a + k <= Len(x) /\ b + k <= Len(y)
                               /\ ~(UpTo(x)[a + k] > UpTo(y)[b + k])}
<1>0. Len(x) \in Nat /\ Len(y) \in Nat /\ Bad \in SUBSET Nat /\ a \in Nat /\ b \in Nat
  BY DEF Text
<1>1. ASSUME Bad # {} PROVE FALSE
  <2>1. PICK k \in Bad : k - 1 \notin Bad
    BY <1>0, <1>1, LeastNat
  <2>2. k \in Nat /\ a + k <= Len(x) /\ b + k <= Len(y)
    BY <2>1
  <2>3. k # 0
    BY <1>0, <2>1
  <2>4. k - 1 \in Nat /\ a + (k - 1) <= Len(x) /\ b + (k - 1) <= Len(y)
    BY <1>0, <2>2, <2>3
  <2>5. UpTo(x)[a + (k - 1)] > UpTo(y)[b + (k - 1)]
    BY <2>1, <2>4
  <2>6. /\ a + k \in 1..Len(x) /\ b + k \in 1..Len(y)
        /\ (a + k) - 1 = a + (k - 1) /\ (b + k) - 1 = b + (k - 1)
        /\ a + (k - 1) \in 0..Len(x) /\ b + (k - 1) \in 0..Len(y)
    BY <1>0, <2>2, <2>3
  <2>7. /\ UpTo(x)[a + k] = 10 * UpTo(x)[a + (k - 1)] + (x[a + k] - 48)
        /\ UpTo(y)[b + k] = 10 * UpTo(y)[b + (k - 1)] + (y[b + k] - 48)
    BY <2>6, UpToSteps
  <2>8. x[a + k] - 48 \in 0..9 /\ y[b + k] - 48 \in 0..9
    BY <2>6, Digit
  <2>9. UpTo(x)[a + (k - 1)] \in Nat /\ UpTo(y)[b + (k - 1)] \in Nat
    BY <2>6, UpToNat
  <2>10. 10 * UpTo(x)[a + (k - 1)] + (x[a + k] - 48)
           > 10 * UpTo(y)[b + (k - 1)] + (y[b + k] - 48)
    BY <2>5, <2>8, <2>9, OneDigitMore
  <2>11. UpTo(x)[a + k] > UpTo(y)[b + k]
    BY <2>7, <2>10
  <2> QED
    BY <2>1, <2>11
<1> QED
  BY <1>0, <1>1

\* Equal digits have equal values.
LEMMA SameSoFar ==
  ASSUME NEW x \in Text, NEW y \in Text, NEW n \in Nat, n <= Len(x), n <= Len(y),
         \A j \in 1..n : x[j] = y[j]
  PROVE  UpTo(x)[n] = UpTo(y)[n]
<1> DEFINE Bad == {i \in 0..n : UpTo(x)[i] # UpTo(y)[i]}
<1>0. Len(x) \in Nat /\ Len(y) \in Nat /\ Bad \in SUBSET Nat
  BY DEF Text
<1>1. ASSUME Bad # {} PROVE FALSE
  <2>1. PICK i \in Bad : i - 1 \notin Bad
    BY <1>0, <1>1, LeastNat
  <2>2. i # 0
    BY <2>1, UpToSteps
  <2>3. i \in 1..Len(x) /\ i \in 1..Len(y) /\ i \in 1..n /\ i - 1 \in 0..n /\ i - 1 \notin Bad
    BY <1>0, <2>1, <2>2
  <2>4. /\ UpTo(x)[i] = 10 * UpTo(x)[i - 1] + (x[i] - 48)
        /\ UpTo(y)[i] = 10 * UpTo(y)[i - 1] + (y[i] - 48)
    BY <2>3, UpToSteps
  <2>5. UpTo(x)[i - 1] = UpTo(y)[i - 1] /\ x[i] = y[i]
    BY <2>3
  <2> QED
    BY <2>1, <2>4, <2>5
<1> QED
  BY <1>1

LEMMA ValueNat ==
  ASSUME NEW x \in Text, IsNumericIdent(x)
  PROVE  Value(x) \in Nat
<1>1. Len(x) \in 0..Len(x)
  BY DEF Text
<1> QED
  BY <1>1, UpToNat, UpToSteps

\* What compareNumericIdent has for the greater number is the greater number.
LEMMA NumericGreaterHasGreaterValue ==
  ASSUME NEW x \in Text, NEW y \in Text, ValidNumber(x), ValidNumber(y),
         NumericGreater(x, y)
  PROVE  Value(x) > Value(y)
<1>0. Len(x) \in Nat /\ Len(y) \in Nat /\ IsNumericIdent(x) /\ IsNumericIdent(y)
  BY DEF Text, ValidNumber
<1>1. CASE Len(x) > Len(y)
  <2> DEFINE a == Len(x) - Len(y)
  <2>1. Len(y) # 0
    BY <1>0 DEF IsNumericIdent, Text
  <2>2. x[1] # 48 /\ 1 \in 1..Len(x)
    BY <1>0, <1>1, <2>1 DEF ValidNumber, LeadingZero
  <2>3. UpTo(x)[1] >= 1
    <3>1. UpTo(x)[1] = 10 * UpTo(x)[1 - 1] + (x[1] - 48) /\ UpTo(x)[0] = 0
      BY <2>2, UpToSteps
    <3>2. x[1] - 48 >= 1 /\ x[1] - 48 \in 0..9
      BY <1>0, <2>2, Digit
    <3> QED
      BY <3>1, <3>2
  <2>4. \A i \in 1..Len(x) : UpTo(x)[i] >= 1
    <3> DEFINE Bad == {i \in 1..Len(x) : ~(UpTo(x)[i] >= 1)}
    <3>1. ASSUME Bad # {} PROVE FALSE
      <4>0. Bad \in SUBSET Nat
        BY <1>0
      <4>1. PICK i \in Bad : i - 1 \notin Bad
        BY <3>1, <4>0, LeastNat
      <4>2. i # 1
        BY <2>3, <4>1
      <4>3. i \in 1..Len(x) /\ i - 1 \in 1..Len(x) /\ i - 1 \notin Bad
        BY <1>0, <4>1, <4>2
      <4>4. UpTo(x)[i] = 10 * UpTo(x)[i - 1] + (x[i] - 48) /\ x[i] - 48 \in 0..9
        BY <1>0, <4>3, Digit, UpToSteps
      <4>5. UpTo(x)[i - 1] >= 1 /\ UpTo(x)[i - 1] \in Nat
        BY <1>0, <4>3, UpToNat
      <4>6. UpTo(x)[i] >= 1
        BY <4>4, <4>5, OneDigitMore
      <4> QED
        BY <4>1, <4>6
    <3> QED
      BY <3>1
  <2>5. a \in 1..Len(x) /\ a \in 0..Len(x) /\ 0 \in 0..Len(y) /\ a + Len(y) = Len(x)
    BY <1>0, <1>1
  <2>6. UpTo(x)[a] > UpTo(y)[0]
    <3>1. UpTo(x)[a] >= 1 /\ UpTo(y)[0] = 0 /\ UpTo(x)[a] \in Nat
      BY <1>0, <2>4, <2>5, UpToNat, UpToSteps
    <3> QED
      BY <3>1
  <2> HIDE DEF a
  <2>7. UpTo(x)[a + Len(y)] > UpTo(y)[0 + Len(y)]
    BY <1>0, <2>5, <2>6, StaysAhead
  <2>8. 0 + Len(y) = Len(y) /\ a + Len(y) = Len(x)
    BY <1>0, <2>5
  <2>9. UpTo(x)[Len(x)] > UpTo(y)[Len(y)]
    BY <2>7, <2>8
  <2> QED
    BY <2>9, UpToSteps
<1>2. ASSUME Len(x) = Len(y),
             NEW i \in 1..Len(x), i <= Len(y), x[i] > y[i], \A j \in 1..(i - 1) : x[j] = y[j]
      PROVE  Value(x) > Value(y)
  <2>1. UpTo(x)[i - 1] = UpTo(y)[i - 1] /\ UpTo(x)[i - 1] \in Nat
    BY <1>0, <1>2, SameSoFar, UpToNat
  <2>2. /\ UpTo(x)[i] = 10 * UpTo(x)[i - 1] + (x[i] - 48)
        /\ UpTo(y)[i] = 10 * UpTo(y)[i - 1] + (y[i] - 48)
    BY <1>2, UpToSteps
  <2>3. x[i] \in Nat /\ y[i] \in Nat
    BY <1>0, <1>2 DEF Text
  <2>4. UpTo(x)[i] > UpTo(y)[i]
    BY <1>2, <2>1, <2>2, <2>3
  <2>5. i \in 0..Len(x) /\ i \in 0..Len(y) /\ Len(x) - i \in Nat /\ i + (Len(x) - i) = Len(x)
    BY <1>0, <1>2
  <2>6. UpTo(x)[i + (Len(x) - i)] > UpTo(y)[i + (Len(x) - i)]
    BY <1>0, <1>2, <2>4, <2>5, StaysAhead
  <2> QED
    BY <1>2, <2>5, <2>6, UpToSteps
<1>3. CASE Len(x) = Len(y) /\ TextGreater(x, y)
  BY <1>0, <1>2, <1>3 DEF TextGreater
<1> QED
  BY <1>1, <1>3 DEF NumericGreater

\* compareNumericIdent, which compares lengths and characters, orders the
\* numbers by their values.
THEOREM NumericGreaterIsByValue ==
  ASSUME NEW x \in Text, NEW y \in Text, ValidNumber(x), ValidNumber(y)
  PROVE  /\ NumericGreater(x, y) <=> Value(x) > Value(y)
         /\ x = y <=> Value(x) = Value(y)
<1>1. Value(x) \in Nat /\ Value(y) \in Nat
  BY ValueNat DEF ValidNumber
<1>2. x # y => NumericGreater(x, y) \/ NumericGreater(y, x)
  BY NumericGreaterTotal
<1>3. NumericGreater(x, y) => Value(x) > Value(y)
  BY NumericGreaterHasGreaterValue
<1>4. NumericGreater(y, x) => Value(y) > Value(x)
  BY NumericGreaterHasGreaterValue
<1> QED
  BY <1>1, <1>2, <1>3, <1>4

-----------------------------------------------------------------------------
(* The order of semver.org.                                                *)

LEMMA PrecedesIsIdentGreater ==
  ASSUME NEW x \in Text, NEW y \in Text, ValidIdentifier(x), ValidIdentifier(y)
  PROVE  Precedes(y, x) <=> IdentGreater(x, y)
<1>1. CASE IsNumericIdent(x) /\ IsNumericIdent(y)
  <2>1. ValidNumber(x) /\ ValidNumber(y)
    BY <1>1 DEF ValidNumber, ValidIdentifier
  <2>2. Value(x) \in Nat /\ Value(y) \in Nat
    BY <1>1, ValueNat
  <2>3. Value(y) < Value(x) <=> NumericGreater(x, y)
    BY <2>1, <2>2, NumericGreaterIsByValue
  <2> QED
    BY <1>1, <2>3 DEF Precedes, IdentGreater
<1>2. CASE ~(IsNumericIdent(x) /\ IsNumericIdent(y))
  BY <1>2 DEF Precedes, IdentGreater
<1> QED
  BY <1>1, <1>2

\* The numbers of two versions: the first that differs decides.
LEMMA CoreIsByValue ==
  ASSUME NEW v \in Version, NEW w \in Version, IsValidSemVer(v), IsValidSemVer(w)
  PROVE  LET c == <<Value(v.major), Value(v.minor), Value(v.patch)>>
             d == <<Value(w.major), Value(w.minor), Value(w.patch)>>
             first == {i \in 1..3 : c[i] # d[i] /\ \A j \in 1..(i - 1) : c[j] = d[j]}
             same == v.major = w.major /\ v.minor = w.minor /\ v.patch = w.patch
         IN  /\ first = {} <=> same
             /\ (\E i \in first : c[i] > d[i]) <=>
                  \/ NumericGreater(v.major, w.major)
                  \/ v.major = w.major /\ NumericGreater(v.minor, w.minor)
                  \/ v.major = w.major /\ v.minor = w.minor
                       /\ NumericGreater(v.patch, w.patch)
<1> DEFINE c == <<Value(v.major), Value(v.minor), Value(v.patch)>>
           d == <<Value(w.major), Value(w.minor), Value(w.patch)>>
           first == {i \in 1..3 : c[i] # d[i] /\ \A j \in 1..(i - 1) : c[j] = d[j]}
<1>1. /\ NumericGreater(v.major, w.major) <=> c[1] > d[1]
      /\ NumericGreater(v.minor, w.minor) <=> c[2] > d[2]
      /\ NumericGreater(v.patch, w.patch) <=> c[3] > d[3]
      /\ v.major = w.major <=> c[1] = d[1]
      /\ v.minor = w.minor <=> c[2] = d[2]
      /\ v.patch = w.patch <=> c[3] = d[3]
  BY VersionParts, NumericGreaterIsByValue DEF IsValidSemVer
<1>2. \A i \in 1..3 : c[i] \in Nat /\ d[i] \in Nat
  BY VersionParts, ValueNat DEF IsValidSemVer, ValidNumber
<1> HIDE DEF c, d
<1>3. /\ 1 \in first <=> c[1] # d[1]
      /\ 2 \in first <=> c[1] = d[1] /\ c[2] # d[2]
      /\ 3 \in first <=> c[1] = d[1] /\ c[2] = d[2] /\ c[3] # d[3]
      /\ first \subseteq {1, 2, 3}
  OBVIOUS
<1> HIDE DEF first
<1>4. first = {} <=> c[1] = d[1] /\ c[2] = d[2] /\ c[3] = d[3]
  BY <1>3
<1>5. (\E i \in first : c[i] > d[i]) <=>
        \/ c[1] > d[1]
        \/ c[1] = d[1] /\ c[2] > d[2]
        \/ c[1] = d[1] /\ c[2] = d[2] /\ c[3] > d[3]
  BY <1>2, <1>3
<1> QED
  BY <1>1, <1>4, <1>5 DEF first, c, d

\* The identifiers of two pre-releases: the first that differs decides, then
\* their number.
LEMMA PreIsByPrecedence ==
  ASSUME NEW p \in Seq(Text), NEW q \in Seq(Text),
         \A i \in 1..Len(p) : ValidIdentifier(p[i]),
         \A i \in 1..Len(q) : ValidIdentifier(q[i])
  PROVE  LET differ == {i \in 1..Len(p) : i <= Len(q) /\ p[i] # q[i]
                                            /\ \A j \in 1..(i - 1) : p[j] = q[j]}
         IN  PreGreater(p, q) <=> IF differ # {} THEN \E i \in differ : Precedes(q[i], p[i])
                                  ELSE Len(p) > Len(q)
<1> DEFINE differ == {i \in 1..Len(p) : i <= Len(q) /\ p[i] # q[i]
                                          /\ \A j \in 1..(i - 1) : p[j] = q[j]}
<1>0. Len(p) \in Nat /\ Len(q) \in Nat
  OBVIOUS
<1>1. ASSUME NEW i \in 1..Len(p), i <= Len(q)
      PROVE  /\ Precedes(q[i], p[i]) <=> IdentGreater(p[i], q[i])
             /\ IdentGreater(p[i], q[i]) => p[i] # q[i]
  <2>1. i \in 1..Len(q)
    BY <1>0, <1>1
  <2>2. p[i] \in Text /\ q[i] \in Text
    BY <2>1
  <2> QED
    BY <2>1, <2>2, PrecedesIsIdentGreater, IdentGreaterOneWay
<1>2. CASE differ # {}
  <2>1. ~(Len(p) > Len(q) /\ \A j \in 1..Len(q) : p[j] = q[j])
    BY <1>0, <1>2
  <2>2. PreGreater(p, q) <=> \E i \in differ : IdentGreater(p[i], q[i])
    BY <1>1, <2>1 DEF PreGreater
  <2> QED
    BY <1>1, <1>2, <2>2
<1>3. CASE differ = {}
  <2>1. \/ p = q
        \/ Len(p) > Len(q) /\ (\A j \in 1..Len(q) : p[j] = q[j])
        \/ Len(q) > Len(p) /\ (\A j \in 1..Len(p) : p[j] = q[j])
    <3>1. ASSUME p # q
          PROVE  \/ \E i \in 1..Len(p) : i <= Len(q) /\ p[i] # q[i] /\ Agree(p, q, i)
                 \/ Len(p) > Len(q) /\ (\A j \in 1..Len(q) : p[j] = q[j])
                 \/ Len(q) > Len(p) /\ (\A j \in 1..Len(p) : p[j] = q[j])
      BY <3>1, FirstDifference
    <3>2. \A i \in 1..Len(p) : ~(i <= Len(q) /\ p[i] # q[i] /\ Agree(p, q, i))
      BY <1>3 DEF Agree
    <3> QED
      BY <3>1, <3>2
  <2>2. PreGreater(p, q) <=> Len(p) > Len(q) /\ \A j \in 1..Len(q) : p[j] = q[j]
    BY <1>1, <1>3 DEF PreGreater
  <2> QED
    BY <1>0, <1>3, <2>1, <2>2
<1> QED
  BY <1>2, <1>3

\* compareSemVer has v for the greater exactly when v is newer by the rules of
\* semver.org, which compare the values of the numbers: of any two valid
\* versions, with numbers and pre-releases of any length.
THEOREM CompareSemVerIsSemVer ==
  ASSUME NEW v \in Version, NEW w \in Version, IsValidSemVer(v), IsValidSemVer(w)
  PROVE  SemVerGreater(v, w) <=> Newer(v, w)
<1> DEFINE c == <<Value(v.major), Value(v.minor), Value(v.patch)>>
           d == <<Value(w.major), Value(w.minor), Value(w.patch)>>
           first == {i \in 1..3 : c[i] # d[i] /\ \A j \in 1..(i - 1) : c[j] = d[j]}
           same == v.major = w.major /\ v.minor = w.minor /\ v.patch = w.patch
           differ == {i \in 1..Len(v.pre) : i <= Len(w.pre) /\ v.pre[i] # w.pre[i]
                                              /\ \A j \in 1..(i - 1) : v.pre[j] = w.pre[j]}
           ahead == \E i \in first : c[i] > d[i]
           core == \/ NumericGreater(v.major, w.major)
                   \/ v.major = w.major /\ NumericGreater(v.minor, w.minor)
                   \/ v.major = w.major /\ v.minor = w.minor
                        /\ NumericGreater(v.patch, w.patch)
<1>1. (first = {} <=> same) /\ (ahead <=> core)
  BY CoreIsByValue
<1>2. PreGreater(v.pre, w.pre) <=>
        IF differ # {} THEN \E i \in differ : Precedes(w.pre[i], v.pre[i])
        ELSE Len(v.pre) > Len(w.pre)
  BY VersionParts, PreIsByPrecedence DEF IsValidSemVer
<1>3. SemVerGreater(v, w) <=>
        \/ core
        \/ /\ same
           /\ \/ v.pre = <<>> /\ w.pre # <<>>
              \/ v.pre # <<>> /\ w.pre # <<>> /\ PreGreater(v.pre, w.pre)
  BY DEF SemVerGreater
<1>4. Newer(v, w) <=>
        IF first # {} THEN ahead
        ELSE IF v.pre = <<>> \/ w.pre = <<>> THEN v.pre = <<>> /\ w.pre # <<>>
        ELSE IF differ # {} THEN \E i \in differ : Precedes(w.pre[i], v.pre[i])
        ELSE Len(v.pre) > Len(w.pre)
  BY DEF Newer
<1>5. core => ~same
  BY VersionParts, NumericGreaterOneWay
<1> HIDE DEF c, d, first, same, differ, core, ahead
<1>6. CASE first # {}
  BY <1>1, <1>3, <1>4, <1>6
<1>7. CASE first = {}
  BY <1>1, <1>2, <1>3, <1>4, <1>5, <1>7
<1> QED
  BY <1>6, <1>7

\* The order of semver.org, which the model states apart from the code, is a
\* strict total order of the valid versions: "the newest release" names one.
THEOREM NewerIsTotalOrder ==
  ASSUME NEW u \in Version, NEW v \in Version, NEW w \in Version,
         IsValidSemVer(u), IsValidSemVer(v), IsValidSemVer(w)
  PROVE  /\ ~Newer(u, u)
         /\ Newer(u, v) /\ Newer(v, w) => Newer(u, w)
         /\ u # v => Newer(u, v) \/ Newer(v, u)
<1>1. ~SemVerGreater(u, u)
  BY SemVerGreaterOneWay
<1>2. SemVerGreater(u, v) /\ SemVerGreater(v, w) => SemVerGreater(u, w)
  BY SemVerGreaterTransitive
<1>3. u # v => SemVerGreater(u, v) \/ SemVerGreater(v, u)
  BY SemVerGreaterTotal
<1> QED
  BY <1>1, <1>2, <1>3, CompareSemVerIsSemVer
=============================================================================

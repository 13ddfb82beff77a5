----------------------- MODULE MCVersionNumber_proofs ----------------------
(***************************************************************************)
(* What the agent makes of two version strings, for any number of parts    *)
(* and any numbers in them.                                                *)
(***************************************************************************)
EXTENDS MCVersionNumber, VersionNumber_proofs

\* The verdict is the one on the two strings.
VerdictInvariant ==
    /\ left \in Strings /\ right \in Strings
    /\ verdict = "older" => Lt(Parse(left), Parse(right))
    /\ verdict = "same"  => Le(Parse(left), Parse(right)) /\ ~Lt(Parse(left), Parse(right))
    /\ verdict = "newer" => ~Le(Parse(left), Parse(right))

\* A version string has a length and components.
LEMMA StringParts ==
    ASSUME NEW s \in Strings
    PROVE  /\ Len(s) \in Nat /\ DOMAIN s = 1..Len(s) /\ Len(s) >= 1
           /\ \A i \in 1..Len(s) : s[i] \in (0..MaxComponent) \cup {Absent}
           /\ Parse(s) \in Version
<1>1. PICK n \in 1..MaxParts : s \in [1..n -> (0..MaxComponent) \cup {Absent}]
      BY DEF Strings
<1>2. n \in Nat /\ n >= 1
      BY StringsAssumption
<1>3. s \in Seq((0..MaxComponent) \cup {Absent}) /\ Len(s) = n
      BY <1>1, <1>2
<1>4. s \in [1..n -> Nat \cup {Absent}]
      BY <1>1, StringsAssumption
<1>5. QED BY <1>1, <1>2, <1>3, <1>4, ParseType

LEMMA VerdictInvariance == Spec => []VerdictInvariant
<1>1. Init => VerdictInvariant
      BY DEF Init, VerdictInvariant
<1>2. VerdictInvariant /\ [Next]_vars => VerdictInvariant'
  <2> SUFFICES ASSUME VerdictInvariant, [Next]_vars PROVE VerdictInvariant'
      OBVIOUS
  <2>1. CASE Compare
        BY <2>1 DEF Compare, VerdictInvariant
  <2>2. CASE UNCHANGED vars
        BY <2>2 DEF vars, VerdictInvariant
  <2>3. QED BY <2>1, <2>2 DEF Next
<1>3. QED BY <1>1, <1>2, PTL DEF Spec

\* Being older is being less in the order of quadruples.
LEMMA LtIsLexLess ==
    ASSUME NEW v \in Version, NEW w \in Version, Lt(v, w)
    PROVE  LexLess(Quad(v), Quad(w))
<1> DEFINE q == Quad(v)
           r == Quad(w)
<1>1. /\ q[1] = v.major /\ q[2] = v.minor /\ q[3] = v.patch /\ q[4] = v.build
      /\ r[1] = w.major /\ r[2] = w.minor /\ r[3] = w.patch /\ r[4] = w.build
      BY DEF Quad
<1> HIDE DEF q, r
<1>2. \E i \in 1..4 : (\A j \in 1..(i - 1) : q[j] = r[j]) /\ q[i] < r[i]
  <2>1. CASE v.major # w.major
    <3>1. q[1] < r[1]
          BY <1>1, <2>1 DEF Lt, Cmp, Version
    <3>2. QED BY <3>1
  <2>2. CASE v.major = w.major /\ v.minor # w.minor
    <3>1. q[1] = r[1] /\ q[2] < r[2]
          BY <1>1, <2>2 DEF Lt, Cmp, Version
    <3>2. \A j \in 1..(2 - 1) : q[j] = r[j]
          BY <3>1
    <3>3. QED BY <3>1, <3>2
  <2>3. CASE v.major = w.major /\ v.minor = w.minor /\ v.patch # w.patch
    <3>1. q[1] = r[1] /\ q[2] = r[2] /\ q[3] < r[3]
          BY <1>1, <2>3 DEF Lt, Cmp, Version
    <3>2. \A j \in 1..(3 - 1) : q[j] = r[j]
          BY <3>1
    <3>3. QED BY <3>1, <3>2
  <2>4. CASE v.major = w.major /\ v.minor = w.minor /\ v.patch = w.patch
    <3>1. q[1] = r[1] /\ q[2] = r[2] /\ q[3] = r[3] /\ q[4] < r[4]
          BY <1>1, <2>4 DEF Lt, Cmp, Version
    <3>2. \A j \in 1..(4 - 1) : q[j] = r[j]
          BY <3>1
    <3>3. QED BY <3>1, <3>2
  <2>5. QED BY <2>1, <2>2, <2>3, <2>4
<1>3. QED BY <1>2 DEF LexLess, Unchanged, q, r

\* VersionNumber.cmp decides the lexicographic order of the quadruples that the
\* strings stand for, also of strings with components left out.
THEOREM VerdictIsLexicographic == Spec => []CompareIsLexicographic
<1>1. VerdictInvariant => CompareIsLexicographic
  <2> SUFFICES ASSUME VerdictInvariant PROVE CompareIsLexicographic
      OBVIOUS
  <2>1. Parse(left) \in Version /\ Parse(right) \in Version
        BY StringParts DEF VerdictInvariant
  <2>2. verdict = "older" => LexLess(Quad(Parse(left)), Quad(Parse(right)))
        BY <2>1, LtIsLexLess DEF VerdictInvariant
  <2>3. verdict = "same" => Parse(left) = Parse(right)
        BY <2>1, VersionsTotal DEF VerdictInvariant
  <2>4. verdict = "newer" => Lt(Parse(right), Parse(left))
        BY <2>1, VersionsTotal DEF VerdictInvariant
  <2>5. verdict = "newer" => LexLess(Quad(Parse(right)), Quad(Parse(left)))
        BY <2>1, <2>4, LtIsLexLess
  <2>6. QED BY <2>2, <2>3, <2>5 DEF CompareIsLexicographic
<1>2. QED BY <1>1, VerdictInvariance, PTL

\* A string that another one continues stands for a version at least as new:
\* the end "2" of an upgradeFrom range lets every 2.x.y.z in.
THEOREM PrefixNotOlder == Spec => []PrefixIsUpperBound
<1>1. VerdictInvariant => PrefixIsUpperBound
  <2> DEFINE n == Len(left)
             v == Parse(left)
             w == Parse(right)
  <2> SUFFICES ASSUME VerdictInvariant, n < Len(right),
                      \A i \in 1..n : left[i] = right[i] /\ left[i] # Absent
               PROVE  ~Lt(v, w)
      BY DEF PrefixIsUpperBound, VerdictInvariant
  <2>1. /\ n \in Nat /\ n >= 1 /\ DOMAIN left = 1..n
        /\ Len(right) \in Nat /\ DOMAIN right = 1..Len(right)
        /\ \A i \in 1..Len(right) : right[i] \in (0..MaxComponent) \cup {Absent}
        /\ v \in Version /\ w \in Version
        BY StringParts DEF VerdictInvariant
  <2>2. ASSUME NEW i \in 1..4, NEW d
        PROVE  i <= n => Component(left, i, d) = Component(right, i, d)
        BY <2>1, <2>2 DEF Component
  <2>3. ASSUME NEW i \in 1..4
        PROVE  Component(right, i, MaxSize) <= MaxSize
        BY <2>1, <2>3, StringsAssumption, MaxSizeAssumption DEF Component
  <2>4. ASSUME NEW i \in 1..4, i > n
        PROVE  Component(left, i, MaxSize) = MaxSize
        BY <2>1, <2>4 DEF Component
  <2>5. v.major = w.major /\ w.minor <= v.minor /\ w.patch <= v.patch /\ w.build <= v.build
    <3>1. v.major = w.major
          BY <2>1, <2>2 DEF Parse
    <3>2. n < 2 => v.minor = MaxSize
          BY <2>1, <2>4 DEF Parse
    <3>3. n < 3 => v.patch = MaxSize
          BY <2>1, <2>4 DEF Parse
    <3>4. n < 4 => v.build = MaxSize
          BY <2>1, <2>4 DEF Parse
    <3>5. /\ n >= 2 => v.minor = w.minor
          /\ n >= 3 => v.patch = w.patch
          /\ n >= 4 => v.build = w.build
          BY <2>1, <2>2 DEF Parse
    <3>6. w.minor <= MaxSize /\ w.patch <= MaxSize /\ w.build <= MaxSize
          BY <2>3 DEF Parse
    <3>7. /\ v.minor \in Int /\ v.patch \in Int /\ v.build \in Int
          /\ w.minor \in Int /\ w.patch \in Int /\ w.build \in Int
          BY <2>1, MaxSizeAssumption DEF Version
    <3>8. w.minor <= v.minor
          BY <2>1, <3>2, <3>5, <3>6, <3>7
    <3>9. w.patch <= v.patch
          BY <2>1, <3>3, <3>5, <3>6, <3>7
    <3>10. w.build <= v.build
          BY <2>1, <3>4, <3>5, <3>6, <3>7
    <3>11. QED BY <3>1, <3>8, <3>9, <3>10
  <2>6. QED BY <2>1, <2>5 DEF Lt, Cmp, Version
<1>2. QED BY <1>1, VerdictInvariance, PTL

============================================================================

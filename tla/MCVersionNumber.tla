--------------------------- MODULE MCVersionNumber -------------------------
(***************************************************************************)
(* Evaluates the version arithmetic on every pair of short version strings *)
(* and compares it with an independent reading of the order.               *)
(***************************************************************************)
EXTENDS VersionNumber

CONSTANTS
    MaxComponent,   \* components written in a string are 0..MaxComponent
    MaxParts        \* strings have at most this many components

\* No component is greater than what one left out stands for.
ASSUME StringsAssumption == MaxComponent \in 0..MaxSize /\ MaxParts \in Nat

VARIABLES left, right, verdict

vars == <<left, right, verdict>>

\* A version string, split at its dots: a component may be the empty string.
Strings ==
    UNION {[1..n -> (0..MaxComponent) \cup {Absent}] : n \in 1..MaxParts}

Init ==
    /\ left \in Strings
    /\ right \in Strings
    /\ verdict = "none"

\* The agent compares the two versions.
Compare ==
    /\ verdict = "none"
    /\ verdict' = IF Lt(Parse(left), Parse(right)) THEN "older"
                  ELSE IF Le(Parse(left), Parse(right)) THEN "same" ELSE "newer"
    /\ UNCHANGED <<left, right>>

Next == Compare

Spec == Init /\ [][Next]_vars

Quad(v) == <<v.major, v.minor, v.patch, v.build>>

Unchanged(q, r, n) == \A j \in 1..n : q[j] = r[j]

\* The textbook lexicographic order on quadruples.
LexLess(q, r) == \E i \in 1..4 : Unchanged(q, r, i - 1) /\ q[i] < r[i]

\* What VersionNumber.cmp decides for any two version strings, also those
\* with components left out, is the lexicographic order of the quadruples
\* they stand for: exactly one of older, same and newer holds.
CompareIsLexicographic ==
    LET l == Quad(Parse(left))
        r == Quad(Parse(right))
    IN  /\ verdict = "older" => LexLess(l, r)
        /\ verdict = "same"  => l = r
        /\ verdict = "newer" => LexLess(r, l)

\* A version string that is a proper prefix of another one stands for a
\* version at least as new: the upper end "2" of an upgradeFrom range lets
\* every 2.x.y.z in, as the components left out are sys.maxsize.
PrefixIsUpperBound ==
    LET n == Len(left)
        prefix == /\ n < Len(right)
                  /\ \A i \in 1..n : left[i] = right[i] /\ left[i] # Absent
    IN  prefix => verdict # "older"

=============================================================================

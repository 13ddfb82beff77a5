------------------------ MODULE VersionNumber_proofs -----------------------
(***************************************************************************)
(* What the comparison of VersionNumber guarantees for every version.      *)
(***************************************************************************)
EXTENDS VersionNumber, TLAPS

\* Every version string parses to a version, whichever components it leaves
\* out (VersionNumber.__init__).
THEOREM ParseType ==
    ASSUME NEW n \in Nat, NEW parts \in [1..n -> Nat \cup {Absent}]
    PROVE  Parse(parts) \in Version
<1>1. \A i \in Nat, d \in Nat : Component(parts, i, d) \in Nat
    BY DEF Component
<1>2. QED
    BY <1>1, MaxSizeAssumption DEF Parse, Version

\* cmp() is 0 on equal versions only.
LEMMA CmpZero ==
    ASSUME NEW v \in Version, NEW w \in Version
    PROVE  Cmp(v, w) = 0 <=> v = w
BY DEF Cmp, Version

\* Exchanging the operands of cmp() changes the sign of its result.
LEMMA CmpAntisymmetric ==
    ASSUME NEW v \in Version, NEW w \in Version
    PROVE  /\ Cmp(v, w) \in Int
           /\ Cmp(w, v) = -Cmp(v, w)
BY DEF Cmp, Version

\* Of two versions one is older, or they are equal: the agent's tests
\* old >= new and old < new never both fail, nor both hold.
THEOREM VersionsTotal ==
    ASSUME NEW v \in Version, NEW w \in Version
    PROVE  /\ Lt(v, w) \/ v = w \/ Lt(w, v)
           /\ ~(Lt(v, w) /\ Le(w, v))
           /\ Le(v, w) <=> Lt(v, w) \/ v = w
<1>1. Cmp(v, w) \in Int /\ Cmp(w, v) = -Cmp(v, w)
    BY CmpAntisymmetric
<1>2. Cmp(v, w) = 0 <=> v = w
    BY CmpZero
<1>3. QED
    BY <1>1, <1>2 DEF Lt, Le

\* Being older is transitive: a chain of upgrades never leads back.
THEOREM LtTransitive ==
    ASSUME NEW u \in Version, NEW v \in Version, NEW w \in Version,
           Lt(u, v), Lt(v, w)
    PROVE  Lt(u, w)
BY DEF Lt, Cmp, Version

\* "Older or the same" followed by "older" is "older", and the other way
\* round.
LEMMA LeLtTransitive ==
    ASSUME NEW u \in Version, NEW v \in Version, NEW w \in Version
    PROVE  /\ Le(u, v) /\ Lt(v, w) => Lt(u, w)
           /\ Lt(u, v) /\ Le(v, w) => Lt(u, w)
           /\ Le(u, v) /\ Le(v, w) => Le(u, w)
BY VersionsTotal, LtTransitive

\* A release passes validate_version_range when its upgradeFrom range ends at
\* or below its own version.  Then the range test of upgrade_once by itself
\* rules a downgrade, and a reinstallation, out: any recorded version in the
\* range is older than the release.
THEOREM RangeNeverDowngrades ==
    ASSUME NEW old \in Version, NEW new \in Version,
           NEW from \in Version, NEW to \in Version,
           Le(to, new), InRange(old, from, to)
    PROVE  Lt(old, new)
BY LeLtTransitive DEF InRange

=============================================================================

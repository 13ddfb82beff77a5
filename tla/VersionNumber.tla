--------------------------- MODULE VersionNumber ---------------------------
(***************************************************************************)
(* The version arithmetic of the update agent: class VersionNumber of      *)
(* template/umanager/bin/uagent.py.  A version has four components,        *)
(* <major>.<minor>.<patch>.<build>; the agent decides whether to install a *)
(* release by comparing three of them (the recorded version, the release's *)
(* version and the two ends of its upgradeFrom range).                     *)
(***************************************************************************)
EXTENDS Integers, Sequences

CONSTANTS
    MaxSize,    \* sys.maxsize: what a component left out stands for
    Absent      \* a component left out of a version string

ASSUME MaxSizeAssumption == MaxSize \in Nat

ASSUME AbsentAssumption == Absent \notin Nat

\* int() of a component of a version string: the strings the repository
\* writes hold no sign.
Version == [major: Nat, minor: Nat, patch: Nat, build: Nat]

\* The component at position i of a version string split at its dots.
Component(parts, i, default) ==
    IF i \in DOMAIN parts /\ parts[i] # Absent THEN parts[i] ELSE default

\* Faulty variant: everything left out is 0.
ParseZero(parts) ==
    [major |-> Component(parts, 1, 0),
     minor |-> Component(parts, 2, 0),
     patch |-> Component(parts, 3, 0),
     build |-> Component(parts, 4, 0)]

\* __init__: a major left out is 0, anything else left out is unbounded.
Parse(parts) ==
    [major |-> Component(parts, 1, 0),
     minor |-> Component(parts, 2, MaxSize),
     patch |-> Component(parts, 3, MaxSize),
     build |-> Component(parts, 4, MaxSize)]

\* Faulty variant: the patch is not compared.
CmpNoPatch(v, w) ==
    IF v.major # w.major THEN v.major - w.major
    ELSE IF v.minor # w.minor THEN v.minor - w.minor
    ELSE v.build - w.build

\* cmp: the first difference between the components, from the left.
Cmp(v, w) ==
    IF v.major # w.major THEN v.major - w.major
    ELSE IF v.minor # w.minor THEN v.minor - w.minor
    ELSE IF v.patch # w.patch THEN v.patch - w.patch
    ELSE v.build - w.build

Lt(v, w) == Cmp(v, w) < 0

Le(v, w) == Cmp(v, w) <= 0

\* in_range: the lower end belongs to the range, the upper end does not.
InRange(v, from, to) == Le(from, v) /\ Lt(v, to)

\* beyond_range
BeyondRange(v, to) == Le(to, v)

=============================================================================

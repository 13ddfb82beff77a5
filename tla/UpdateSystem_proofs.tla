-------------------------- MODULE UpdateSystem_proofs -------------------------
(***************************************************************************)
(* For any hosts, configurations and bounds: the manager deploys files of  *)
(* one release, manager and agent together implement ConfigDelivery, and   *)
(* nothing gets stuck on the way.                                          *)
(***************************************************************************)
EXTENDS UpdateSystem, VersionNumber_proofs, UpdateManager_proofs

USE DEF dbVars, memVars, runVars, tmpVars, packVars, webVars

-----------------------------------------------------------------------------
(* The history of the host's edits.                                        *)

\* Edit v of configuration c, or a later one, has been given up.
Gone(c, v) ==
    \E w \in Nat :
        /\ w >= v
        /\ <<c, w>> \in made
        /\ w \in amiss \/ <<c, w>> \in lost

\* The last edit of configuration c up to number n.
LastUpTo(c, v, n) ==
    /\ <<c, v>> \in made
    /\ v <= n
    /\ \A w \in Nat : <<c, w>> \in made /\ w <= n => w <= v

\* The edits that were made are those committed; the databases have the last
\* one of each configuration, and runs and releases have no others.
MadeInvariant ==
    /\ made \subseteq Confs \X Nat
    /\ \A c \in Confs, v \in Nat : <<c, v>> \in made => v > 0 /\ v <= cur[Host][c]
    /\ \A c \in Confs : cur[Host][c] # 0 => <<c, cur[Host][c]>> \in made
    /\ \A i \in batch : i.host = Host => <<i.conf, i.version>> \in made
    /\ served[Host] \subseteq made

\* A configuration that was cut short is left out by the run.
CutInvariant ==
    /\ \A i \in batch : i.version > from
    /\ \A c \in Confs : confs[Host][c] = "cut" =>
          \E i \in batch : i.host = Host /\ i.conf = c /\ i.version \in amiss

\* What a run has of each edit: the edit or a later one, unless it was given up,
\* came after all the run has, or lies before its window and was served.
FetchedInvariant ==
    \A c \in Confs, v \in Nat : <<c, v>> \in made =>
        \/ Gone(c, v)
        \/ \E i \in batch : i.host = Host /\ i.conf = c /\ v <= i.version
        \/ from < v /\ \A i \in batch : i.host = Host => i.version < v
        \/ \E w \in Nat : /\ v <= w /\ w <= from
                         /\ <<c, w>> \in served[Host]

-----------------------------------------------------------------------------
(* Releases.                                                               *)

\* What matters of a version.json: its number and its package.
Gist(j) == [build |-> j.version.build, package |-> j.checksum]

\* A release stands for what it should: the last edits up to its number are
\* in its package, or have been served before, or given up.
Sound(r) ==
    LET p == r.package
    IN  /\ r.build \in Nat /\ p.from \in Nat
        /\ p.from <= r.build /\ r.build <= seq
        /\ p.holds \subseteq made
        /\ p.cut \subseteq Confs
        /\ \A c \in Confs, v \in Nat : <<c, v>> \in p.holds =>
              /\ p.from < v
              /\ v <= r.build \/ Gone(c, v)
              /\ c \notin p.cut
              /\ \A w \in Nat : <<c, w>> \in p.holds => w = v
        /\ \A c \in p.cut : \E w \in Nat : p.from < w /\ Gone(c, w)
        /\ \A c \in Confs, v \in Nat : LastUpTo(c, v, r.build) =>
              \/ <<c, v>> \in p.holds
              \/ Gone(c, v)
              \/ v <= p.from /\ <<c, v>> \in served[Host]
        /\ \A c \in Confs : pending[Host][c] # 0 =>
              pending[Host][c] \in amiss \/ r.build < pending[Host][c]

\* The releases in the manager's directory, at the server, on the way and on
\* the host.
InTmp(r) == tmp[Host]["json"] # Missing /\ r = Gist(tmp[Host]["json"])

AtServer(r) == nginx[Host]["json"] # Missing /\ r = Gist(nginx[Host]["json"])

Downloaded(r) == dl["json"] \in Releases /\ r = Gist(dl["json"])

Installed(r) == \E c \in Confs : r = Gist(applied[c].by)

SoundInvariant ==
    \A r : InTmp(r) \/ AtServer(r) \/ Downloaded(r) \/ Installed(r) => Sound(r)

\* Release s holds no older edits than release r.
Before(r, s) ==
    \A c \in Confs, v \in Nat : <<c, v>> \in r.package.holds =>
        /\ \A w \in Nat : <<c, w>> \in s.package.holds => v <= w
        /\ c \in s.package.cut => Gone(c, v)

\* The run has no older edits than release r.
BeforeRun(r) ==
    \A i \in batch, v \in Nat :
        i.host = Host /\ <<i.conf, v>> \in r.package.holds => v <= i.version

OrderInvariant ==
    /\ \A r, s :
          \/ (Installed(r) \/ Downloaded(r)) /\ AtServer(s)
          \/ Installed(r) /\ Downloaded(s)
          => Before(r, s)
    /\ \A r : Installed(r) \/ Downloaded(r) \/ AtServer(r) => BeforeRun(r)

-----------------------------------------------------------------------------
(* The agent.                                                              *)

\* What a downloaded file may be.
Arrived == {Missing, Torn} \cup PackageType \cup JsonType
              \cup {AsRelease(j) : j \in JsonType}

AgentTypes ==
    /\ applied \in [Confs -> [by : Releases, whole : BOOLEAN]]
    /\ dl \in [Files -> Arrived]
    /\ apc \in Agent!PCs
    /\ url \in {0, 1}
    /\ apc \notin {"idle", "next"} => url = 1
    /\ file \in Files
    /\ todo \subseteq Confs

\* As in UAgent_proofs.
Trusted ==
    \/ apc \in {"head", "get"} /\ file \in {"pkg", "pkgSig"}
    \/ apc \in {"package", "unpack", "install", "record"}

StageInvariant ==
    /\ apc \in {"head", "get"} /\ file = "json" => dl = NoFiles
    /\ Trusted => dl["json"] \in Releases /\ dl["jsonSig"] = dl["json"]
    /\ apc \in {"unpack", "install", "record"} =>
          dl["pkg"] = dl["json"].checksum /\ dl["pkgSig"] = dl["pkg"]
    /\ apc = "install" => todo \subseteq Brought[dl["json"].checksum]
    /\ apc = "record" => todo = {}

\* What install.py is through with was copied, or is given up.
CopyInvariant ==
    apc \in {"install", "record"} =>
        \A c \in Brought[dl["json"].checksum] \ todo :
            \/ applied[c] = [by |-> dl["json"], whole |-> TRUE]
            \/ \A v \in Nat : <<c, v>> \in dl["json"].checksum.holds => <<c, v>> \in lost

\* The packager makes the package, its version.json and the signatures, once; a
\* signature is that of the file beside it, a version.json that of the package.
TmpInvariant ==
    /\ pc = "items" => \A f \in Files : tmp[Host][f] = Missing
    /\ pc \in {"minor", "json", "sign"} => host \notin left
    /\ Host \in left \/ (host = Host /\ pc \in {"minor", "json"}) =>
          \A f \in Files \ {"pkg"} : tmp[Host][f] = Missing
    /\ tmp[Host]["jsonSig"] \in {Missing, tmp[Host]["json"]}
    /\ tmp[Host]["pkgSig"] \in {Missing, tmp[Host]["pkg"]}
    /\ tmp[Host]["pkgSig"] # Missing => tmp[Host]["json"] # Missing
    /\ tmp[Host]["json"] # Missing => tmp[Host]["json"].checksum = tmp[Host]["pkg"]

\* What is complete is served, and what was served leaves a package behind.
WebInvariant ==
    /\ nginx[Host]["jsonSig"] \in JsonType \cup {Missing}
    /\ Complete(nginx[Host]) => nginx[Host]["pkg"].holds \subseteq served[Host]
    /\ served[Host] # {} => nginx[Host]["pkg"] # Missing

\* What was downloaded of the present run is what the server has; of a release
\* that was never complete, the agent and the server lack the same file.
ArrivalInvariant ==
    /\ \A f \in Files : dl[f] \notin {Missing, Torn} =>
          /\ RunOf(f, dl[f]) \in 0 .. run
          /\ RunOf(f, dl[f]) = run => dl[f] = Directory[f]
    /\ dl["json"] \in Releases =>
          \/ dl["json"].checksum.holds \subseteq served[Host]
          \/ \E f \in Files : Agent!FileOf(dl["json"], f) \notin {dl[f], Directory[f]}

\* Edit v of configuration c, or a later one, was served and still is.
Ahead(c, v) ==
    \E w \in Nat : v <= w /\ <<c, w>> \in nginx[Host]["pkg"].holds \cap served[Host]

\* An edit that was served is still there, has arrived, or is given up.
DeliveredInvariant ==
    \A c \in Confs, v \in Nat : <<c, v>> \in served[Host] =>
        Ahead(c, v) \/ Held(c) >= v \/ Gone(c, v)

\* By the time a package has been downloaded, the last edits that it leaves to
\* earlier ones have arrived, or are given up.
BehindInvariant ==
    /\ \/ apc \in {"head", "get"} /\ file = "pkgSig"
       \/ apc \in {"package", "unpack", "install", "record"}
    /\ dl["pkg"] = dl["json"].checksum
    => \A c \in Confs, v \in Nat :
          /\ LastUpTo(c, v, dl["json"].version.build)
          /\ v <= dl["json"].checksum.from
          => Held(c) >= v \/ Gone(c, v)

\* The inductive invariant.
SystemInvariant ==
    /\ ServingInvariant
    /\ MadeInvariant /\ CutInvariant /\ FetchedInvariant
    /\ SoundInvariant /\ OrderInvariant
    /\ AgentTypes /\ StageInvariant /\ CopyInvariant
    /\ TmpInvariant /\ WebInvariant /\ ArrivalInvariant
    /\ DeliveredInvariant /\ BehindInvariant

-----------------------------------------------------------------------------
(* What the steps of the manager do to the history.                        *)

\* A step of the system is one of the manager, or leaves it alone.
LEMMA ManagerMoves == [SystemNext]_systemVars => [Next]_vars
BY DEF SystemNext, ManagerStep, AgentStep, AgentTrouble, systemVars

\* The edits in a package are what the run fetched of the host.
LEMMA PackageOfRun ==
    ASSUME NEW h \in Hosts
    PROVE  /\ \A x \in Package(h).holds : \E i \in batch :
                  /\ i.host = h /\ x = <<i.conf, i.version>>
                  /\ confs[h][i.conf] = "whole"
           /\ \A c \in Package(h).cut : c \in Confs /\ confs[h][c] = "cut"
           /\ Package(h).from = from /\ Package(h).run = run
BY DEF Package

\* An edit of the host is committed.
Commits(c) ==
    /\ pending[Host][c] # 0
    /\ made' = made \cup {<<c, pending[Host][c]>>}
    /\ cur'[Host][c] = pending[Host][c]
    /\ pending'[Host][c] = 0
    /\ \A d \in Confs \ {c} : cur'[Host][d] = cur[Host][d] /\ pending'[Host][d] = pending[Host][d]
    /\ UNCHANGED <<seq, batch, from, amiss, lost, nginx, tmp, served, agentVars>>

\* No edit of the host is committed; one may be drawn.
NoCommit ==
    /\ made' = made
    /\ cur'[Host] = cur[Host]
    /\ seq' \in {seq, seq + 1}
    /\ \A c \in Confs : pending'[Host][c] \in {pending[Host][c], seq + 1}
    /\ \A c \in Confs : pending'[Host][c] # pending[Host][c] => seq' = seq + 1
    /\ amiss \subseteq amiss' /\ lost \subseteq lost'
    /\ served[Host] \subseteq served'[Host]

LEMMA CommitKinds ==
    ASSUME ServingInvariant, [SystemNext]_systemVars
    PROVE  (\E c \in Confs : Commits(c)) \/ NoCommit
<1>1. /\ seq \in Nat
      /\ cur \in [Hosts -> [Confs -> Nat]] /\ pending \in [Hosts -> [Confs -> Nat]]
      /\ served \in [Hosts -> SUBSET (Confs \X Nat)]
      /\ Host \in Hosts
      /\ \A c \in Confs : pending[Host][c] # 0 => cur[Host][c] < pending[Host][c]
      BY HostAssumption
      DEF ServingInvariant, ManagerInvariant, TypeInvariant, TypeOK, ServedInvariant, SeenInvariant
<1>2. ASSUME UNCHANGED <<seq, cur, pending, served, made>>,
             amiss \subseteq amiss', lost \subseteq lost'
      PROVE  NoCommit
      BY <1>1, <1>2 DEF NoCommit
<1>3. ASSUME nginx' = nginx, Observed PROVE lost' = lost
      BY <1>3 DEF Observed, Replaced
<1>4. ASSUME cur' = cur, Observed PROVE made' = made
      BY <1>1, <1>4 DEF Observed
<1>5. CASE UNCHANGED systemVars
      BY <1>2, <1>5 DEF systemVars, vars
<1>6. CASE AgentStep \/ AgentTrouble
      BY <1>2, <1>6 DEF AgentStep, AgentTrouble, vars
<1>7. ASSUME NEW h \in Hosts, NEW c \in Confs, EditConfig(h, c), Observed PROVE NoCommit
  <2>1. /\ UNCHANGED <<cur, served, amiss>> /\ made' = made /\ lost' = lost /\ seq' = seq + 1
        /\ \A d \in Confs : pending'[Host][d] = IF Host = h /\ d = c THEN seq + 1 ELSE pending[Host][d]
        BY <1>1, <1>3, <1>4, <1>7 DEF EditConfig
  <2>2. QED BY <1>1, <2>1 DEF NoCommit
<1>8. ASSUME NEW h \in Hosts, NEW c \in Confs, CommitConfig(h, c), Observed
      PROVE  (\E d \in Confs : Commits(d)) \/ NoCommit
  <2>1. /\ UNCHANGED <<seq, batch, from, amiss, nginx, tmp, served, agentVars>> /\ lost' = lost
        /\ pending[h][c] # 0
        /\ \A d \in Confs :
              /\ cur'[Host][d] = IF Host = h /\ d = c THEN pending[h][c] ELSE cur[Host][d]
              /\ pending'[Host][d] = IF Host = h /\ d = c THEN 0 ELSE pending[Host][d]
        BY <1>1, <1>3, <1>8 DEF CommitConfig, Observed
  <2>2. cur' = [cur EXCEPT ![h][c] = pending[h][c]]
        BY <1>8 DEF CommitConfig
  <2>3. CASE h = Host
    <3>1. {d \in Confs : cur'[Host][d] # cur[Host][d]} = {c}
          BY <1>1, <2>1, <2>3
    <3>2. made' = made \cup {<<c, pending[Host][c]>>}
          BY <1>8, <2>1, <2>3, <3>1 DEF Observed
    <3>3. QED BY <2>1, <2>3, <3>2 DEF Commits
  <2>4. CASE h # Host
    <3>1. cur'[Host] = cur[Host]
          BY <1>1, <2>2, <2>4
    <3>2. made' = made
          BY <1>8, <3>1 DEF Observed
    <3>3. QED BY <1>1, <2>1, <2>4, <3>1, <3>2 DEF NoCommit
  <2>5. QED BY <2>3, <2>4
<1>9. ASSUME NEW h \in Hosts, NEW f \in Files, DeployFile(h, f), Observed PROVE NoCommit
  <2>1. UNCHANGED <<seq, cur, pending, amiss>> /\ made' = made
        BY <1>4, <1>9 DEF DeployFile
  <2>2. lost \subseteq lost'
        BY <1>9 DEF Observed
  <2>3. served[Host] \subseteq served'[Host]
    <3>1. \/ served' = served
          \/ \E s : served' = [served EXCEPT ![h] = @ \cup s]
          BY <1>9 DEF DeployFile
    <3>2. QED BY <1>1, <3>1
  <2>4. QED BY <1>1, <2>1, <2>2, <2>3 DEF NoCommit
<1>10. ASSUME Begun \/ FinishRun \/ Quiet, Observed PROVE NoCommit
  <2>1. UNCHANGED <<seq, cur, pending, served>> /\ amiss \subseteq amiss'
        BY <1>10 DEF Begun, FinishRun, Quiet
  <2>2. made' = made /\ lost \subseteq lost'
        BY <1>4, <1>10, <2>1 DEF Observed
  <2>3. QED BY <1>2, <2>1, <2>2
<1>11. CASE ManagerStep
      BY <1>7, <1>8, <1>9, <1>10, <1>11, ServingKinds DEF ManagerStep
<1>12. QED BY <1>5, <1>6, <1>11 DEF SystemNext

\* What is given up stays so.
LEMMA GoneStays ==
    ASSUME ServingInvariant, [SystemNext]_systemVars
    PROVE  /\ amiss \subseteq amiss' /\ lost \subseteq lost' /\ made \subseteq made'
           /\ served[Host] \subseteq served'[Host]
           /\ \A c, v : Gone(c, v) => Gone(c, v)'
<1>1. /\ amiss \subseteq amiss' /\ lost \subseteq lost' /\ made \subseteq made'
      /\ served[Host] \subseteq served'[Host]
      BY CommitKinds DEF Commits, NoCommit
<1>2. QED BY <1>1 DEF Gone

\* An edit that is committed was drawn before; it was left out, or comes after
\* all that the run has.
LEMMA NewEdits ==
    ASSUME ServingInvariant, [SystemNext]_systemVars,
           NEW c \in Confs, NEW v \in Nat, <<c, v>> \in made', <<c, v>> \notin made
    PROVE  /\ v = pending[Host][c] /\ v # 0
           /\ Commits(c)
           /\ \/ v \in amiss
              \/ from < v /\ \A i \in batch : i.version < v
<1>1. PICK d \in Confs : Commits(d)
      BY CommitKinds DEF NoCommit
<1>2. d = c /\ v = pending[Host][c] /\ v # 0
      BY <1>1 DEF Commits
<1>3. Host \in Hosts
      BY HostAssumption
<1>4. \/ v \in amiss
      \/ from < v /\ \A i \in batch : i.version < v
      BY <1>2, <1>3
      DEF ServingInvariant, ManagerInvariant, DrawnInvariant, Later, ServedInvariant
<1>5. QED BY <1>1, <1>2, <1>4

\* A release that is sound stays so, wherever it is.
LEMMA SoundStays ==
    ASSUME ServingInvariant, MadeInvariant, [SystemNext]_systemVars
    PROVE  \A r : Sound(r) => Sound(r)'
<1> SUFFICES ASSUME NEW r, Sound(r) PROVE Sound(r)'
    OBVIOUS
<1> DEFINE p == r.package
<1>1. /\ seq \in Nat /\ Host \in Hosts
      /\ \A c \in Confs : pending[Host][c] \in Nat
      BY HostAssumption DEF ServingInvariant, ManagerInvariant, TypeInvariant, TypeOK
<1>2. /\ r.build \in Nat /\ p.from \in Nat
      /\ p.from <= r.build /\ r.build <= seq
      /\ p.holds \subseteq made /\ p.cut \subseteq Confs
      BY DEF Sound
<1>3. /\ seq <= seq'
      /\ \A c \in Confs : pending'[Host][c] \in {0, pending[Host][c], seq + 1}
      /\ \A c \in Confs : pending'[Host][c] \notin {0, pending[Host][c]} => seq' = seq + 1
      BY <1>1, CommitKinds DEF Commits, NoCommit
<1>4. seq' \in Nat /\ r.build <= seq'
      BY <1>1, <1>2, <1>3, CommitKinds DEF Commits, NoCommit
<1>5. /\ amiss \subseteq amiss' /\ made \subseteq made' /\ served[Host] \subseteq served'[Host]
      /\ \A c, v : Gone(c, v) => Gone(c, v)'
      BY GoneStays
<1>6. \A c \in Confs, v \in Nat : <<c, v>> \in p.holds =>
          /\ p.from < v
          /\ v <= r.build \/ Gone(c, v)'
          /\ c \notin p.cut
          /\ \A w \in Nat : <<c, w>> \in p.holds => w = v
      BY <1>5 DEF Sound
<1>7. \A c \in p.cut : \E w \in Nat : p.from < w /\ Gone(c, w)'
      BY <1>5 DEF Sound
<1>8. ASSUME NEW c \in Confs, NEW v \in Nat, LastUpTo(c, v, r.build)'
      PROVE  \/ <<c, v>> \in p.holds
             \/ Gone(c, v)'
             \/ v <= p.from /\ <<c, v>> \in served'[Host]
  <2>1. <<c, v>> \in made' /\ v <= r.build
        BY <1>8 DEF LastUpTo
  <2>2. CASE <<c, v>> \in made
    <3>1. LastUpTo(c, v, r.build)
          BY <1>5, <1>8, <2>2 DEF LastUpTo
    <3>2. QED BY <1>5, <3>1 DEF Sound
  <2>3. CASE <<c, v>> \notin made
    <3>1. v = pending[Host][c] /\ v # 0
          BY <2>1, <2>3, NewEdits
    <3>2. v \in amiss
          BY <1>2, <2>1, <3>1 DEF Sound
    <3>3. QED BY <1>5, <2>1, <3>2 DEF Gone
  <2>4. QED BY <2>2, <2>3
<1>9. \A c \in Confs : pending'[Host][c] # 0 =>
          pending'[Host][c] \in amiss' \/ r.build < pending'[Host][c]
      BY <1>1, <1>2, <1>3, <1>5 DEF Sound
<1>10. QED
  <2>1. p.holds \subseteq made'
        BY <1>2, <1>5
  <2>2. QED BY <1>2, <1>4, <1>6, <1>7, <1>8, <1>9, <2>1 DEF Sound

\* The history goes on to tell what was made, fetched and served.
LEMMA NextMade ==
    ASSUME ServingInvariant, MadeInvariant, [SystemNext]_systemVars
    PROVE  MadeInvariant'
<1>1. /\ seq \in Nat /\ Host \in Hosts
      /\ cur \in [Hosts -> [Confs -> Nat]] /\ pending \in [Hosts -> [Confs -> Nat]]
      /\ served \in [Hosts -> SUBSET (Confs \X Nat)]
      /\ \A c \in Confs : pending[Host][c] # 0 => cur[Host][c] < pending[Host][c]
      /\ \A i \in batch : i.host \in Hosts /\ i.conf \in Confs /\ i.version \in Nat
      BY HostAssumption
      DEF ServingInvariant, ManagerInvariant, TypeInvariant, TypeOK, ServedInvariant, SeenInvariant
<1>2. /\ made' \subseteq Confs \X Nat
      /\ \A c \in Confs, v \in Nat : <<c, v>> \in made' => v > 0 /\ v <= cur'[Host][c]
      /\ \A c \in Confs : cur'[Host][c] # 0 => <<c, cur'[Host][c]>> \in made'
  <2>1. CASE NoCommit
        BY <2>1 DEF NoCommit, MadeInvariant
  <2>2. ASSUME NEW c \in Confs, Commits(c)
        PROVE  /\ made' \subseteq Confs \X Nat
               /\ \A d \in Confs, v \in Nat : <<d, v>> \in made' => v > 0 /\ v <= cur'[Host][d]
               /\ \A d \in Confs : cur'[Host][d] # 0 => <<d, cur'[Host][d]>> \in made'
    <3>1. /\ pending[Host][c] \in Nat /\ pending[Host][c] # 0 /\ cur[Host][c] \in Nat
          /\ made' = made \cup {<<c, pending[Host][c]>>}
          /\ cur'[Host][c] = pending[Host][c]
          /\ \A d \in Confs \ {c} : cur'[Host][d] = cur[Host][d]
          BY <1>1, <2>2 DEF Commits
    <3>2. \A d \in Confs, v \in Nat : <<d, v>> \in made' => v > 0 /\ v <= cur'[Host][d]
      <4>1. SUFFICES ASSUME NEW d \in Confs, NEW v \in Nat, <<d, v>> \in made'
                     PROVE  v > 0 /\ v <= cur'[Host][d]
            OBVIOUS
      <4>2. CASE <<d, v>> \in made
            BY <1>1, <3>1, <4>2 DEF MadeInvariant
      <4>3. CASE <<d, v>> \notin made
            BY <3>1, <4>1, <4>3
      <4>4. QED BY <4>2, <4>3
    <3>3. QED BY <3>1, <3>2 DEF MadeInvariant
  <2>3. QED BY <2>1, <2>2, CommitKinds
<1>3. made \subseteq made'
      BY GoneStays
<1>4. \A i \in batch' : i.host = Host => <<i.conf, i.version>> \in made'
  <2>1. CASE batch' = batch
        BY <1>3, <2>1 DEF MadeInvariant
  <2>2. CASE Begun
    <3>1. PICK v \in 0 .. seq : batch' \subseteq Updated(v)
          BY <2>2 DEF Begun
    <3>2. \A i \in batch' : i.conf \in Confs /\ i.version = cur[i.host][i.conf] /\ i.version > v
          BY <3>1, UpdatedItems
    <3>3. QED BY <1>1, <1>3, <3>2 DEF MadeInvariant
  <2>3. batch' = batch \/ Begun
        BY ManagerMoves, ServingKinds DEF EditConfig, CommitConfig, DeployFile, FinishRun, Quiet
  <2>4. QED BY <2>1, <2>2, <2>3
<1>5. served'[Host] \subseteq made'
  <2>1. CASE served' = served
        BY <1>3, <2>1 DEF MadeInvariant
  <2>2. ASSUME NEW h \in Hosts, NEW f \in Files, DeployFile(h, f) PROVE served'[Host] \subseteq made'
    <3>1. \/ served' = served
          \/ served' = [served EXCEPT ![h] = @ \cup Package(h).holds]
          BY <2>2, CopyCompletes DEF ServingInvariant
    <3>2. CASE h = Host
      <4>1. Package(Host).holds \subseteq made
            BY <1>1, PackageOfRun DEF MadeInvariant
      <4>2. QED BY <1>1, <1>3, <3>1, <3>2, <4>1 DEF MadeInvariant
    <3>3. CASE h # Host
          BY <1>1, <1>3, <3>1, <3>3 DEF MadeInvariant
    <3>4. QED BY <3>2, <3>3
  <2>3. \/ served' = served
        \/ \E h \in Hosts, f \in Files : DeployFile(h, f)
        BY ManagerMoves, ServingKinds DEF EditConfig, CommitConfig, Begun, FinishRun, Quiet
  <2>4. QED BY <2>1, <2>2, <2>3
<1>6. QED BY <1>2, <1>4, <1>5 DEF MadeInvariant

\* What is cut short was left out.
LEMMA NextCut ==
    ASSUME ServingInvariant, CutInvariant, [SystemNext]_systemVars
    PROVE  CutInvariant'
<1>1. /\ confs \in [Hosts -> [Confs -> Failures \cup {"whole"}]]
      /\ Host \in Hosts /\ items \subseteq batch
      /\ \A i \in batch : i.host \in Hosts /\ i.conf \in Confs
      BY HostAssumption DEF ServingInvariant, ManagerInvariant, TypeInvariant, TypeOK
<1>2. amiss \subseteq amiss'
      BY GoneStays
<1>3. ASSUME UNCHANGED <<confs, batch, from>> PROVE CutInvariant'
      BY <1>2, <1>3 DEF CutInvariant
<1>4. ASSUME NEW v, NEW answer \in SUBSET Updated(v), BeginRun(v, answer) PROVE CutInvariant'
  <2>1. \A c \in Confs : confs'[Host][c] = "unlisted"
        BY <1>1, <1>4 DEF BeginRun, NoConfs
  <2>2. \A i \in batch' : i.version > from'
        BY <1>4, UpdatedItems DEF BeginRun
  <2>3. QED BY <2>1, <2>2 DEF CutInvariant
<1>5. ASSUME NEW i \in items, NEW how \in Failures \cup {"whole"},
             confs' = [confs EXCEPT ![i.host][i.conf] = how],
             how = "cut" => i.version \in amiss',
             UNCHANGED <<batch, from>>
      PROVE  CutInvariant'
  <2>1. \A c \in Confs : confs'[Host][c] = "cut" =>
            \/ confs[Host][c] = "cut"
            \/ i.host = Host /\ i.conf = c /\ i.version \in amiss'
        BY <1>1, <1>5
  <2>2. QED BY <1>1, <1>2, <1>5, <2>1 DEF CutInvariant
<1>6. CASE Fetch \/ \E h \in Hosts : FetchGarbage(h)
  <2>1. \E v \in 0 .. seq : \E answer \in SUBSET Updated(v) : BeginRun(v, answer)
        BY <1>6 DEF Fetch, FetchGarbage
  <2>2. QED BY <1>4, <2>1
<1>7. ASSUME NEW i \in items, ProcessItem(i) PROVE CutInvariant'
      BY <1>5, <1>7 DEF ProcessItem
<1>8. ASSUME NEW i \in items, NEW how \in Failures, ItemFails(i, how) PROVE CutInvariant'
      BY <1>5, <1>8 DEF ItemFails
<1>9. CASE \/ Databases \/ StartPackaging \/ ReadMinor \/ WriteJson \/ SignFiles \/ StartDeploying
           \/ FinishRun \/ ReadFails \/ Crash \/ UNCHANGED vars
      BY <1>3, <1>9
      DEF Databases, EditConfig, CommitConfig, ChangePlatform, BumpVersion, StartPackaging,
          ReadMinor, WriteJson, SignFiles, StartDeploying, FinishRun, ReadFails, Crash, vars
<1>10. CASE \/ \E h \in Hosts : PackHost(h) \/ PackFails(h)
            \/ \E h \in Hosts, f \in Files : DeployFile(h, f)
            \/ \E fs \in {{}, {"pkg"}, {"json"}} : SignFails(fs)
      BY <1>3, <1>10 DEF PackHost, PackFails, DeployFile, SignFails
<1>11. QED BY <1>6, <1>7, <1>8, <1>9, <1>10, ManagerMoves DEF Next, Manager, Trouble

\* A run passes by no edit that was neither served nor given up.
LEMMA NextFetched ==
    ASSUME ServingInvariant, MadeInvariant, FetchedInvariant, [SystemNext]_systemVars
    PROVE  FetchedInvariant'
<1> SUFFICES ASSUME NEW c \in Confs, NEW v \in Nat, <<c, v>> \in made'
             PROVE  \/ Gone(c, v)'
                    \/ \E i \in batch' : i.host = Host /\ i.conf = c /\ v <= i.version
                    \/ from' < v /\ \A i \in batch' : i.host = Host => i.version < v
                    \/ \E w \in Nat : v <= w /\ w <= from' /\ <<c, w>> \in served'[Host]
    BY DEF FetchedInvariant
<1>1. /\ amiss \subseteq amiss' /\ made \subseteq made' /\ served[Host] \subseteq served'[Host]
      /\ Gone(c, v) => Gone(c, v)'
      BY GoneStays
<1>2. CASE UNCHANGED <<batch, from>>
  <2>1. CASE <<c, v>> \in made
        BY <1>1, <1>2, <2>1 DEF FetchedInvariant
  <2>2. CASE <<c, v>> \notin made
    <3>1. v \in amiss \/ (from < v /\ \A i \in batch : i.version < v)
          BY <2>2, NewEdits
    <3>2. v \in amiss => Gone(c, v)'
          BY <1>1 DEF Gone
    <3>3. QED BY <1>2, <3>1, <3>2
  <2>3. QED BY <2>1, <2>2
<1>3. CASE NewWindow /\ Begun /\ <<c, v>> \in made
  <2>1. /\ Host \in Hosts /\ cur[Host][c] \in Nat
        /\ v > 0 /\ v <= cur[Host][c] /\ <<c, cur[Host][c]>> \in made
        BY HostAssumption, <1>3
        DEF MadeInvariant, ServingInvariant, ManagerInvariant, TypeInvariant, TypeOK
  <2>2. /\ from' \in Nat
        /\ Reaches(from')
        /\ \A i \in Updated(from') : i \in batch' \/ i.version \in amiss'
        BY <1>3 DEF NewWindow, Begun
  <2>3. CASE from' < cur[Host][c]
    <3>1. PICK i \in Updated(from') : i.host = Host /\ i.conf = c /\ i.version = cur[Host][c]
          BY <2>1, <2>3, UpdatedAll
    <3>2. CASE i \in batch'
          BY <2>1, <3>1, <3>2
    <3>3. CASE i.version \in amiss'
          BY <1>1, <2>1, <3>1, <3>3 DEF Gone
    <3>4. QED BY <2>2, <3>2, <3>3
  <2>4. CASE ~(from' < cur[Host][c])
    <3>1. cur[Host][c] \in asked
      <4>1. <<Host, c>> \in Pairs
            BY <2>1 DEF Pairs
      <4>2. cur[Host][c] \notin asked \cup {0} => from' < cur[Host][c]
            BY <2>2, <4>1 DEF Reaches
      <4>3. QED BY <2>1, <2>4, <4>2
    <3>2. cur[Host][c] \in amiss \/ <<c, cur[Host][c]>> \in served[Host]
          BY <2>1, <3>1 DEF ServingInvariant, ServedInvariant
    <3>3. CASE cur[Host][c] \in amiss
          BY <1>1, <2>1, <3>3 DEF Gone
    <3>4. CASE <<c, cur[Host][c]>> \in served[Host]
          BY <1>1, <2>1, <2>2, <2>4, <3>4
    <3>5. QED BY <3>2, <3>3, <3>4
  <2>5. QED BY <2>3, <2>4
<1>4. UNCHANGED <<batch, from>> \/ NewWindow
      BY ManagerMoves, StepKinds
      DEF ServingInvariant, ManagerInvariant, EditConfig, CommitConfig, JsonWritten, Passing
<1>5. UNCHANGED <<batch, from>> \/ Begun
      BY ManagerMoves, ServingKinds DEF EditConfig, CommitConfig, DeployFile, FinishRun, Quiet
<1>6. UNCHANGED <<batch, from>> \/ made' = made
      BY CommitKinds DEF Commits, NoCommit
<1>7. QED BY <1>2, <1>3, <1>4, <1>5, <1>6

-----------------------------------------------------------------------------
\* The version.json of the host is sound when it is written.
LEMMA JsonSound ==
    ASSUME ServingInvariant, MadeInvariant, CutInvariant, FetchedInvariant,
           pc = "json", host = Host, Remembered(Host)
    PROVE  Sound(Gist(Json(Host)))
<1> DEFINE p == Package(Host)
           n == VERSIONS[Host]
<1>1. Gist(Json(Host)) = [build |-> n, package |-> p]
      BY DEF ServingInvariant, ManagerInvariant, TypeInvariant, FilesInvariant, Gist, Json
<1>2. /\ Host \in Hosts /\ n \in Nat /\ from \in Nat /\ seq \in Nat /\ items = {}
      /\ \A i \in batch : i.host \in Hosts /\ i.conf \in Confs /\ i.version \in Nat
      /\ made \subseteq Confs \X Nat
      BY HostAssumption
      DEF ServingInvariant, ManagerInvariant, TypeInvariant, TypeOK, FilesInvariant, BatchInvariant,
          MadeInvariant
<1>3. PICK k \in batch : k.host = Host /\ k.version = n
      BY <1>2 DEF Remembered, ServingInvariant, ManagerInvariant, MemoryInvariant
<1>4. from < n /\ n <= seq
      BY <1>2, <1>3 DEF CutInvariant, ServingInvariant, ManagerInvariant, DrawnInvariant, Later
<1>5. \A i \in batch : i.host = Host => <<i.conf, i.version>> \in made
      BY DEF MadeInvariant
<1>6. \A i \in batch : i.host = Host => i.version \in amiss \/ i.version <= n
      BY <1>2 DEF ServingInvariant, ManagerInvariant, SeenInvariant
<1>7. \A i \in batch : i.host = Host /\ i.version \in amiss => Gone(i.conf, i.version)
      BY <1>2, <1>5 DEF Gone
<1>8. ASSUME NEW c \in Confs, NEW v \in Nat, <<c, v>> \in p.holds
      PROVE  /\ from < v
             /\ v <= n \/ Gone(c, v)
             /\ c \notin p.cut
             /\ \A w \in Nat : <<c, w>> \in p.holds => w = v
  <2>1. PICK i \in batch : /\ i.host = Host /\ i.conf = c /\ i.version = v
                           /\ confs[Host][c] = "whole"
        BY <1>2, <1>8, PackageOfRun
  <2>2. \A w \in Nat : <<c, w>> \in p.holds => w = v
    <3>1. SUFFICES ASSUME NEW w \in Nat, <<c, w>> \in p.holds PROVE w = v
          OBVIOUS
    <3>2. PICK j \in batch : j.host = Host /\ j.conf = c /\ j.version = w
          BY <1>2, <3>1, PackageOfRun
    <3>3. i = j
          BY <2>1, <3>2 DEF ServingInvariant, ManagerInvariant, BatchInvariant
    <3>4. QED BY <2>1, <3>2, <3>3
  <2>3. c \notin p.cut
        BY <1>2, <2>1, PackageOfRun
  <2>4. QED BY <1>6, <1>7, <2>1, <2>2, <2>3 DEF CutInvariant
<1>9. ASSUME NEW c \in p.cut PROVE c \in Confs /\ \E w \in Nat : from < w /\ Gone(c, w)
  <2>1. c \in Confs /\ confs[Host][c] = "cut"
        BY <1>2, PackageOfRun
  <2>2. PICK i \in batch : i.host = Host /\ i.conf = c /\ i.version \in amiss
        BY <2>1 DEF CutInvariant
  <2>3. QED BY <1>2, <1>7, <2>1, <2>2 DEF CutInvariant
<1>10. ASSUME NEW c \in Confs, NEW v \in Nat, LastUpTo(c, v, n)
       PROVE  <<c, v>> \in p.holds \/ Gone(c, v) \/ (v <= from /\ <<c, v>> \in served[Host])
  <2>1. /\ <<c, v>> \in made /\ v <= n
        /\ \A w \in Nat : <<c, w>> \in made /\ w <= n => w <= v
        BY <1>10 DEF LastUpTo
  <2>2. ASSUME NEW i \in batch, i.host = Host, i.conf = c, v <= i.version
        PROVE  <<c, v>> \in p.holds \/ Gone(c, v)
    <3>1. CASE i.version \in amiss
          BY <1>2, <1>5, <2>2, <3>1 DEF Gone
    <3>2. CASE i.version \notin amiss
      <4>1. i.version = v
        <5>1. i.version \in Nat /\ <<c, i.version>> \in made /\ i.version <= n
              BY <1>2, <1>5, <1>6, <2>2, <3>2
        <5>2. i.version <= v
              BY <2>1, <5>1
        <5>3. QED BY <2>2, <5>1, <5>2
      <4>2. confs[Host][c] = "whole"
            BY <1>2, <2>2, <3>2 DEF ServingInvariant, ManagerInvariant, BatchInvariant
      <4>3. QED BY <2>2, <4>1, <4>2 DEF Package
    <3>3. QED BY <3>1, <3>2
  <2>3. CASE from < v /\ \A i \in batch : i.host = Host => i.version < v
        BY <1>2, <1>3, <2>1, <2>3
  <2>4. ASSUME NEW w \in Nat, v <= w, w <= from, <<c, w>> \in served[Host]
        PROVE  v <= from /\ <<c, v>> \in served[Host]
    <3>1. <<c, w>> \in made /\ w <= n
          BY <1>2, <1>4, <2>4 DEF MadeInvariant
    <3>2. w = v
          BY <2>1, <2>4, <3>1
    <3>3. QED BY <2>4, <3>2
  <2>5. QED BY <2>1, <2>2, <2>3, <2>4 DEF FetchedInvariant
<1>11. \A c \in Confs : pending[Host][c] # 0 => pending[Host][c] \in amiss \/ n < pending[Host][c]
      BY <1>2, <1>3 DEF ServingInvariant, ManagerInvariant, DrawnInvariant, Later
<1>12. p.holds \subseteq made /\ p.cut \subseteq Confs /\ p.from = from
      BY <1>2, <1>5, PackageOfRun
<1>13. QED BY <1>1, <1>2, <1>4, <1>8, <1>9, <1>10, <1>11, <1>12 DEF Sound

-----------------------------------------------------------------------------
(* The steps of the agent.                                                 *)

\* It starts, ends or gives up, with the files it has.
Rests ==
    /\ apc' \in {"idle", "next"} /\ url' \in {0, url}
    /\ UNCHANGED <<applied, dl, file, last>> /\ todo' \subseteq todo

\* It turns to the server.
Starts ==
    /\ apc' = "head" /\ file' = "json" /\ url' = 1 /\ dl' = NoFiles
    /\ UNCHANGED <<applied, todo, last>>

\* Its request for a file is answered, or fails.
Asks ==
    /\ apc = "head" /\ apc' = "get"
    /\ UNCHANGED <<applied, dl, url, file, todo, last>>

Drops ==
    /\ apc \in {"head", "get"} /\ apc' = "next"
    /\ dl' = [dl EXCEPT ![file] = Torn]
    /\ UNCHANGED <<applied, url, file, todo, last>>

\* A file arrives, or a part of it.
Arrives ==
    /\ apc = "get"
    /\ \/ Directory[file] # Missing /\ dl' = [dl EXCEPT ![file] = Directory[file]]
       \/ dl' = [dl EXCEPT ![file] = Torn]
    /\ \/ file = "json" /\ apc' = "head" /\ file' = "jsonSig"
       \/ file = "jsonSig" /\ apc' = "version" /\ file' = file
       \/ file = "pkg" /\ apc' = "head" /\ file' = "pkgSig"
       \/ file = "pkgSig" /\ apc' = "package" /\ file' = file
    /\ UNCHANGED <<applied, url, todo, last>>

\* version.json, and then the package, passes the tests.
AcceptsVersion ==
    /\ apc = "version" /\ apc' = "head" /\ file' = "pkg"
    /\ dl["json"] \in Releases /\ dl["jsonSig"] = dl["json"]
    /\ UNCHANGED <<applied, dl, url, todo, last>>

AcceptsPackage ==
    /\ apc = "package" /\ apc' = "unpack"
    /\ dl["pkg"] = dl["json"].checksum /\ dl["pkgSig"] = dl["pkg"]
    /\ UNCHANGED <<applied, dl, url, file, todo, last>>

Unpacks ==
    /\ apc = "unpack" /\ apc' = "install" /\ todo' = Brought[dl["pkg"]]
    /\ UNCHANGED <<applied, dl, url, file, last>>

\* install.py copies a file, or fails to.
Copies(c) ==
    /\ apc = "install" /\ apc' = "install" /\ c \in todo /\ todo' = todo \ {c}
    /\ applied' = [applied EXCEPT ![c] = [by |-> dl["json"], whole |-> TRUE]]
    /\ UNCHANGED <<dl, url, file, last, lost>>

Misses(c) ==
    /\ apc = "install" /\ apc' = "install" /\ c \in todo /\ todo' = todo \ {c}
    /\ lost' = lost \cup FailedNow
    /\ UNCHANGED <<applied, dl, url, file, last>>

\* The new version.json is opened, and written.
Opens ==
    /\ apc = "install" /\ todo = {} /\ apc' = "record"
    /\ UNCHANGED <<applied, dl, url, file, todo, last>>

Records ==
    /\ apc = "record" /\ apc' = "idle" /\ last' = dl["json"]
    /\ UNCHANGED <<applied, dl, url, file, todo, lost>>

\* A kill cuts a file short.
Cuts(c) ==
    /\ apc = "install" /\ apc' = "idle" /\ c \in todo /\ todo' = {}
    /\ applied' = [applied EXCEPT ![c] = [by |-> dl["json"], whole |-> FALSE]]
    /\ lost' = lost \cup FailedNow
    /\ UNCHANGED <<dl, url, file, last>>

Calm == \/ Rests \/ Starts \/ Asks \/ Drops \/ Arrives \/ AcceptsVersion \/ AcceptsPackage
        \/ Unpacks \/ Opens

LEMMA AgentKinds ==
    ASSUME AgentTypes, AgentStep \/ AgentTrouble
    PROVE  \/ Calm \/ Records
           \/ \E c \in Confs : Copies(c) \/ Misses(c) \/ Cuts(c)
<1> USE DEF Agent!hostVars, Agent!srvVars, Agent!histVars
<1> DEFINE Kinds == Calm \/ Records \/ \E c \in Confs : Copies(c) \/ Misses(c) \/ Cuts(c)
<1> SUFFICES Kinds
    OBVIOUS
<1>1. /\ DOMAIN <<"singles">> = {1}
      /\ url \in {0, 1} /\ file \in Files /\ todo \subseteq Confs
      /\ apc \notin {"idle", "next"} => url = 1
      /\ <<Directory>>[1] = Directory
      BY DEF AgentTypes
<1>2. CASE Agent!StartRun \/ Agent!EndRun
      BY <1>2 DEF Agent!StartRun, Agent!EndRun, Calm, Rests
<1>3. ASSUME NEW i \in DOMAIN <<"singles">>, Agent!TryUrl(i) PROVE Kinds
  <2>1. Agent!NoFiles = NoFiles
        BY DEF Agent!NoFiles, NoFiles, Agent!Files, Files
  <2>2. QED BY <1>1, <1>3, <2>1 DEF Agent!TryUrl, Calm, Starts
<1>4. CASE Agent!HeadFile
      BY <1>4 DEF Agent!HeadFile, Agent!GiveUp, Calm, Rests, Asks
<1>5. CASE Agent!GetFile
      BY <1>1, <1>5 DEF Agent!GetFile, Agent!GiveUp, Agent!StageAfter, Calm, Rests, Arrives, Files
<1>6. CASE Agent!GetTruncated
      BY <1>1, <1>6 DEF Agent!GetTruncated, Agent!StageAfter, Calm, Arrives, Files
<1>7. CASE Agent!RequestFails
      BY <1>7 DEF Agent!RequestFails, Agent!GiveUp, Calm, Rests, Drops
<1>8. CASE Agent!CheckVersion
      BY <1>8
      DEF Agent!CheckVersion, Agent!VersionAccepted, Agent!Signed, Agent!GiveUp,
          Calm, Rests, AcceptsVersion
<1>9. CASE Agent!CheckPackage
      BY <1>9
      DEF Agent!CheckPackage, Agent!PackageAccepted, Agent!Signed, Agent!GiveUp,
          Calm, Rests, AcceptsPackage
<1>10. CASE Agent!Unpack \/ Agent!UnpackFails
      BY <1>10 DEF Agent!Unpack, Agent!UnpackFails, Agent!GiveUp, Calm, Rests, Unpacks
<1>11. ASSUME NEW c \in Confs, Agent!CopyTarget(c), UNCHANGED lost PROVE Kinds
      BY <1>11 DEF Agent!CopyTarget, Copies
<1>12. ASSUME NEW c \in Confs, Agent!CopyFails(c), lost' = lost \cup FailedNow PROVE Kinds
      BY <1>12 DEF Agent!CopyFails, Misses
<1>13. CASE Agent!OpenRecorded
      BY <1>13 DEF Agent!OpenRecorded, Calm, Opens
<1>14. CASE Agent!WriteRecorded /\ UNCHANGED lost
      BY <1>14 DEF Agent!WriteRecorded, Records
<1>15. CASE Agent!Kill /\ lost' = lost \cup FailedNow
      BY <1>1, <1>15 DEF Agent!Kill, Calm, Rests, Cuts
<1>16. CASE Agent!RecordFails
      BY <1>16 DEF Agent!RecordFails, Calm, Rests
<1>17. CASE AgentStep
      BY <1>2, <1>3, <1>4, <1>5, <1>8, <1>9, <1>10, <1>11, <1>13, <1>14, <1>17
      DEF AgentStep, Agent!AgentStep
<1>18. CASE AgentTrouble
      BY <1>6, <1>7, <1>10, <1>12, <1>15, <1>16, <1>18 DEF AgentTrouble, Agent!Trouble
<1>19. QED BY <1>17, <1>18

\* Either the agent takes a step, or its variables stay.
LEMMA AgentOrManager ==
    ASSUME [SystemNext]_systemVars
    PROVE  \/ (AgentStep \/ AgentTrouble) /\ UNCHANGED <<vars, made>>
           \/ UNCHANGED agentVars /\ [Next]_vars
BY DEF SystemNext, ManagerStep, AgentStep, AgentTrouble, systemVars, Observed

\* A release goes from the manager to the server, and from there to the host.
LEMMA Moves ==
    ASSUME ServingInvariant, AgentTypes, StageInvariant, [SystemNext]_systemVars
    PROVE  /\ \A r : Installed(r)' => Installed(r) \/ Downloaded(r)
           /\ \A r : Downloaded(r)' => Downloaded(r) \/ AtServer(r)
           /\ \A r : AtServer(r)' => AtServer(r) \/ InTmp(r)
           /\ \A r : InTmp(r)' => \/ InTmp(r)
                                  \/ JsonWritten /\ host = Host /\ r = Gist(Json(Host))
<1>1. Host \in Hosts /\ TypeInvariant /\ OriginInvariant
      BY HostAssumption DEF ServingInvariant, ManagerInvariant
<1>2. /\ tmp'[Host]["json"] # Missing =>
            \/ tmp'[Host]["json"] = tmp[Host]["json"]
            \/ JsonWritten /\ host = Host /\ tmp'[Host]["json"] = Json(Host)
      /\ nginx'[Host]["json"] \in {nginx[Host]["json"], tmp[Host]["json"]}
      BY <1>1, ManagerMoves, StepKinds
      DEF EditConfig, CommitConfig, NewWindow, JsonWritten, Passing
<1>3. /\ dl \in [Files -> Arrived] /\ file \in Files /\ "json" \in Files
      /\ applied \in [Confs -> [by : Releases, whole : BOOLEAN]]
      /\ Torn \notin Releases /\ Missing \notin Releases
      BY TornAssumption DEF AgentTypes, Files
<1>4. /\ applied' = applied
         \/ /\ apc = "install"
            /\ \E c \in Confs, b \in BOOLEAN :
                  applied' = [applied EXCEPT ![c] = [by |-> dl["json"], whole |-> b]]
      /\ dl'["json"] \in Releases =>
            \/ dl'["json"] = dl["json"]
            \/ Directory["json"] # Missing /\ dl'["json"] = Directory["json"]
  <2>1. CASE UNCHANGED agentVars
        BY <2>1 DEF agentVars
  <2>2. CASE AgentStep \/ AgentTrouble
    <3>1. CASE Calm
      <4>1. applied' = applied
            BY <3>1
            DEF Calm, Rests, Starts, Asks, Drops, Arrives, AcceptsVersion, AcceptsPackage,
                Unpacks, Opens
      <4>2. \/ dl' = dl \/ dl' = NoFiles
            \/ dl' = [dl EXCEPT ![file] = Torn]
            \/ Directory[file] # Missing /\ dl' = [dl EXCEPT ![file] = Directory[file]]
            BY <3>1
            DEF Calm, Rests, Starts, Asks, Drops, Arrives, AcceptsVersion, AcceptsPackage,
                Unpacks, Opens
      <4>3. QED BY <1>3, <4>1, <4>2 DEF NoFiles
    <3>2. CASE Records
          BY <3>2 DEF Records
    <3>3. ASSUME NEW c \in Confs, Copies(c) \/ Misses(c) \/ Cuts(c)
          PROVE  /\ dl' = dl
                 /\ applied' = applied
                    \/ /\ apc = "install"
                       /\ \E b \in BOOLEAN :
                             applied' = [applied EXCEPT ![c] = [by |-> dl["json"], whole |-> b]]
          BY <3>3 DEF Copies, Misses, Cuts
    <3>4. QED BY <2>2, <3>1, <3>2, <3>3, AgentKinds
  <2>3. QED BY <2>1, <2>2, AgentOrManager
<1>5. ASSUME NEW r, Installed(r)' PROVE Installed(r) \/ Downloaded(r)
  <2>1. apc = "install" => dl["json"] \in Releases
        BY DEF StageInvariant, Trusted
  <2>2. PICK c \in Confs : r = Gist(applied'[c].by)
        BY <1>5 DEF Installed, Gist
  <2>3. applied'[c].by = applied[c].by \/ (apc = "install" /\ applied'[c].by = dl["json"])
        BY <1>3, <1>4
  <2>4. QED BY <2>1, <2>2, <2>3 DEF Installed, Downloaded
<1>6. ASSUME NEW r, Downloaded(r)' PROVE Downloaded(r) \/ AtServer(r)
  <2>1. dl'["json"] \in Releases /\ r = Gist(dl'["json"])
        BY <1>6 DEF Downloaded, Gist, Releases, Packages
  <2>2. Directory["json"] # Missing =>
            /\ nginx[Host]["json"] # Missing
            /\ Directory["json"] = AsRelease(nginx[Host]["json"])
        BY <1>3 DEF Directory
  <2>3. \A j : Gist(AsRelease(j)) = Gist(j)
        BY DEF Gist, AsRelease
  <2>4. QED BY <1>4, <2>1, <2>2, <2>3 DEF Downloaded, AtServer
<1>7. ASSUME NEW r, AtServer(r)' PROVE AtServer(r) \/ InTmp(r)
      BY <1>2, <1>7 DEF AtServer, InTmp, Gist
<1>8. ASSUME NEW r, InTmp(r)' PROVE InTmp(r) \/ (JsonWritten /\ host = Host /\ r = Gist(Json(Host)))
      BY <1>2, <1>8 DEF InTmp, Gist
<1>9. QED BY <1>5, <1>6, <1>7, <1>8

\* Wherever a release is, it is sound.
LEMMA NextSound ==
    ASSUME ServingInvariant, MadeInvariant, CutInvariant, FetchedInvariant, SoundInvariant,
           AgentTypes, StageInvariant, [SystemNext]_systemVars
    PROVE  SoundInvariant'
<1> SUFFICES ASSUME NEW r, InTmp(r)' \/ AtServer(r)' \/ Downloaded(r)' \/ Installed(r)'
             PROVE  Sound(r)'
    BY DEF SoundInvariant
<1>1. Sound(r) => Sound(r)'
      BY SoundStays
<1>2. JsonWritten /\ host = Host /\ r = Gist(Json(Host)) => Sound(r)
      BY JsonSound DEF JsonWritten
<1>3. \/ InTmp(r) \/ AtServer(r) \/ Downloaded(r) \/ Installed(r)
      \/ JsonWritten /\ host = Host /\ r = Gist(Json(Host))
      BY Moves
<1>4. QED BY <1>1, <1>2, <1>3 DEF SoundInvariant

-----------------------------------------------------------------------------
(* The order of the releases.                                              *)

\* The present run comes after a release: so do its items, and its release.
LEMMA RunAfter ==
    ASSUME ServingInvariant, MadeInvariant, CutInvariant, NEW r, BeforeRun(r),
           NEW s, InTmp(s)
    PROVE  Before(r, s)
<1>1. Host \in Hosts /\ s.package = Package(Host)
      BY HostAssumption DEF InTmp, Gist, ServingInvariant, PackedInvariant
<1>2. SUFFICES ASSUME NEW c \in Confs, NEW v \in Nat, <<c, v>> \in r.package.holds
               PROVE  /\ \A w \in Nat : <<c, w>> \in s.package.holds => v <= w
                      /\ c \in s.package.cut => Gone(c, v)
      BY DEF Before
<1>3. ASSUME NEW w \in Nat, <<c, w>> \in s.package.holds PROVE v <= w
  <2>1. PICK i \in batch : i.host = Host /\ <<c, w>> = <<i.conf, i.version>>
        BY <1>1, <1>3, PackageOfRun
  <2>2. i.conf = c /\ i.version = w
        BY <2>1
  <2>3. QED BY <1>2, <2>1, <2>2 DEF BeforeRun
<1>4. ASSUME c \in s.package.cut PROVE Gone(c, v)
  <2>1. confs[Host][c] = "cut"
        BY <1>1, <1>4, PackageOfRun
  <2>2. PICK i \in batch : i.host = Host /\ i.conf = c /\ i.version \in amiss
        BY <2>1 DEF CutInvariant
  <2>3. v <= i.version /\ <<c, i.version>> \in made /\ i.version \in Nat
        BY <1>2, <2>2
        DEF BeforeRun, MadeInvariant, ServingInvariant, ManagerInvariant, TypeInvariant, TypeOK
  <2>4. QED BY <2>2, <2>3 DEF Gone
<1>5. QED BY <1>3, <1>4

\* The release of the run is not behind its items.
LEMMA RunAfterItself ==
    ASSUME ServingInvariant, NEW r, InTmp(r)
    PROVE  BeforeRun(r)
<1>1. Host \in Hosts /\ r.package = Package(Host)
      BY HostAssumption DEF InTmp, Gist, ServingInvariant, PackedInvariant
<1>2. SUFFICES ASSUME NEW i \in batch, NEW v \in Nat, i.host = Host,
                      <<i.conf, v>> \in r.package.holds
               PROVE  v <= i.version
      BY DEF BeforeRun
<1>3. PICK j \in batch : j.host = Host /\ <<i.conf, v>> = <<j.conf, j.version>>
      BY <1>1, <1>2, PackageOfRun
<1>4. i = j
      BY <1>2, <1>3 DEF ServingInvariant, ManagerInvariant, BatchInvariant
<1>5. QED BY <1>3, <1>4

LEMMA BeforeItself ==
    ASSUME NEW r, Sound(r)
    PROVE  Before(r, r)
BY DEF Sound, Before

\* What comes later holds no older edits.
LEMMA NextOrder ==
    ASSUME ServingInvariant, MadeInvariant, CutInvariant, SoundInvariant, OrderInvariant,
           AgentTypes, StageInvariant, [SystemNext]_systemVars
    PROVE  OrderInvariant'
<1>1. \A r, s : Before(r, s) => Before(r, s)'
      BY GoneStays DEF Before
<1>2. \A r, s : (Installed(r) \/ Downloaded(r) \/ AtServer(r)) /\ InTmp(s) => Before(r, s)
      BY RunAfter DEF OrderInvariant
<1>3. \A r, s : \/ AtServer(r) /\ AtServer(s)
                \/ Downloaded(r) /\ Downloaded(s)
                => Before(r, s)
      BY BeforeItself DEF SoundInvariant, AtServer, Downloaded
<1>4. ASSUME NEW r, NEW s, (Installed(r) \/ Downloaded(r))', AtServer(s)'
      PROVE  Before(r, s)'
      BY <1>1, <1>2, <1>3, <1>4, Moves DEF OrderInvariant
<1>5. ASSUME NEW r, NEW s, Installed(r)', Downloaded(s)'
      PROVE  Before(r, s)'
      BY <1>1, <1>2, <1>3, <1>5, Moves DEF OrderInvariant
<1>6. ASSUME NEW r, (Installed(r) \/ Downloaded(r) \/ AtServer(r))' PROVE BeforeRun(r)'
  <2>1. Installed(r) \/ Downloaded(r) \/ AtServer(r) \/ InTmp(r)
        BY <1>6, Moves
  <2>2. CASE UNCHANGED batch
    <3>1. BeforeRun(r)
          BY <2>1, RunAfterItself DEF OrderInvariant
    <3>2. QED BY <2>2, <3>1 DEF BeforeRun
  <2>3. CASE NewWindow
    <3>1. PICK n \in 0 .. seq : batch' \subseteq Updated(n)
          BY <2>3 DEF NewWindow
    <3>2. r.package.holds \subseteq made
          BY <2>1 DEF SoundInvariant, Sound
    <3>3. SUFFICES ASSUME NEW i \in batch', NEW v \in Nat, i.host = Host,
                          <<i.conf, v>> \in r.package.holds
                   PROVE  v <= i.version
          BY DEF BeforeRun
    <3>4. i.conf \in Confs /\ i.version = cur[Host][i.conf]
          BY <3>1, <3>3, UpdatedItems
    <3>5. QED BY <3>2, <3>3, <3>4 DEF MadeInvariant
  <2>4. UNCHANGED batch \/ NewWindow
        BY ManagerMoves, StepKinds
        DEF ServingInvariant, ManagerInvariant, EditConfig, CommitConfig, JsonWritten, Passing
  <2>5. QED BY <2>2, <2>3, <2>4
<1>7. QED BY <1>4, <1>5, <1>6 DEF OrderInvariant

-----------------------------------------------------------------------------
(* What the agent downloads and installs.                                  *)

\* The server's files are those of packages and releases.
LEMMA DirectoryType ==
    ASSUME ServingInvariant, WebInvariant, NEW f \in Files
    PROVE  Directory[f] \in Arrived
<1>1. /\ Host \in Hosts /\ nginx[Host][f] \in PackageType \cup JsonType \cup {Missing}
      /\ nginx[Host]["json"] \in JsonType \cup {Missing}
      /\ nginx[Host]["jsonSig"] \in JsonType \cup {Missing}
      BY HostAssumption
      DEF ServingInvariant, ManagerInvariant, TypeInvariant, TypeOK, FilesInvariant, DirType,
          WebInvariant
<1>2. Directory[f] = IF nginx[Host][f] # Missing /\ f \in {"json", "jsonSig"}
                     THEN AsRelease(nginx[Host][f])
                     ELSE nginx[Host][f]
      BY DEF Directory
<1>3. QED BY <1>1, <1>2 DEF Arrived

\* A package brings configurations.
LEMMA BroughtType ==
    ASSUME NEW p \in Packages
    PROVE  Brought[p] \subseteq Confs
BY DEF Packages, Brought

LEMMA NextAgentTypes ==
    ASSUME ServingInvariant, WebInvariant, AgentTypes, StageInvariant, [SystemNext]_systemVars
    PROVE  AgentTypes'
<1> USE DEF AgentTypes
<1>1. "json" \in Files /\ Torn \in Arrived /\ NoFiles \in [Files -> Arrived]
      BY DEF Arrived, NoFiles, Files
<1>2. CASE UNCHANGED agentVars
      BY <1>2 DEF agentVars, Arrived
<1>3. CASE Calm
  <2>1. dl' \in [Files -> Arrived]
    <3>1. \/ dl' = dl \/ dl' = NoFiles
          \/ dl' = [dl EXCEPT ![file] = Torn]
          \/ dl' = [dl EXCEPT ![file] = Directory[file]]
          BY <1>3
          DEF Calm, Rests, Starts, Asks, Drops, Arrives, AcceptsVersion, AcceptsPackage,
              Unpacks, Opens
    <3>2. Directory[file] \in Arrived
          BY DirectoryType
    <3>3. QED BY <1>1, <3>1, <3>2
  <2>2. todo' \subseteq Confs
    <3>1. CASE Unpacks
      <4>1. dl["pkg"] \in Packages
            BY <3>1 DEF Unpacks, StageInvariant, Trusted, Releases
      <4>2. QED BY <3>1, <4>1, BroughtType DEF Unpacks
    <3>2. CASE ~ Unpacks
          BY <1>3, <3>2
          DEF Calm, Rests, Starts, Asks, Drops, Arrives, AcceptsVersion, AcceptsPackage, Opens
    <3>3. QED BY <3>1, <3>2
  <2>3. /\ applied' = applied /\ url' \in {0, 1} /\ file' \in Files
        /\ apc' \in Agent!PCs /\ (apc' \notin {"idle", "next"} => url' = 1)
        BY <1>3
        DEF Calm, Rests, Starts, Asks, Drops, Arrives, AcceptsVersion, AcceptsPackage,
            Unpacks, Opens, Agent!PCs, Files
  <2>4. QED BY <2>1, <2>2, <2>3 DEF Arrived
<1>4. CASE Records
      BY <1>4 DEF Records, Agent!PCs, Arrived
<1>5. ASSUME NEW c \in Confs, Copies(c) \/ Misses(c) \/ Cuts(c) PROVE AgentTypes'
  <2>1. dl["json"] \in Releases
        BY <1>5 DEF Copies, Misses, Cuts, StageInvariant, Trusted
  <2>2. applied' \in [Confs -> [by : Releases, whole : BOOLEAN]]
    <3>1. \A b \in BOOLEAN : [by |-> dl["json"], whole |-> b] \in [by : Releases, whole : BOOLEAN]
          BY <2>1
    <3>2. \/ applied' = applied
          \/ \E b \in BOOLEAN :
                applied' = [applied EXCEPT ![c] = [by |-> dl["json"], whole |-> b]]
          BY <1>5 DEF Copies, Misses, Cuts
    <3>3. QED BY <3>1, <3>2
  <2>3. UNCHANGED <<dl, url, file>> /\ todo' \subseteq Confs /\ apc = "install" /\ apc' \in {"idle", "install"}
        BY <1>5 DEF Copies, Misses, Cuts
  <2>4. QED BY <2>2, <2>3 DEF Agent!PCs, Arrived, Releases, Packages
<1>6. QED BY <1>2, <1>3, <1>4, <1>5, AgentKinds, AgentOrManager

\* What is installed was signed, and is one release.
LEMMA NextStage ==
    ASSUME AgentTypes, StageInvariant, [SystemNext]_systemVars
    PROVE  StageInvariant'
<1> USE DEF StageInvariant
<1>1. dl \in [Files -> Arrived] /\ file \in Files
      BY DEF AgentTypes
<1>2. CASE UNCHANGED agentVars
      BY <1>2 DEF agentVars, Trusted
<1>3. CASE Rests \/ Starts \/ Asks \/ Drops
      BY <1>3 DEF Rests, Starts, Asks, Drops, Trusted
<1>4. CASE Arrives
  <2>1. file \in {"pkg", "pkgSig"} =>
            Trusted /\ dl'["json"] = dl["json"] /\ dl'["jsonSig"] = dl["jsonSig"]
        BY <1>1, <1>4 DEF Arrives, Trusted, Files
  <2>2. QED BY <1>4, <2>1 DEF Arrives, Trusted
<1>5. CASE AcceptsVersion \/ AcceptsPackage
      BY <1>5 DEF AcceptsVersion, AcceptsPackage, Trusted
<1>6. CASE Unpacks \/ Opens \/ Records
      BY <1>6 DEF Unpacks, Opens, Records, Trusted
<1>7. ASSUME NEW c \in Confs, Copies(c) \/ Misses(c) \/ Cuts(c) PROVE StageInvariant'
      BY <1>7 DEF Copies, Misses, Cuts, Trusted
<1>8. QED BY <1>2, <1>3, <1>4, <1>5, <1>6, <1>7, AgentKinds, AgentOrManager DEF Calm

\* install.py passes by no configuration that it neither copies nor notes.
LEMMA NextCopy ==
    ASSUME ServingInvariant, AgentTypes, StageInvariant, CopyInvariant, [SystemNext]_systemVars
    PROVE  CopyInvariant'
<1> USE DEF CopyInvariant
<1>1. lost \subseteq lost'
      BY GoneStays
<1>2. ASSUME UNCHANGED <<applied, dl>>, apc' \in {"install", "record"} => apc = "install" /\ todo' = todo
      PROVE  CopyInvariant'
      BY <1>1, <1>2
<1>3. CASE UNCHANGED agentVars
      BY <1>1, <1>3 DEF agentVars
<1>4. CASE Calm
  <2>1. CASE Unpacks
        BY <2>1 DEF Unpacks, StageInvariant
  <2>2. CASE ~ Unpacks
        BY <1>2, <1>4, <2>2
        DEF Calm, Rests, Starts, Asks, Drops, Arrives, AcceptsVersion, AcceptsPackage, Opens
  <2>3. QED BY <2>1, <2>2
<1>5. CASE Records
      BY <1>5 DEF Records
<1>6. ASSUME NEW c \in Confs, Copies(c) PROVE CopyInvariant'
  <2>1. /\ apc = "install" /\ todo' = todo \ {c} /\ dl' = dl
        /\ \A d \in Confs : applied'[d] = IF d = c THEN [by |-> dl["json"], whole |-> TRUE]
                                                   ELSE applied[d]
        BY <1>6 DEF Copies, AgentTypes
  <2>2. Brought[dl["json"].checksum] \subseteq Confs
    <3>1. dl["json"].checksum \in Packages
          BY <2>1 DEF StageInvariant, Trusted, Releases
    <3>2. QED BY <3>1, BroughtType
  <2>3. QED BY <1>1, <2>1, <2>2
<1>7. ASSUME NEW c \in Confs, Misses(c) PROVE CopyInvariant'
  <2>1. /\ apc = "install" /\ apc' = "install" /\ c \in todo /\ todo' = todo \ {c}
        /\ UNCHANGED <<applied, dl>>
        /\ lost' = lost \cup FailedNow
        BY <1>7 DEF Misses
  <2>2. \A v \in Nat : <<c, v>> \in dl["json"].checksum.holds => <<c, v>> \in lost'
        BY <2>1 DEF FailedNow
  <2>3. QED BY <1>1, <2>1, <2>2
<1>8. ASSUME NEW c \in Confs, Cuts(c) PROVE CopyInvariant'
      BY <1>8 DEF Cuts
<1>9. QED BY <1>3, <1>4, <1>5, <1>6, <1>7, <1>8, AgentKinds, AgentOrManager

-----------------------------------------------------------------------------
(* What the manager packs and serves.                                      *)

\* A host is packaged once in a run.
LEMMA NextTmp ==
    ASSUME ServingInvariant, TmpInvariant, [SystemNext]_systemVars
    PROVE  TmpInvariant'
<1> USE DEF TmpInvariant
<1>1. /\ Host \in Hosts /\ TypeInvariant /\ tmp \in [Hosts -> DirType]
      /\ Files = {"pkg", "pkgSig", "json", "jsonSig"}
      /\ pc \in {"minor", "json", "sign"} => host \in Hosts
      /\ pc = "sign" => tmp[host]["json"] # Missing
      /\ \A h \in Hosts : tmp[h]["json"] # Missing => tmp[h]["json"].checksum = Package(h)
      /\ pc = "deploy" => left = {}
      BY HostAssumption
      DEF ServingInvariant, ManagerInvariant, TypeInvariant, TypeOK, FilesInvariant,
          PackedInvariant, Files
<1>2. ASSUME tmp' = tmp, pc' = "items" => pc = "items",
             pc' \in {"minor", "json", "sign"} => pc \in {"minor", "json", "sign"} /\ host' = host,
             pc' \in {"minor", "json"} => pc \in {"minor", "json"},
             left' \subseteq left
      PROVE  TmpInvariant'
      BY <1>1, <1>2
<1>3. CASE \/ Databases \/ ReadMinor \/ ReadFails \/ StartDeploying \/ FinishRun \/ Crash
           \/ UNCHANGED vars
      BY <1>2, <1>3
      DEF Databases, EditConfig, CommitConfig, ChangePlatform, BumpVersion, ReadMinor,
          ReadFails, StartDeploying, FinishRun, Crash, vars
<1>4. ASSUME NEW v, NEW answer, BeginRun(v, answer) PROVE TmpInvariant'
  <2>1. pc' = "items" /\ \A f \in Files : tmp'[Host][f] = Missing
        BY <1>1, <1>4 DEF BeginRun, NoFiles
  <2>2. QED BY <1>1, <2>1
<1>5. CASE Fetch \/ \E h \in Hosts : FetchGarbage(h)
  <2>1. \E v \in 0 .. seq : \E answer : BeginRun(v, answer)
        BY <1>5 DEF Fetch, FetchGarbage
  <2>2. QED BY <1>4, <2>1
<1>6. CASE \E i \in items : \/ ProcessItem(i)
                            \/ \E how \in Failures : ItemFails(i, how)
      BY <1>2, <1>6 DEF ProcessItem, ItemFails
<1>7. CASE StartPackaging
  <2>1. tmp' = tmp /\ pc = "items" /\ pc' = "pack"
        BY <1>7 DEF StartPackaging
  <2>2. \A f \in Files : tmp'[Host][f] = Missing
        BY <2>1
  <2>3. QED BY <1>1, <2>1, <2>2
<1>8. ASSUME NEW h \in Hosts, PackHost(h) PROVE TmpInvariant'
  <2>1. /\ pc' = "minor" /\ host' = h /\ h \in left /\ left' = left \ {h} /\ pc = "pack"
        /\ \A f \in Files : tmp'[Host][f] = IF h = Host /\ f = "pkg" THEN Package(h)
                                                                   ELSE tmp[Host][f]
        BY <1>1, <1>8 DEF PackHost, DirType
  <2>2. CASE h = Host
        BY <1>1, <2>1, <2>2
  <2>3. CASE h # Host
        BY <1>1, <2>1, <2>3
  <2>4. QED BY <2>2, <2>3
<1>9. CASE WriteJson
  <2>1. CASE tmp' = tmp
        BY <1>2, <1>9, <2>1 DEF WriteJson
  <2>2. CASE tmp' # tmp
    <3>1. /\ pc = "json" /\ pc' = "sign" /\ host' = host /\ left' = left
          /\ tmp' = [tmp EXCEPT ![host]["json"] = Json(host)]
          BY <1>9, <2>2 DEF WriteJson
    <3>2. \A f \in Files : tmp'[Host][f] = IF host = Host /\ f = "json" THEN Json(host)
                                                                       ELSE tmp[Host][f]
          BY <1>1, <3>1 DEF DirType
    <3>3. Json(host).checksum = tmp[host]["pkg"]
          BY DEF Json
    <3>4. QED BY <1>1, <3>1, <3>2, <3>3
  <2>3. QED BY <2>1, <2>2
<1>10. CASE SignFiles \/ \E fs \in {{}, {"pkg"}, {"json"}} : SignFails(fs)
  <2>1. PICK fs : Sign(fs)
        BY <1>10 DEF SignFiles, SignFails
  <2>2. pc = "sign" /\ pc' = "pack" /\ UNCHANGED <<left, host>>
        BY <1>10 DEF SignFiles, SignFails
  <2>3. \A f \in Files : tmp'[Host][f] =
            IF Host = host /\ f = "pkgSig" /\ "pkg" \in fs THEN tmp[host]["pkg"]
            ELSE IF Host = host /\ f = "jsonSig" /\ "json" \in fs THEN tmp[host]["json"]
            ELSE tmp[Host][f]
    <3>1. CASE Host # host
          BY <1>1, <2>1, <2>2, <3>1 DEF Sign
    <3>2. CASE Host = host
          BY <1>1, <2>1, <2>2, <3>2 DEF Sign, DirType
    <3>3. QED BY <3>1, <3>2
  <2>4. QED BY <1>1, <2>2, <2>3
<1>11. CASE \E h \in Hosts, f \in Files : DeployFile(h, f)
      BY <1>2, <1>11 DEF DeployFile
<1>12. ASSUME NEW h \in Hosts, PackFails(h) PROVE TmpInvariant'
  <2>1. pc = "pack" /\ pc' = "pack" /\ host' = h /\ h \in left /\ left' = left \ {h}
        BY <1>12 DEF PackFails
  <2>2. \A f \in Files : tmp'[Host][f] # tmp[Host][f] => h = Host /\ f = "pkg"
        BY <1>1, <1>12, CutPackage
  <2>3. QED BY <1>1, <2>1, <2>2
<1>13. QED BY <1>3, <1>5, <1>6, <1>7, <1>8, <1>9, <1>10, <1>11, <1>12, ManagerMoves
       DEF Next, Manager, Trouble

\* A file of the host is copied, or the host's directory stays.
LEMMA HostDirectory ==
    ASSUME ServingInvariant, [SystemNext]_systemVars
    PROVE  \/ nginx'[Host] = nginx[Host] /\ served'[Host] = served[Host]
           \/ \E f \in Files :
                /\ DeployFile(Host, f)
                /\ \A e \in Files : nginx'[Host][e] = IF e = f THEN tmp[Host][f] ELSE nginx[Host][e]
                /\ tmp[Host][f] # Missing /\ pc = "deploy" /\ UNCHANGED <<tmp, run, pc>>
<1>1. /\ Host \in Hosts /\ nginx \in [Hosts -> DirType]
      /\ served \in [Hosts -> SUBSET (Confs \X Nat)]
      BY HostAssumption
      DEF ServingInvariant, ManagerInvariant, TypeInvariant, TypeOK, ServedInvariant
<1>2. CASE nginx' = nginx /\ served' = served
      BY <1>2
<1>3. ASSUME NEW h \in Hosts, NEW f \in Files, DeployFile(h, f), h # Host
      PROVE  nginx'[Host] = nginx[Host] /\ served'[Host] = served[Host]
      BY <1>1, <1>3 DEF DeployFile
<1>4. ASSUME NEW f \in Files, DeployFile(Host, f)
      PROVE  /\ \A e \in Files : nginx'[Host][e] = IF e = f THEN tmp[Host][f] ELSE nginx[Host][e]
             /\ tmp[Host][f] # Missing /\ pc = "deploy" /\ UNCHANGED <<tmp, run, pc>>
  <2>1. \A e \in Files : nginx'[Host][e] = IF e = f THEN tmp[Host][f] ELSE nginx[Host][e]
        BY <1>1, <1>4 DEF DeployFile, DirType
  <2>2. pc = "deploy" /\ <<Host, f>> \in copies /\ UNCHANGED <<tmp, run, pc>>
        BY <1>4 DEF DeployFile
  <2>3. tmp[Host][f] # Missing
        BY <2>2 DEF ServingInvariant, ManagerInvariant, OriginInvariant
  <2>4. QED BY <2>1, <2>2, <2>3
<1>5. CASE \/ UNCHANGED vars \/ Databases \/ Trouble
      BY <1>2, <1>5
      DEF Databases, EditConfig, CommitConfig, ChangePlatform, BumpVersion, Trouble, FetchGarbage,
          BeginRun, ItemFails, PackFails, ReadFails, SignFails, Crash, vars
<1>6. CASE Manager
      BY <1>2, <1>3, <1>4, <1>6
      DEF Manager, Fetch, BeginRun, ProcessItem, StartPackaging, PackHost, ReadMinor, WriteJson,
          SignFiles, StartDeploying, FinishRun
<1>7. QED BY <1>5, <1>6, ManagerMoves DEF Next

LEMMA NextWeb ==
    ASSUME ServingInvariant, TmpInvariant, WebInvariant, [SystemNext]_systemVars
    PROVE  WebInvariant'
<1>1. /\ Host \in Hosts /\ served \in [Hosts -> SUBSET (Confs \X Nat)]
      /\ tmp[Host]["json"] \in JsonType \cup {Missing}
      BY HostAssumption
      DEF ServingInvariant, ManagerInvariant, TypeInvariant, FilesInvariant, ServedInvariant
<1>2. CASE nginx'[Host] = nginx[Host] /\ served'[Host] = served[Host]
      BY <1>2 DEF WebInvariant, Complete
<1>3. ASSUME NEW f \in Files, DeployFile(Host, f),
             \A e \in Files : nginx'[Host][e] = IF e = f THEN tmp[Host][f] ELSE nginx[Host][e],
             tmp[Host][f] # Missing
      PROVE  WebInvariant'
  <2>1. nginx'[Host]["jsonSig"] \in JsonType \cup {Missing}
        BY <1>1, <1>3 DEF WebInvariant, TmpInvariant, Files
  <2>2. ASSUME Complete(nginx'[Host]) PROVE nginx'[Host]["pkg"].holds \subseteq served'[Host]
        BY <1>1, <1>3, <2>2 DEF DeployFile
  <2>3. ASSUME served'[Host] # {} PROVE nginx'[Host]["pkg"] # Missing
    <3>1. CASE Complete(nginx'[Host])
      <4>1. nginx'[Host]["json"] \in JsonType
            BY <1>1, <1>3, <3>1
            DEF Complete, Files, ServingInvariant, ManagerInvariant, TypeInvariant, FilesInvariant
      <4>2. QED BY <3>1, <4>1, MissingAssumption DEF Complete, JsonType
    <3>2. CASE ~ Complete(nginx'[Host])
          BY <1>3, <2>3, <3>2 DEF DeployFile, WebInvariant, Files
    <3>3. QED BY <3>1, <3>2
  <2>4. QED BY <2>1, <2>2, <2>3 DEF WebInvariant, Complete
<1>4. QED BY <1>2, <1>3, HostDirectory

-----------------------------------------------------------------------------
(* What has arrived, and what the server has.                              *)

\* A step of the agent changes one file of the downloads, or clears them.
LEMMA Downloads ==
    ASSUME AgentTypes, [SystemNext]_systemVars
    PROVE  \/ dl' = dl
           \/ UNCHANGED vars /\ dl' = NoFiles
           \/ /\ UNCHANGED vars /\ apc \in {"head", "get"}
              /\ \/ dl' = [dl EXCEPT ![file] = Torn]
                 \/ Directory[file] # Missing /\ dl' = [dl EXCEPT ![file] = Directory[file]]
<1>1. CASE UNCHANGED agentVars
      BY <1>1 DEF agentVars
<1>2. CASE Calm /\ UNCHANGED vars
      BY <1>2
      DEF Calm, Rests, Starts, Asks, Drops, Arrives, AcceptsVersion, AcceptsPackage,
          Unpacks, Opens
<1>3. CASE Records \/ \E c \in Confs : Copies(c) \/ Misses(c) \/ Cuts(c)
      BY <1>3 DEF Records, Copies, Misses, Cuts
<1>4. QED BY <1>1, <1>2, <1>3, AgentKinds, AgentOrManager

\* A file as nginx serves it.
LEMMA AsServed ==
    ASSUME NEW f \in Files
    PROVE  /\ Directory[f] = IF nginx[Host][f] # Missing /\ f \in {"json", "jsonSig"}
                             THEN AsRelease(nginx[Host][f])
                             ELSE nginx[Host][f]
           /\ Directory[f] # Missing => /\ nginx[Host][f] # Missing
                                        /\ RunOf(f, Directory[f]) = RunOf(f, nginx[Host][f])
BY DEF Directory, AsRelease, RunOf

\* A directory with all files of a release is complete.
LEMMA AllFiles ==
    ASSUME NEW files, NEW d \in Releases,
           files["json"] \in JsonType \cup {Missing}, files["jsonSig"] \in JsonType \cup {Missing},
           \A f \in Files : Agent!FileOf(d, f) =
              IF files[f] # Missing /\ f \in {"json", "jsonSig"}
              THEN AsRelease(files[f]) ELSE files[f]
    PROVE  Complete(files) /\ files["pkg"] = d.checksum
<1>1. /\ d # Missing
      /\ \A i, j \in JsonType : AsRelease(i) = AsRelease(j) => i = j
  <2>1. \A i, j \in JsonType : AsRelease(i) = AsRelease(j) =>
            i.version = j.version /\ i.platform = j.platform /\ i.checksum = j.checksum
        BY DEF AsRelease
  <2>2. \A i, j \in JsonType : AsRelease(i) = AsRelease(j) => i = j
        BY <2>1 DEF JsonType
  <2>3. QED BY <2>2, TornAssumption
<1>2. files["json"] # Missing /\ AsRelease(files["json"]) = d
      BY <1>1 DEF Agent!FileOf, Files
<1>3. files["jsonSig"] # Missing /\ AsRelease(files["jsonSig"]) = d
      BY <1>1 DEF Agent!FileOf, Files
<1>4. files["pkg"] = d.checksum /\ files["pkgSig"] = d.checksum
      BY DEF Agent!FileOf, Files
<1>5. d.checksum = files["json"].checksum
      BY <1>2 DEF AsRelease
<1>6. files["jsonSig"] = files["json"]
      BY <1>1, <1>2, <1>3
<1>7. QED BY <1>2, <1>4, <1>5, <1>6 DEF Complete

\* The files of a release are neither missing nor cut short.
LEMMA FileOfRelease ==
    ASSUME NEW d \in Releases, NEW f \in Files
    PROVE  /\ Agent!FileOf(d, f) \notin {Missing, Torn}
           /\ RunOf(f, Agent!FileOf(d, f)) = d.checksum.run
<1>1. d.checksum \in Packages
      BY DEF Releases
<1>2. QED BY <1>1, TornAssumption DEF Agent!FileOf, RunOf, Files

LEMMA NextArrival ==
    ASSUME ServingInvariant, TmpInvariant, WebInvariant, WebInvariant', ServingInvariant',
           AgentTypes, StageInvariant, ArrivalInvariant, [SystemNext]_systemVars
    PROVE  ArrivalInvariant'
<1>1. /\ Host \in Hosts /\ run \in Nat /\ "json" \in Files /\ file \in Files
      /\ dl \in [Files -> Arrived]
      /\ \A f \in Files : nginx[Host][f] # Missing =>
            /\ RunOf(f, nginx[Host][f]) \in 0 .. run
            /\ RunOf(f, nginx[Host][f]) = run => nginx[Host][f] = tmp[Host][f]
      /\ nginx[Host]["json"] \in JsonType \cup {Missing}
      /\ nginx'[Host]["json"] \in JsonType \cup {Missing}
      BY HostAssumption
      DEF ServingInvariant, ManagerInvariant, TypeInvariant, FilesInvariant, OriginInvariant,
          AgentTypes, Files
<1>2. served[Host] \subseteq served'[Host]
      BY GoneStays
<1>3. CASE UNCHANGED vars /\ dl' # dl
  <2>1. UNCHANGED <<nginx, run, served>> /\ Directory' = Directory
        BY <1>3 DEF vars, Directory
  <2>2. ASSUME NEW f \in Files, dl'[f] \notin {Missing, Torn}
        PROVE  RunOf(f, dl'[f]) \in 0 .. run /\ (RunOf(f, dl'[f]) = run => dl'[f] = Directory[f])
    <3>1. dl'[f] = dl[f] \/ (dl'[f] = Directory[f] /\ Directory[f] # Missing)
          BY <1>1, <1>3, <2>2, Downloads DEF NoFiles
    <3>2. CASE dl'[f] = dl[f]
          BY <2>2, <3>2 DEF ArrivalInvariant
    <3>3. CASE dl'[f] = Directory[f] /\ Directory[f] # Missing
          BY <1>1, <3>3, AsServed
    <3>4. QED BY <3>1, <3>2, <3>3
  <2>3. ASSUME dl'["json"] \in Releases
        PROVE  \/ dl'["json"].checksum.holds \subseteq served[Host]
               \/ \E f \in Files : Agent!FileOf(dl'["json"], f) \notin {dl'[f], Directory[f]}
    <3>1. /\ apc \in {"head", "get"}
          /\ \/ dl' = [dl EXCEPT ![file] = Torn]
             \/ dl' = [dl EXCEPT ![file] = Directory[file]]
          BY <1>1, <1>3, <2>3, Downloads, TornAssumption DEF NoFiles
    <3>2. CASE file # "json"
      <4>1. dl'["json"] = dl["json"]
            BY <1>1, <3>1, <3>2
      <4>2. CASE dl["json"].checksum.holds \subseteq served[Host]
            BY <4>1, <4>2
      <4>3. ASSUME NEW f \in Files, Agent!FileOf(dl["json"], f) \notin {dl[f], Directory[f]}
            PROVE  Agent!FileOf(dl["json"], f) \notin {dl'[f], Directory[f]}
        <5>1. dl'[f] \in {dl[f], Torn, Directory[f]}
              BY <1>1, <3>1
        <5>2. QED BY <2>3, <4>1, <4>3, <5>1, FileOfRelease
      <4>4. QED BY <2>3, <4>1, <4>2, <4>3 DEF ArrivalInvariant
    <3>3. CASE file = "json"
      <4>1. dl = NoFiles
            BY <3>1, <3>3 DEF StageInvariant
      <4>2. \A f \in Files \ {"json"} : dl'[f] = Missing
            BY <1>1, <3>1, <3>3, <4>1 DEF NoFiles
      <4>3. dl'["json"] = Directory["json"]
            BY <1>1, <2>3, <3>1, <3>3, TornAssumption
      <4>4. CASE \A f \in Files : Agent!FileOf(dl'["json"], f) = Directory[f]
        <5>1. Complete(nginx[Host]) /\ nginx[Host]["pkg"] = dl'["json"].checksum
              BY <1>1, <2>3, <4>4, AllFiles, AsServed DEF WebInvariant
        <5>2. QED BY <5>1 DEF WebInvariant
      <4>5. ASSUME NEW f \in Files, Agent!FileOf(dl'["json"], f) # Directory[f]
            PROVE  Agent!FileOf(dl'["json"], f) \notin {dl'[f], Directory[f]}
        <5>1. f # "json"
              BY <4>3, <4>5 DEF Agent!FileOf
        <5>2. QED BY <2>3, <4>2, <4>5, <5>1, FileOfRelease
      <4>6. QED BY <4>4, <4>5
    <3>4. QED BY <3>2, <3>3
  <2>4. QED BY <2>1, <2>2, <2>3 DEF ArrivalInvariant
<1>4. CASE dl' = dl /\ nginx'[Host] = nginx[Host]
  <2>1. Directory' = Directory
        BY <1>4 DEF Directory
  <2>2. run' \in {run, run + 1}
    <3>1. ASSUME NEW v, NEW answer, BeginRun(v, answer) PROVE run' = run + 1
          BY <3>1 DEF BeginRun
    <3>2. run' = run \/ \E v, answer : BeginRun(v, answer)
          BY ManagerMoves
          DEF Next, Databases, Manager, Trouble, EditConfig, CommitConfig, ChangePlatform,
              BumpVersion, Fetch, FetchGarbage, ProcessItem, ItemFails, StartPackaging, PackHost,
              PackFails, ReadMinor, WriteJson, ReadFails, SignFiles, SignFails, StartDeploying, DeployFile,
              FinishRun, Crash, vars
    <3>3. QED BY <3>1, <3>2
  <2>3. \A f \in Files : dl[f] \notin {Missing, Torn} =>
            RunOf(f, dl[f]) \in 0 .. run' /\ (RunOf(f, dl[f]) = run' => dl[f] = Directory[f])
        BY <1>1, <2>2 DEF ArrivalInvariant
  <2>4. QED BY <1>2, <1>4, <2>1, <2>3 DEF ArrivalInvariant
<1>5. ASSUME dl' = dl, NEW g \in Files, DeployFile(Host, g),
             \A f \in Files : nginx'[Host][f] = IF f = g THEN tmp[Host][g] ELSE nginx[Host][f],
             tmp[Host][g] # Missing, run' = run
      PROVE  ArrivalInvariant'
  <2>1. \A f \in Files : Directory'[f] =
            IF nginx'[Host][f] # Missing /\ f \in {"json", "jsonSig"}
            THEN AsRelease(nginx'[Host][f]) ELSE nginx'[Host][f]
        BY DEF Directory
  <2>2. /\ \A f \in Files \ {g} : Directory'[f] = Directory[f]
        /\ nginx[Host][g] = tmp[Host][g] => Directory'[g] = Directory[g]
        BY <1>5, <2>1, AsServed
  <2>3. RunOf(g, Directory'[g]) = run
    <3>1. RunOf(g, tmp[Host][g]) = run
          BY <1>1, <1>5 DEF ServingInvariant, ManagerInvariant, OriginInvariant
    <3>2. Directory'[g] = IF g \in {"json", "jsonSig"} THEN AsRelease(tmp[Host][g]) ELSE tmp[Host][g]
          BY <1>5, <2>1
    <3>3. AsRelease(tmp[Host][g]).checksum = tmp[Host][g].checksum
          BY DEF AsRelease
    <3>4. QED BY <3>1, <3>2, <3>3 DEF RunOf, Files
  <2>4. ASSUME NEW f \in Files, dl[f] \notin {Missing, Torn}
        PROVE  RunOf(f, dl[f]) \in 0 .. run /\ (RunOf(f, dl[f]) = run => dl[f] = Directory'[f])
    <3>1. RunOf(f, dl[f]) \in 0 .. run /\ (RunOf(f, dl[f]) = run => dl[f] = Directory[f])
          BY <2>4 DEF ArrivalInvariant
    <3>2. CASE f = g /\ RunOf(f, dl[f]) = run
      <4>1. Directory[g] # Missing /\ RunOf(g, Directory[g]) = run
            BY <2>4, <3>1, <3>2
      <4>2. nginx[Host][g] = tmp[Host][g]
            BY <1>1, <4>1, AsServed
      <4>3. QED BY <2>2, <3>1, <3>2, <4>2
    <3>3. QED BY <2>2, <3>1, <3>2
  <2>5. ASSUME dl["json"] \in Releases,
               \A f \in Files : Agent!FileOf(dl["json"], f) \in {dl[f], Directory'[f]}
        PROVE  dl["json"].checksum.holds \subseteq served'[Host]
    <3>1. CASE dl["json"].checksum.holds \subseteq served[Host]
          BY <1>2, <3>1
    <3>2. ASSUME NEW e \in Files, Agent!FileOf(dl["json"], e) \notin {dl[e], Directory[e]}
          PROVE  dl["json"].checksum.holds \subseteq served'[Host]
      <4>1. e = g /\ Agent!FileOf(dl["json"], g) = Directory'[g]
            BY <2>2, <2>5, <3>2
      <4>2. dl["json"].checksum.run = run
            BY <2>3, <2>5, <4>1, FileOfRelease
      <4>3. ASSUME NEW f \in Files PROVE Agent!FileOf(dl["json"], f) = Directory'[f]
        <5>1. CASE Agent!FileOf(dl["json"], f) = dl[f]
          <6>1. dl[f] \notin {Missing, Torn} /\ RunOf(f, dl[f]) = run
                BY <2>5, <4>2, <5>1, FileOfRelease
          <6>2. QED BY <2>4, <5>1, <6>1
        <5>2. QED BY <2>5, <5>1
      <4>4. Complete(nginx'[Host]) /\ nginx'[Host]["pkg"] = dl["json"].checksum
            BY <1>1, <2>1, <2>5, <4>3, AllFiles DEF WebInvariant
      <4>5. QED BY <4>4 DEF WebInvariant, Complete
    <3>3. QED BY <2>5, <3>1, <3>2 DEF ArrivalInvariant
  <2>6. QED BY <1>5, <2>4, <2>5 DEF ArrivalInvariant
<1>6. dl' = dl \/ UNCHANGED vars
      BY Downloads
<1>7. UNCHANGED vars => nginx'[Host] = nginx[Host]
      BY DEF vars
<1>8. QED BY <1>3, <1>4, <1>5, <1>6, <1>7, HostDirectory

-----------------------------------------------------------------------------
(* What is on the host.                                                    *)

\* The configVersion that file a of configuration c has, see Held.
Carries(a, c) ==
    LET brought == {x \in a.by.checksum.holds : x[1] = c}
    IN  IF a.whole /\ brought # {}
        THEN (CHOOSE x \in brought : TRUE)[2]
        ELSE 0

\* It is that of the only edit of c in the release that wrote it whole.
LEMMA CarriesOne ==
    ASSUME NEW c \in Confs, NEW a \in [by : Releases, whole : BOOLEAN],
           \A v, w \in Nat : <<c, v>> \in a.by.checksum.holds /\ <<c, w>> \in a.by.checksum.holds
                              => v = w
    PROVE  /\ Carries(a, c) \in Nat
           /\ Carries(a, c) # 0 => a.whole /\ <<c, Carries(a, c)>> \in a.by.checksum.holds
           /\ a.whole => \A v \in Nat : <<c, v>> \in a.by.checksum.holds => Carries(a, c) = v
<1> DEFINE holds == a.by.checksum.holds
           brought == {x \in holds : x[1] = c}
           one == CHOOSE x \in brought : TRUE
<1>1. holds \subseteq Confs \X Nat
      BY DEF Releases, Packages
<1>2. \A v, w \in Nat : <<c, v>> \in holds /\ <<c, w>> \in holds => v = w
      OBVIOUS
<1>3. brought # {} => one \in brought
      BY Zenon
<1>4. brought # {} => one[2] \in Nat /\ <<c, one[2]>> \in holds
      BY <1>1, <1>3
<1>5. \A v \in Nat : <<c, v>> \in holds => <<c, v>> \in brought
      OBVIOUS
<1>6. Carries(a, c) = IF a.whole /\ brought # {} THEN one[2] ELSE 0
      BY DEF Carries
<1> HIDE DEF one, brought
<1>7. Carries(a, c) \in Nat /\ (Carries(a, c) # 0 => a.whole /\ <<c, Carries(a, c)>> \in holds)
      BY <1>4, <1>6
<1>8. ASSUME a.whole, NEW v \in Nat, <<c, v>> \in holds PROVE Carries(a, c) = v
  <2>1. brought # {}
        BY <1>5, <1>8
  <2>2. QED BY <1>2, <1>4, <1>6, <1>8, <2>1
<1>9. QED BY <1>7, <1>8

\* What the number that configuration c has on the host says.
HeldIs(c) ==
    /\ Held(c) \in Nat
    /\ Held(c) # 0 => applied[c].whole /\ <<c, Held(c)>> \in applied[c].by.checksum.holds
    /\ applied[c].whole => \A v \in Nat : <<c, v>> \in applied[c].by.checksum.holds => Held(c) = v

LEMMA HeldNow == AgentTypes /\ SoundInvariant => \A c \in Confs : HeldIs(c)
<1> SUFFICES ASSUME AgentTypes, SoundInvariant, NEW c \in Confs PROVE HeldIs(c)
    OBVIOUS
<1>1. applied[c] \in [by : Releases, whole : BOOLEAN] /\ Sound(Gist(applied[c].by))
      BY DEF AgentTypes, SoundInvariant, Installed
<1>2. \A v, w \in Nat : /\ <<c, v>> \in applied[c].by.checksum.holds
                        /\ <<c, w>> \in applied[c].by.checksum.holds
                        => v = w
      BY <1>1 DEF Sound, Gist
<1>3. Held(c) = Carries(applied[c], c)
      BY DEF Held, Carries
<1>4. QED BY <1>1, <1>2, <1>3, CarriesOne DEF HeldIs

LEMMA HeldNext ==
    ASSUME AgentTypes', SoundInvariant'
    PROVE  \A c \in Confs : HeldIs(c)'
<1> SUFFICES ASSUME NEW c \in Confs PROVE HeldIs(c)'
    OBVIOUS
<1>1. applied'[c] \in [by : Releases, whole : BOOLEAN] /\ Sound(Gist(applied[c].by))'
      BY DEF AgentTypes, SoundInvariant, Installed
<1>2. \A v, w \in Nat : /\ <<c, v>> \in applied'[c].by.checksum.holds
                        /\ <<c, w>> \in applied'[c].by.checksum.holds
                        => v = w
      BY <1>1 DEF Sound, Gist
<1>3. Held(c)' = Carries(applied'[c], c)
      BY DEF Held, Carries
<1>4. QED BY <1>1, <1>2, <1>3, CarriesOne DEF HeldIs

\* Only what was complete is installed, and what was complete is served.
LEMMA InstallsServed ==
    ASSUME AgentTypes, StageInvariant, ArrivalInvariant, apc = "install"
    PROVE  /\ dl["json"] \in Releases
           /\ dl["json"].checksum.holds \subseteq Confs \X Nat
           /\ dl["json"].checksum.holds \subseteq served[Host]
<1>1. /\ dl["json"] \in Releases /\ dl["jsonSig"] = dl["json"]
      /\ dl["pkg"] = dl["json"].checksum /\ dl["pkgSig"] = dl["pkg"]
      BY DEF StageInvariant, Trusted
<1>2. \A f \in Files : Agent!FileOf(dl["json"], f) = dl[f]
      BY <1>1 DEF Agent!FileOf, Files
<1>3. dl["json"].checksum.holds \subseteq Confs \X Nat
      BY <1>1 DEF Releases, Packages
<1>4. QED BY <1>1, <1>2, <1>3 DEF ArrivalInvariant

\* What install.py copies over a file is not older than the file, or cut short.
LEMMA InstallsLater ==
    ASSUME AgentTypes, StageInvariant, SoundInvariant, OrderInvariant,
           apc = "install", NEW c \in todo
    PROVE  /\ c \in Confs
           /\ \/ \E w \in Nat : <<c, w>> \in dl["json"].checksum.holds /\ Held(c) <= w
              \/ c \in dl["json"].checksum.cut /\ (Held(c) = 0 \/ Gone(c, Held(c)))
<1> DEFINE p == dl["json"].checksum
<1>1. /\ dl["json"] \in Releases /\ c \in Confs /\ c \in Brought[p]
      BY DEF StageInvariant, Trusted, AgentTypes
<1>2. p \in Packages /\ p.holds \subseteq Confs \X Nat
      BY <1>1 DEF Releases, Packages
<1>3. c \in p.cut \/ \E w \in Nat : <<c, w>> \in p.holds
      BY <1>1, <1>2 DEF Brought
<1>4. HeldIs(c)
      BY <1>1, HeldNow
<1>5. CASE Held(c) = 0
      BY <1>1, <1>3, <1>5
<1>6. CASE Held(c) # 0
  <2>1. Held(c) \in Nat /\ <<c, Held(c)>> \in applied[c].by.checksum.holds
        BY <1>4, <1>6 DEF HeldIs
  <2>2. Before(Gist(applied[c].by), Gist(dl["json"]))
        BY <1>1 DEF OrderInvariant, Installed, Downloaded
  <2>3. /\ Gist(applied[c].by).package = applied[c].by.checksum
        /\ Gist(dl["json"]).package = p
        BY DEF Gist
  <2>4. /\ \A w \in Nat : <<c, w>> \in p.holds => Held(c) <= w
        /\ c \in p.cut => Gone(c, Held(c))
        BY <1>1, <2>1, <2>2, <2>3 DEF Before
  <2>5. QED BY <1>1, <1>3, <2>4
<1>7. QED BY <1>5, <1>6

\* What is gone, is gone with all that came before.
LEMMA GoneBefore ==
    ASSUME NEW c, NEW w \in Nat, NEW v \in Nat, v <= w, Gone(c, w)
    PROVE  Gone(c, v)
BY DEF Gone

\* What was served arrives, waits at the server, or is given up.
LEMMA NextDelivered ==
    ASSUME ServingInvariant, MadeInvariant, SoundInvariant, OrderInvariant, AgentTypes,
           StageInvariant, TmpInvariant, WebInvariant, ArrivalInvariant, DeliveredInvariant,
           AgentTypes', SoundInvariant', WebInvariant', [SystemNext]_systemVars
    PROVE  DeliveredInvariant'
<1> SUFFICES ASSUME NEW c \in Confs, NEW v \in Nat, <<c, v>> \in served'[Host]
             PROVE  Ahead(c, v)' \/ Held(c)' >= v \/ Gone(c, v)'
    BY DEF DeliveredInvariant
<1>1. /\ served[Host] \subseteq served'[Host] /\ made \subseteq made'
      /\ \A w \in Nat : Gone(c, w) => Gone(c, w)'
      /\ served[Host] \subseteq made /\ made \subseteq Confs \X Nat
      /\ \A d \in Confs, w \in Nat : <<d, w>> \in made => w > 0
      BY GoneStays DEF MadeInvariant
<1>2. HeldIs(c) /\ HeldIs(c)'
      BY HeldNow, HeldNext
<1>3. Held(c) \in Nat
      BY <1>2 DEF HeldIs
<1>4. ASSUME applied' = applied PROVE Held(c)' = Held(c)
      BY <1>4 DEF Held
<1>5. CASE applied' = applied /\ nginx'[Host] = nginx[Host] /\ served'[Host] = served[Host]
      BY <1>1, <1>4, <1>5 DEF DeliveredInvariant, Ahead
<1>6. CASE applied' = applied /\ \E g \in Files : DeployFile(Host, g)
  <2>1. CASE <<c, v>> \notin served[Host]
    <3>1. <<c, v>> \in nginx'[Host]["pkg"].holds
      <4>1. Host \in Hosts /\ served \in [Hosts -> SUBSET (Confs \X Nat)]
            BY HostAssumption DEF ServingInvariant, ServedInvariant
      <4>2. served' \in {served, [served EXCEPT ![Host] = @ \cup nginx'[Host]["pkg"].holds]}
            BY <1>6 DEF DeployFile
      <4>3. QED BY <2>1, <4>1, <4>2
    <3>2. QED BY <3>1 DEF Ahead
  <2>2. CASE <<c, v>> \in served[Host] /\ Ahead(c, v)
    <3>1. PICK w \in Nat : v <= w /\ <<c, w>> \in nginx[Host]["pkg"].holds \cap served[Host]
          BY <2>2 DEF Ahead
    <3>2. CASE <<c, w>> \in nginx'[Host]["pkg"].holds
          BY <1>1, <3>1, <3>2 DEF Ahead
    <3>3. CASE <<c, w>> \notin nginx'[Host]["pkg"].holds
      <4>1. nginx'[Host]["pkg"] # nginx[Host]["pkg"]
            BY <3>1, <3>3
      <4>2. lost' = lost \cup Replaced
            BY <4>1 DEF SystemNext, ManagerStep, AgentStep, AgentTrouble, Observed, systemVars, vars
      <4>3. Held(c) >= w \/ <<c, w>> \in Replaced
        <5>1. <<c, w>>[1] = c /\ <<c, w>>[2] = w
              OBVIOUS
        <5>2. Held(c) < w => <<c, w>> \in Replaced
              BY <3>1, <3>3, <4>1, <5>1 DEF Replaced
        <5>3. QED BY <1>3, <5>2
      <4>4. <<c, w>> \in Replaced => Gone(c, v)'
            BY <1>1, <3>1, <4>2 DEF Gone
      <4>5. QED BY <1>3, <1>4, <1>6, <3>1, <4>3, <4>4
    <3>4. QED BY <3>2, <3>3
  <2>3. CASE <<c, v>> \in served[Host] /\ ~ Ahead(c, v)
        BY <1>1, <1>4, <1>6, <2>3 DEF DeliveredInvariant
  <2>4. QED BY <2>1, <2>2, <2>3
<1>7. ASSUME NEW d \in Confs, Copies(d) \/ Cuts(d), UNCHANGED vars, applied' # applied
      PROVE  Ahead(c, v)' \/ Held(c)' >= v \/ Gone(c, v)'
  <2>1. apc = "install" /\ d \in todo
        BY <1>7 DEF Copies, Cuts
  <2>2. /\ nginx' = nginx /\ served' = served /\ <<c, v>> \in served[Host] /\ v > 0
        /\ Ahead(c, v) => Ahead(c, v)'
        BY <1>1, <1>7 DEF vars, Ahead
  <2>3. /\ \A e \in Confs \ {d} : applied'[e] = applied[e]
        /\ applied'[d] # applied[d]
        /\ Copies(d) => applied'[d] = [by |-> dl["json"], whole |-> TRUE]
        BY <1>7 DEF Copies, Cuts, AgentTypes
  <2>4. CASE Ahead(c, v) \/ Gone(c, v)
        BY <1>1, <2>2, <2>4
  <2>5. CASE Held(c) >= v /\ c # d
    <3>1. Held(c) = Carries(applied[c], c) /\ Held(c)' = Carries(applied'[c], c)
          BY DEF Held, Carries
    <3>2. applied'[c] = applied[c]
          BY <2>3, <2>5
    <3>3. QED BY <2>5, <3>1, <3>2
  <2>6. CASE Held(c) >= v /\ c = d
    <3>1. \/ \E w \in Nat : <<c, w>> \in dl["json"].checksum.holds /\ Held(c) <= w
          \/ Gone(c, Held(c))
          BY <1>3, <2>1, <2>2, <2>6, InstallsLater
    <3>2. CASE Gone(c, Held(c))
          BY <1>1, <1>3, <2>6, <3>2, GoneBefore
    <3>3. ASSUME NEW w \in Nat, <<c, w>> \in dl["json"].checksum.holds, Held(c) <= w
          PROVE  Ahead(c, v)' \/ Held(c)' >= v \/ Gone(c, v)'
      <4>1. v <= w
            BY <1>3, <2>6, <3>3
      <4>2. CASE Copies(d)
        <5>1. applied'[c].whole /\ <<c, w>> \in applied'[c].by.checksum.holds
              BY <2>3, <2>6, <3>3, <4>2
        <5>2. Held(c)' = w
              BY <1>2, <5>1 DEF HeldIs
        <5>3. QED BY <4>1, <5>2
      <4>3. CASE Cuts(d)
        <5>1. <<c, w>> \in served[Host]
              BY <2>1, <3>3, InstallsServed
        <5>2. CASE <<c, w>> \in nginx[Host]["pkg"].holds
              BY <2>2, <4>1, <5>1, <5>2 DEF Ahead
        <5>3. CASE <<c, w>> \notin nginx[Host]["pkg"].holds
          <6>1. <<c, w>>[1] = c
                OBVIOUS
          <6>2. <<c, w>> \in FailedNow
                BY <2>1, <2>3, <2>6, <3>3, <5>3, <6>1 DEF FailedNow
          <6>3. <<c, w>> \in lost' /\ <<c, w>> \in made'
                BY <1>1, <4>3, <5>1, <6>2 DEF Cuts
          <6>4. QED BY <4>1, <6>3 DEF Gone
        <5>4. QED BY <5>2, <5>3
      <4>4. QED BY <1>7, <4>2, <4>3
    <3>4. QED BY <3>1, <3>2, <3>3
  <2>7. QED BY <2>2, <2>4, <2>5, <2>6 DEF DeliveredInvariant
<1>8. \/ applied' = applied
      \/ UNCHANGED vars /\ \E d \in Confs : Copies(d) \/ Cuts(d)
  <2>1. CASE UNCHANGED agentVars
        BY <2>1 DEF agentVars
  <2>2. CASE Calm \/ Records \/ \E d \in Confs : Misses(d)
        BY <2>2
        DEF Calm, Rests, Starts, Asks, Drops, Arrives, AcceptsVersion, AcceptsPackage,
            Unpacks, Opens, Records, Misses
  <2>3. QED BY <2>1, <2>2, AgentKinds, AgentOrManager
<1>9. UNCHANGED vars => nginx'[Host] = nginx[Host] /\ served'[Host] = served[Host]
      BY DEF vars
<1>10. QED BY <1>5, <1>6, <1>7, <1>8, <1>9, HostDirectory

\* The agent has got a package, or is about to verify it.
Beyond ==
    \/ apc \in {"head", "get"} /\ file = "pkgSig"
    \/ apc \in {"package", "unpack", "install", "record"}

\* When a package arrives, what it leaves to earlier ones is on the host.
LEMMA PackageArrives ==
    ASSUME MadeInvariant, SoundInvariant, DeliveredInvariant,
           AgentTypes, SoundInvariant,
           dl["json"] \in Releases, Directory["pkg"] = dl["json"].checksum,
           NEW c \in Confs, NEW v \in Nat,
           LastUpTo(c, v, dl["json"].version.build), v <= dl["json"].checksum.from
    PROVE  Held(c) >= v \/ Gone(c, v)
<1> DEFINE p == dl["json"].checksum
           n == dl["json"].version.build
<1>1. Sound(Gist(dl["json"])) /\ Gist(dl["json"]) = [build |-> n, package |-> p]
      BY DEF SoundInvariant, Downloaded, Gist
<1>2. /\ p.from \in Nat /\ n \in Nat /\ p.holds \subseteq made
      /\ \A w \in Nat : <<c, w>> \in p.holds => p.from < w /\ (w <= n \/ Gone(c, w))
      /\ \/ <<c, v>> \in p.holds
         \/ Gone(c, v)
         \/ <<c, v>> \in served[Host]
      BY <1>1 DEF Sound
<1>3. CASE Gone(c, v)
      BY <1>3
<1>4. CASE <<c, v>> \in p.holds
      BY <1>2, <1>4
<1>5. CASE <<c, v>> \in served[Host] /\ Ahead(c, v)
  <2>1. nginx[Host]["pkg"] = p
        BY AsServed DEF Files
  <2>2. PICK w \in Nat : v <= w /\ <<c, w>> \in p.holds
        BY <1>5, <2>1 DEF Ahead
  <2>3. v < w /\ <<c, w>> \in made
        BY <1>2, <2>2
  <2>4. ~ (w <= n)
        BY <2>3 DEF LastUpTo
  <2>5. Gone(c, w)
        BY <1>2, <2>2, <2>4
  <2>6. QED BY <2>2, <2>5, GoneBefore
<1>6. CASE <<c, v>> \in served[Host] /\ ~ Ahead(c, v)
      BY <1>6 DEF DeliveredInvariant
<1>7. QED BY <1>2, <1>3, <1>4, <1>5, <1>6

LEMMA NextBehind ==
    ASSUME ServingInvariant, MadeInvariant, SoundInvariant, AgentTypes, StageInvariant,
           DeliveredInvariant, BehindInvariant, AgentTypes', SoundInvariant',
           [SystemNext]_systemVars
    PROVE  BehindInvariant'
<1> SUFFICES ASSUME Beyond', dl'["pkg"] = dl'["json"].checksum,
                    NEW c \in Confs, NEW v \in Nat,
                    LastUpTo(c, v, dl["json"].version.build)', v <= dl'["json"].checksum.from
             PROVE  Held(c)' >= v \/ Gone(c, v)'
    BY DEF BehindInvariant, Beyond
<1>1. /\ Gone(c, v) => Gone(c, v)'
      /\ made \subseteq made' /\ amiss \subseteq amiss'
      BY GoneStays
<1>2. /\ Held(c) = Carries(applied[c], c) /\ Held(c)' = Carries(applied'[c], c)
      /\ HeldIs(c) /\ HeldIs(c)'
      BY HeldNow, HeldNext DEF Held, Carries
<1>3. Beyond => dl["json"] \in Releases
      BY DEF Beyond, StageInvariant, Trusted
<1>4. CASE UNCHANGED agentVars
  <2>1. dl' = dl /\ applied' = applied /\ Beyond
        BY <1>4 DEF agentVars, Beyond
  <2>2. CASE <<c, v>> \in made
    <3>1. LastUpTo(c, v, dl["json"].version.build)
          BY <1>1, <2>1, <2>2 DEF LastUpTo
    <3>2. QED BY <1>1, <1>2, <2>1, <3>1 DEF BehindInvariant, Beyond
  <2>3. CASE <<c, v>> \notin made
    <3>1. v = pending[Host][c] /\ v # 0 /\ <<c, v>> \in made'
          BY <2>3, NewEdits DEF LastUpTo
    <3>2. Sound(Gist(dl["json"])) /\ v <= Gist(dl["json"]).build
          BY <1>3, <2>1 DEF SoundInvariant, Downloaded, LastUpTo, Gist
    <3>3. v \in amiss
          BY <3>1, <3>2 DEF Sound
    <3>4. QED BY <1>1, <3>1, <3>3 DEF Gone
  <2>4. QED BY <2>2, <2>3
<1>5. ASSUME dl'["json"] = dl["json"], dl'["pkg"] = dl["pkg"], applied' = applied, Beyond,
             made' = made
      PROVE  Held(c)' >= v \/ Gone(c, v)'
  <2>1. LastUpTo(c, v, dl["json"].version.build)
        BY <1>5 DEF LastUpTo
  <2>2. QED BY <1>1, <1>2, <1>5, <2>1 DEF BehindInvariant, Beyond
<1>6. CASE (Calm \/ Records) /\ ~ Arrives /\ made' = made
  <2>1. dl' = dl /\ applied' = applied /\ Beyond
        BY <1>6
        DEF Calm, Rests, Starts, Asks, Drops, AcceptsVersion, AcceptsPackage,
            Unpacks, Opens, Records, Beyond
  <2>2. QED BY <1>5, <1>6, <2>1
<1>7. CASE Arrives /\ made' = made
  <2>1. file \in {"pkg", "pkgSig"} /\ apc = "get" /\ applied' = applied
        BY <1>7 DEF Arrives, Beyond
  <2>2. dl \in [Files -> Arrived] /\ "json" \in Files /\ "pkg" \in Files
        BY DEF AgentTypes, Files
  <2>3. CASE file = "pkgSig"
    <3>1. dl'["json"] = dl["json"] /\ dl'["pkg"] = dl["pkg"]
          BY <1>7, <2>2, <2>3 DEF Arrives
    <3>2. QED BY <1>5, <1>7, <2>1, <2>3, <3>1 DEF Beyond
  <2>4. CASE file = "pkg"
    <3>1. dl'["json"] = dl["json"] /\ dl'["pkg"] \in {Torn, Directory["pkg"]}
          BY <1>7, <2>2, <2>4 DEF Arrives
    <3>2. dl["json"] \in Releases
          BY <2>1, <2>4 DEF StageInvariant, Trusted
    <3>3. dl["json"].checksum # Torn
          BY <3>2, TornAssumption DEF Releases
    <3>4. Directory["pkg"] = dl["json"].checksum
          BY <3>1, <3>3
    <3>5. LastUpTo(c, v, dl["json"].version.build)
          BY <1>7, <3>1 DEF LastUpTo
    <3>6. Held(c) >= v \/ Gone(c, v)
          BY <3>1, <3>2, <3>4, <3>5, PackageArrives
    <3>7. QED BY <1>1, <1>2, <2>1, <3>6
  <2>5. QED BY <2>1, <2>3, <2>4
<1>8. ASSUME NEW d \in Confs, Copies(d) \/ Misses(d) \/ Cuts(d), made' = made
      PROVE  Held(c)' >= v \/ Gone(c, v)'
  <2>1. ~ Cuts(d) /\ Beyond /\ dl' = dl
        BY <1>8 DEF Copies, Misses, Cuts, Beyond
  <2>2. LastUpTo(c, v, dl["json"].version.build)
        BY <1>8, <2>1 DEF LastUpTo
  <2>3. Held(c) >= v \/ Gone(c, v)
        BY <2>1, <2>2 DEF BehindInvariant, Beyond
  <2>4. CASE applied'[c] = applied[c]
        BY <1>1, <1>2, <2>3, <2>4
  <2>5. CASE applied'[c] # applied[c]
    <3>1. /\ Copies(d) /\ c = d /\ apc = "install" /\ c \in todo
          /\ applied'[c] = [by |-> dl["json"], whole |-> TRUE]
          BY <1>8, <2>1, <2>5 DEF Copies, Misses, AgentTypes
    <3>2. dl["json"].checksum \in Packages /\ c \in Brought[dl["json"].checksum]
          BY <1>3, <2>1, <3>1 DEF StageInvariant, Releases
    <3>3. Sound(Gist(dl["json"])) /\ Gist(dl["json"]).package = dl["json"].checksum
          BY <1>3, <2>1 DEF SoundInvariant, Downloaded, Gist
    <3>4. CASE c \in dl["json"].checksum.cut
      <4>1. PICK w \in Nat : dl["json"].checksum.from < w /\ Gone(c, w)
            BY <3>3, <3>4 DEF Sound
      <4>2. v <= w
            BY <2>1, <3>3, <4>1 DEF Sound
      <4>3. QED BY <1>1, <4>1, <4>2, GoneBefore
    <3>5. CASE c \notin dl["json"].checksum.cut
      <4>1. PICK w \in Nat : <<c, w>> \in dl["json"].checksum.holds
            BY <3>2, <3>5 DEF Brought, Packages
      <4>2. dl["json"].checksum.from < w
            BY <3>3, <4>1 DEF Sound
      <4>3. Held(c)' = w
        <5>1. applied'[c].whole /\ <<c, w>> \in applied'[c].by.checksum.holds
              BY <3>1, <4>1
        <5>2. QED BY <1>2, <5>1 DEF HeldIs
      <4>4. QED BY <2>1, <3>3, <4>2, <4>3 DEF Sound
    <3>6. QED BY <3>4, <3>5
  <2>6. QED BY <2>4, <2>5
<1>9. QED BY <1>4, <1>6, <1>7, <1>8, AgentKinds, AgentOrManager

-----------------------------------------------------------------------------
(* The invariant holds.                                                    *)

LEMMA InitSystem == SystemInit => SystemInvariant
<1> SUFFICES ASSUME SystemInit PROVE SystemInvariant
    OBVIOUS
<1> USE DEF Init, Agent!Init
<1>1. Init /\ Agent!Init /\ made = {} /\ lost = {} /\ Host \in Hosts
      BY HostAssumption DEF SystemInit
<1>2. ServingInvariant
      BY <1>1, InitServing
<1>3. /\ Base \in Releases
      /\ Gist(Base) = [build |-> 0, package |-> [run |-> 0, from |-> 0, holds |-> {}, cut |-> {}]]
      BY PlatformsAssumption, BoundsAssumption
      DEF Base, Releases, Packages, FirstVersion, Version, Gist
<1>4. /\ \A r : Installed(r) => r = Gist(Base)
      /\ \A r : ~ InTmp(r) /\ ~ AtServer(r) /\ ~ Downloaded(r)
  <2>1. tmp[Host]["json"] = Missing /\ nginx[Host]["json"] = Missing
        BY <1>1 DEF NoFiles, Files
  <2>2. dl["json"] \notin Releases
        BY <1>1, TornAssumption DEF Agent!NoFiles, Agent!Files
  <2>3. QED BY <1>1, <2>1, <2>2 DEF Installed, InTmp, AtServer, Downloaded
<1>5. Sound(Gist(Base))
      BY <1>1, <1>3 DEF Sound, LastUpTo
<1>6. MadeInvariant /\ CutInvariant /\ FetchedInvariant
      BY <1>1 DEF MadeInvariant, CutInvariant, FetchedInvariant, NoConfs
<1>7. SoundInvariant /\ OrderInvariant
      BY <1>1, <1>4, <1>5 DEF SoundInvariant, OrderInvariant, BeforeRun
<1>8. AgentTypes
  <2>1. dl \in [Files -> Arrived]
        BY <1>1 DEF Agent!NoFiles, Agent!Files, Files, Arrived
  <2>2. applied \in [Confs -> [by : Releases, whole : BOOLEAN]]
        BY <1>1, <1>3
  <2>3. QED BY <1>1, <2>1, <2>2 DEF AgentTypes, Agent!PCs, Files
<1>9. StageInvariant /\ CopyInvariant /\ BehindInvariant
      BY <1>1 DEF StageInvariant, CopyInvariant, BehindInvariant, Trusted
<1>10. TmpInvariant /\ WebInvariant
       BY <1>1 DEF TmpInvariant, WebInvariant, NoFiles, Files, Complete
<1>11. ArrivalInvariant /\ DeliveredInvariant
  <2>1. \A f \in Files : dl[f] = Missing
        BY <1>1 DEF Agent!NoFiles, Agent!Files, Files
  <2>2. QED BY <1>1, <2>1, TornAssumption DEF ArrivalInvariant, DeliveredInvariant, Files
<1>12. QED BY <1>2, <1>6, <1>7, <1>8, <1>9, <1>10, <1>11 DEF SystemInvariant

LEMMA SystemInductive ==
    SystemInvariant /\ ServingInvariant' /\ [SystemNext]_systemVars => SystemInvariant'
<1> SUFFICES ASSUME SystemInvariant, ServingInvariant', [SystemNext]_systemVars
             PROVE  SystemInvariant'
    OBVIOUS
<1> USE DEF SystemInvariant
<1>1. MadeInvariant' /\ CutInvariant' /\ FetchedInvariant'
      BY NextMade, NextCut, NextFetched
<1>2. SoundInvariant' /\ OrderInvariant'
      BY NextSound, NextOrder
<1>3. AgentTypes' /\ StageInvariant' /\ CopyInvariant'
      BY NextAgentTypes, NextStage, NextCopy
<1>4. TmpInvariant' /\ WebInvariant'
      BY NextTmp, NextWeb
<1>5. ArrivalInvariant'
      BY <1>4, NextArrival
<1>6. DeliveredInvariant' /\ BehindInvariant'
      BY <1>2, <1>3, <1>4, NextDelivered, NextBehind
<1>7. QED BY <1>1, <1>2, <1>3, <1>4, <1>5, <1>6

\* The system keeps the invariant, and what UpdateManager promises.
LEMMA SystemInvariance == SystemSpec => []SystemInvariant
<1>1. SystemInit => Init
      BY DEF SystemInit
<1>2. SystemSpec => Spec
      BY <1>1, ManagerMoves, PTL DEF SystemSpec, Spec
<1>3. SystemSpec => []ServingInvariant
      BY <1>2, ServingInvariance, PTL
<1>4. QED BY <1>3, InitSystem, SystemInductive, PTL DEF SystemSpec

-----------------------------------------------------------------------------
(* The refinement.                                                         *)

\* What ConfigDelivery calls held and givenUp.
OnHost == [c \in Confs |-> Held(c)]

GivenUp == (Confs \X amiss) \cup lost

\* The number recorded on the host is a claim that is kept.
LEMMA ClaimKept ==
    ASSUME SystemInvariant, apc = "record", NEW c \in Confs, NEW v \in Nat,
           LastUpTo(c, v, dl["json"].version.build)
    PROVE  Held(c) >= v \/ Gone(c, v)
<1> USE DEF SystemInvariant
<1> DEFINE p == dl["json"].checksum
           n == dl["json"].version.build
<1>1. /\ dl["json"] \in Releases /\ dl["pkg"] = p /\ todo = {}
      /\ p \in Packages
      BY DEF StageInvariant, Trusted, Releases
<1>2. Sound(Gist(dl["json"])) /\ Gist(dl["json"]) = [build |-> n, package |-> p]
      BY <1>1 DEF SoundInvariant, Downloaded, Gist
<1>3. \/ <<c, v>> \in p.holds
      \/ Gone(c, v)
      \/ v <= p.from /\ <<c, v>> \in served[Host]
      BY <1>2 DEF Sound
<1>4. CASE <<c, v>> \in p.holds
  <2>1. <<c, v>>[1] = c
        OBVIOUS
  <2>2. c \in Brought[p]
        BY <1>1, <1>4, <2>1 DEF Brought
  <2>3. CASE applied[c] = [by |-> dl["json"], whole |-> TRUE]
    <3>1. applied[c].whole /\ <<c, v>> \in applied[c].by.checksum.holds
          BY <1>4, <2>3
    <3>2. Held(c) = v
          BY <3>1, HeldNow DEF HeldIs
    <3>3. QED BY <3>2
  <2>4. CASE <<c, v>> \in lost
        BY <2>4 DEF Gone, LastUpTo
  <2>5. QED BY <1>1, <1>4, <2>2, <2>3, <2>4 DEF CopyInvariant
<1>5. CASE v <= p.from
      BY <1>1, <1>5 DEF BehindInvariant
<1>6. QED BY <1>3, <1>4, <1>5

\* Every step is one of the promise, or none to it.
LEMMA StepPromised ==
    ASSUME SystemInvariant, SystemInvariant', [SystemNext]_systemVars
    PROVE  [Delivery!Promised]_(Delivery!vars)
<1> USE DEF SystemInvariant
<1>1. /\ amiss \subseteq amiss' /\ lost \subseteq lost' /\ GivenUp \subseteq GivenUp'
      /\ made \subseteq Confs \X Nat
      BY GoneStays DEF MadeInvariant, GivenUp
<1>2. \A c \in Confs : HeldIs(c) /\ HeldIs(c)'
      BY HeldNow, HeldNext
<1>3. /\ OnHost \in [Confs -> Nat] /\ OnHost' \in [Confs -> Nat]
      /\ \A c \in Confs : OnHost[c] = Held(c) /\ OnHost'[c] = Held(c)'
      BY <1>2 DEF OnHost, HeldIs
<1>4. ASSUME OnHost' = OnHost, made' = made, last' = last
      PROVE  Delivery!GiveUp(GivenUp')
      BY <1>1, <1>4 DEF Delivery!GiveUp, OnHost, GivenUp
<1>5. ASSUME applied' = applied PROVE OnHost' = OnHost
      BY <1>5 DEF OnHost, Held
<1>6. ASSUME NEW c \in Confs, Commits(c) PROVE Delivery!Promised
  <2>1. UNCHANGED <<OnHost, GivenUp, last>>
        BY <1>5, <1>6 DEF Commits, agentVars, GivenUp
  <2>2. /\ pending[Host][c] # 0 /\ made' = made \cup {<<c, pending[Host][c]>>}
        /\ cur[Host][c] < pending[Host][c] /\ pending[Host][c] \in Nat /\ cur[Host][c] \in Nat
        BY <1>6, HostAssumption
        DEF Commits, ServingInvariant, ManagerInvariant, TypeInvariant, TypeOK, SeenInvariant
  <2>3. <<c, pending[Host][c]>> \notin made
        BY <2>2 DEF MadeInvariant
  <2>4. Delivery!Edit(c, pending[Host][c])
        BY <2>1, <2>2, <2>3 DEF Delivery!Edit, OnHost, GivenUp
  <2>5. <<c, pending[Host][c]>> \in made'
        BY <2>2
  <2>6. QED BY <2>4, <2>5 DEF Delivery!Promised
<1>7. CASE NoCommit /\ UNCHANGED agentVars
  <2>1. Delivery!GiveUp(GivenUp')
        BY <1>4, <1>5, <1>7 DEF NoCommit, agentVars
  <2>2. QED BY <2>1 DEF Delivery!Promised, GivenUp
<1>8. ASSUME made' = made, last' = last, applied' = applied PROVE Delivery!Promised
  <2>1. Delivery!GiveUp(GivenUp')
        BY <1>4, <1>5, <1>8
  <2>2. QED BY <2>1 DEF Delivery!Promised, GivenUp
<1>9. CASE Calm /\ made' = made
      BY <1>8, <1>9
      DEF Calm, Rests, Starts, Asks, Drops, Arrives, AcceptsVersion, AcceptsPackage,
          Unpacks, Opens
<1>10. ASSUME NEW c \in Confs, Misses(c), made' = made PROVE Delivery!Promised
      BY <1>8, <1>10 DEF Misses
<1>11. ASSUME NEW c \in Confs, Copies(c) \/ Cuts(c)
       PROVE  OnHost' = [OnHost EXCEPT ![c] = Held(c)']
  <2>1. \A d \in Confs \ {c} : applied'[d] = applied[d]
        BY <1>11 DEF Copies, Cuts, AgentTypes
  <2>2. \A d \in Confs : Held(d) = Carries(applied[d], d) /\ Held(d)' = Carries(applied'[d], d)
        BY DEF Held, Carries
  <2>3. \A d \in Confs \ {c} : Held(d)' = Held(d)
        BY <2>1, <2>2
  <2>4. QED BY <1>3, <2>3
<1>12. ASSUME NEW c \in Confs, Copies(c), UNCHANGED <<vars, made>> PROVE Delivery!Promised
  <2>1. /\ UNCHANGED <<made, last, GivenUp>> /\ apc = "install" /\ c \in todo
        /\ applied'[c] = [by |-> dl["json"], whole |-> TRUE]
        BY <1>12 DEF Copies, AgentTypes, GivenUp, vars
  <2>2. /\ dl["json"] \in Releases /\ Sound(Gist(dl["json"]))
        /\ Gist(dl["json"]).package = dl["json"].checksum
        BY <2>1 DEF StageInvariant, Trusted, SoundInvariant, Downloaded, Gist
  <2>3. CASE \E w \in Nat : <<c, w>> \in dl["json"].checksum.holds /\ Held(c) <= w
    <3>1. PICK w \in Nat : <<c, w>> \in dl["json"].checksum.holds /\ Held(c) <= w
          BY <2>3
    <3>2. applied'[c].whole /\ <<c, w>> \in applied'[c].by.checksum.holds
          BY <2>1, <3>1
    <3>3. Held(c)' = w
          BY <1>2, <3>2 DEF HeldIs
    <3>4. <<c, w>> \in made
          BY <2>2, <3>1 DEF Sound
    <3>5. Delivery!Deliver(c, OnHost'[c])
          BY <1>3, <1>11, <1>12, <2>1, <3>1, <3>3, <3>4 DEF Delivery!Deliver, OnHost, GivenUp
    <3>6. QED BY <3>5 DEF Delivery!Promised, OnHost
  <2>4. CASE c \in dl["json"].checksum.cut
    <3>1. Held(c)' = 0
      <4>1. \A w \in Nat : <<c, w>> \notin dl["json"].checksum.holds
            BY <2>2, <2>4 DEF Sound
      <4>2. Held(c)' # 0 => Held(c)' \in Nat /\ <<c, Held(c)'>> \in dl["json"].checksum.holds
        <5>1. applied'[c].by.checksum = dl["json"].checksum
              BY <2>1
        <5>2. Held(c)' # 0 => Held(c)' \in Nat /\ <<c, Held(c)'>> \in applied'[c].by.checksum.holds
              BY <1>2 DEF HeldIs
        <5>3. QED BY <5>1, <5>2
      <4>3. QED BY <4>1, <4>2
    <3>2. Delivery!Damage(c, GivenUp' \ GivenUp)
          BY <1>11, <1>12, <2>1, <3>1 DEF Delivery!Damage, OnHost, GivenUp
    <3>3. QED BY <3>2 DEF Delivery!Promised, GivenUp
  <2>5. QED BY <2>1, <2>3, <2>4, InstallsLater
<1>13. ASSUME NEW c \in Confs, Cuts(c), UNCHANGED <<vars, made>> PROVE Delivery!Promised
  <2>1. /\ UNCHANGED <<made, last, amiss>> /\ apc = "install" /\ apc' = "idle"
        /\ lost' = lost \cup FailedNow
        /\ \A d \in Confs \ {c} : applied'[d] = applied[d]
        /\ applied'[c] = [by |-> dl["json"], whole |-> FALSE]
        BY <1>13 DEF Cuts, AgentTypes, vars
  <2>2. Held(c)' = 0
        BY <2>1 DEF Held
  <2>3. \A e \in GivenUp' \ GivenUp : e[1] = c
    <3>1. \A e \in GivenUp' \ GivenUp : e \in FailedNow
          BY <2>1 DEF GivenUp
    <3>2. dl["json"].checksum.holds \subseteq Confs \X Nat
          BY <2>1, InstallsServed
    <3>3. \A e \in FailedNow : e[1] \in Confs /\ applied'[e[1]] # applied[e[1]]
          BY <2>1, <3>2 DEF FailedNow
    <3>4. QED BY <2>1, <3>1, <3>3
  <2>4. Delivery!Damage(c, GivenUp' \ GivenUp)
        BY <1>1, <1>11, <1>13, <2>1, <2>2, <2>3 DEF Delivery!Damage, OnHost, GivenUp
  <2>5. QED BY <2>4 DEF Delivery!Promised, GivenUp
<1>14. CASE Records /\ UNCHANGED <<vars, made>>
  <2>1. /\ UNCHANGED <<made, OnHost, GivenUp>> /\ apc = "record" /\ last' = dl["json"]
        BY <1>5, <1>14 DEF Records, GivenUp, vars
  <2>2. CASE last'.version.build = last.version.build
        BY <2>1, <2>2 DEF Delivery!vars, OnHost, GivenUp
  <2>3. CASE last'.version.build # last.version.build
    <3>1. ASSUME NEW e \in made, Delivery!Latest(e[1], e[2], last'.version.build)
          PROVE  \/ OnHost[e[1]] >= e[2]
                 \/ \E w \in GivenUp \cap made : w[1] = e[1] /\ w[2] >= e[2]
      <4>1. PICK c \in Confs, v \in Nat : e = <<c, v>>
            BY <1>1
      <4>2. LastUpTo(c, v, dl["json"].version.build)
        <5>1. /\ v <= dl["json"].version.build
              /\ \A w \in {a[2] : a \in {d \in made : d[1] = c}} :
                    w <= dl["json"].version.build => w <= v
              BY <2>1, <3>1, <4>1 DEF Delivery!Latest
        <5>2. ASSUME NEW w \in Nat, <<c, w>> \in made, w <= dl["json"].version.build
              PROVE  w <= v
          <6>1. w \in {a[2] : a \in {d \in made : d[1] = c}}
            <7>1. <<c, w>>[1] = c /\ <<c, w>>[2] = w
                  OBVIOUS
            <7>2. <<c, w>> \in {d \in made : d[1] = c}
                  BY <5>2, <7>1
            <7>3. QED BY <7>1, <7>2
          <6>2. QED BY <5>1, <5>2, <6>1
        <5>3. QED BY <4>1, <5>1, <5>2 DEF LastUpTo
      <4>3. CASE Held(c) >= v
            BY <1>3, <4>1, <4>3
      <4>4. CASE Gone(c, v)
        <5>1. PICK w \in Nat : w >= v /\ <<c, w>> \in made /\ (w \in amiss \/ <<c, w>> \in lost)
              BY <4>4 DEF Gone
        <5>2. <<c, w>> \in GivenUp \cap made /\ <<c, w>>[1] = e[1] /\ <<c, w>>[2] >= e[2]
              BY <4>1, <5>1 DEF GivenUp
        <5>3. QED BY <5>2
      <4>5. QED BY <2>1, <4>2, <4>3, <4>4, ClaimKept
    <3>2. Delivery!Claim(last'.version.build)
          BY <2>1, <2>3, <3>1 DEF Delivery!Claim, OnHost, GivenUp
    <3>3. QED BY <3>2 DEF Delivery!Promised
  <2>4. QED BY <2>2, <2>3
<1>15. CASE (AgentStep \/ AgentTrouble) /\ UNCHANGED <<vars, made>>
       BY <1>9, <1>10, <1>12, <1>13, <1>14, <1>15, AgentKinds
<1>16. CASE UNCHANGED agentVars
       BY <1>6, <1>7, <1>16, CommitKinds
<1>17. QED BY <1>15, <1>16, AgentOrManager

LEMMA InitPromised == SystemInit => Delivery!Init
<1> SUFFICES ASSUME SystemInit PROVE Delivery!Init
    OBVIOUS
<1>1. Init /\ Agent!Init /\ made = {} /\ lost = {}
      BY DEF SystemInit
<1>2. \A c \in Confs : Held(c) = 0
  <2>1. \A c \in Confs : applied[c].by.checksum.holds = {}
        BY <1>1 DEF Agent!Init, Base
  <2>2. QED BY <2>1 DEF Held
<1>3. amiss = {} /\ last.version.build = 0
      BY <1>1 DEF Init, Agent!Init, Base, FirstVersion
<1>4. QED BY <1>1, <1>2, <1>3 DEF Delivery!Init

\* The update manager and the update agent of a host deliver the edits of its
\* configurations: no file ever goes back to an older edit, and the number that
\* the agent records covers every last edit up to it that was not given up,
\* whatever windows, errors, kills and interrupted downloads come in between.
THEOREM ManagerAndAgentDeliver == SystemSpec => ConfigDelivered
<1>1. SystemInvariant /\ SystemInvariant' /\ [SystemNext]_systemVars
      => [Delivery!Promised]_(Delivery!vars)
      BY StepPromised
<1>2. QED BY <1>1, InitPromised, SystemInvariance, PTL
      DEF SystemSpec, ConfigDelivered, Delivery!Spec

-----------------------------------------------------------------------------
(* What the manager deploys.                                               *)

BoundsInvariant == seq \in 0 .. MaxEdits /\ run \in 0 .. MaxRuns

LEMMA NextBounds == BoundsInvariant /\ [Next]_vars => BoundsInvariant'
<1> SUFFICES ASSUME BoundsInvariant, [Next]_vars PROVE BoundsInvariant'
    OBVIOUS
<1>1. /\ seq' = seq \/ (seq < MaxEdits /\ seq' = seq + 1)
      /\ run' = run \/ (run < MaxRuns /\ run' = run + 1)
      BY DEF Next, Databases, Manager, Trouble, EditConfig, CommitConfig, ChangePlatform,
             BumpVersion, Fetch, FetchGarbage, BeginRun, ProcessItem, ItemFails, StartPackaging,
             PackHost, PackFails, ReadMinor, WriteJson, ReadFails, SignFiles, SignFails, StartDeploying,
             DeployFile, FinishRun, Crash, vars
<1>2. QED BY <1>1, BoundsAssumption DEF BoundsInvariant

\* version.json describes a release that the agent can install.
LEMMA DeploysRelease ==
    ASSUME SystemInvariant, BoundsInvariant, tmp[Host]["json"] # Missing
    PROVE  AsRelease(tmp[Host]["json"]) \in Releases
<1> USE DEF SystemInvariant
<1> DEFINE j == tmp[Host]["json"]
<1>1. j \in JsonType /\ j.checksum = Package(Host) /\ Host \in Hosts
      BY HostAssumption
      DEF ServingInvariant, ManagerInvariant, TypeInvariant, FilesInvariant, PackedInvariant
<1>2. FirstVersion \in Version
      BY DEF FirstVersion, Version
<1>3. /\ \A i \in batch : i.conf \in Confs /\ i.version \in 1 .. MaxEdits
      /\ from \in 0 .. MaxEdits /\ run \in 0 .. MaxRuns
  <2>1. /\ \A i \in batch : i.conf \in Confs /\ i.version \in Nat /\ i.version > 0
                            /\ i.version < seq + 1
        /\ from \in Nat /\ from <= seq /\ seq \in Nat
        BY <1>1
        DEF ServingInvariant, ManagerInvariant, TypeInvariant, TypeOK, FilesInvariant,
            UniqueInvariant, DrawnInvariant, Later
  <2>2. QED BY <2>1, BoundsAssumption DEF BoundsInvariant
<1>4. Package(Host) \in Packages
  <2>1. Package(Host).holds \subseteq Confs \X (1 .. MaxEdits)
        BY <1>1, <1>3, PackageOfRun
  <2>2. QED BY <1>3, <2>1 DEF Package, Packages
<1>5. QED BY <1>1, <1>2, <1>4 DEF AsRelease, Releases, JsonType

\* What a run copies to the directory of a host is what the agent expects of its
\* server: files that packaging leaves, of one release, each signature made of
\* the file beside it.
THEOREM OneReleaseDeployed == SystemSpec => []DeploysOneRelease
<1>1. SystemInit => BoundsInvariant
      BY BoundsAssumption DEF SystemInit, Init, BoundsInvariant
<1>2. BoundsInvariant /\ [SystemNext]_systemVars => BoundsInvariant'
      BY ManagerMoves, NextBounds
<1>3. SystemInvariant /\ BoundsInvariant => DeploysOneRelease
  <2> SUFFICES ASSUME SystemInvariant, BoundsInvariant PROVE DeploysOneRelease
      OBVIOUS
  <2> DEFINE there == {f \in Files : tmp[Host][f] # Missing}
  <2>1. /\ tmp[Host]["json"] \in JsonType \cup {Missing}
        /\ TmpInvariant
        BY HostAssumption
        DEF SystemInvariant, ServingInvariant, ManagerInvariant, TypeInvariant, FilesInvariant
  <2>2. "json" \in there => "pkg" \in there
        BY <2>1, MissingAssumption DEF TmpInvariant, JsonType, Files
  <2>3. "pkgSig" \in there \/ "jsonSig" \in there => "json" \in there
        BY <2>1 DEF TmpInvariant, Files
  <2>4. there \in Agent!Packed \cup {{}}
        BY <2>2, <2>3 DEF Agent!Packed, Agent!Files, Files
  <2>5. ASSUME NEW f \in there
        PROVE  /\ "json" \in there => AsRelease(tmp[Host]["json"]) \in Releases
               /\ f # "pkg" => tmp[Host][f] = IF f = "pkgSig" THEN tmp[Host]["pkg"]
                                              ELSE tmp[Host]["json"]
               /\ f = "json" => tmp[Host][f].checksum = tmp[Host]["pkg"]
        BY <2>1, DeploysRelease DEF TmpInvariant, Files
  <2>6. QED BY <2>4, <2>5 DEF DeploysOneRelease
<1>4. QED BY <1>1, <1>2, <1>3, SystemInvariance, PTL DEF SystemSpec

-----------------------------------------------------------------------------
(* Nothing gets stuck.                                                     *)

\* The files at the server: once a release was complete all are there, and those
\* of one run are a complete release, which the agent can install.
FilledInvariant ==
    /\ served[Host] # {} => \A f \in Files : nginx[Host][f] # Missing
    /\ \A n \in Nat :
          (\A f \in Files : nginx[Host][f] # Missing /\ RunOf(f, nginx[Host][f]) = n)
          => Complete(nginx[Host])
    /\ nginx[Host]["json"] # Missing =>
          /\ AsRelease(nginx[Host]["json"]) \in Releases
          /\ nginx[Host]["json"].version.major = 1

\* Past the tests, version.json is for this host, and newer than the one that
\* was recorded.
AcceptedInvariant ==
    /\ recorded \in {last, Torn}
    /\ last \in Releases /\ last.platform = FirstPlatform
    /\ Trusted => /\ dl["json"].platform = FirstPlatform
                  /\ Lt(last.version, dl["json"].version)

\* The agent's version goes up on the way from the CMDB to the host.
AgentVersionInvariant ==
    /\ dl["json"] \in Releases =>
          nginx[Host]["json"] # Missing /\ dl["json"].version.major = 1
    /\ last.version.major = 1
    /\ last = Base \/ nginx[Host]["json"] # Missing
    /\ Host \notin torn /\ nginx[Host]["json"] # Missing =>
          /\ NotAfter(last.version, nginx[Host]["json"].version)
          /\ dl["json"] \in Releases =>
                NotAfter(dl["json"].version, nginx[Host]["json"].version)
          /\ NotAfter(nginx[Host]["json"].version, cmdb)
          /\ tmp[Host]["json"] # Missing =>
                NotAfter(nginx[Host]["json"].version, tmp[Host]["json"].version)

\* A file that brought edit v, or a later one, was cut short, by a release newer
\* than the one recorded.
Interrupted(c, v) ==
    /\ ~ applied[c].whole
    /\ Lt(last.version, applied[c].by.version)
    /\ \E w \in Nat : v <= w /\ <<c, w>> \in applied[c].by.checksum.holds

\* What is recorded has arrived, or is given up, or was interrupted.
RecordedInvariant ==
    /\ Sound(Gist(last))
    /\ \A c \in Confs, v \in Nat : LastUpTo(c, v, last.version.build) =>
          Held(c) >= v \/ Gone(c, v) \/ Interrupted(c, v)

\* Until the first release is copied, nothing is served.
LEMMA InitFilled == SystemInit => FilledInvariant
<1> SUFFICES ASSUME SystemInit PROVE FilledInvariant
    OBVIOUS
<1>1. /\ served[Host] = {} /\ \A f \in Files : nginx[Host][f] = Missing
      /\ "json" \in Files
      BY HostAssumption DEF SystemInit, Init, NoFiles, Files
<1>2. QED BY <1>1 DEF FilledInvariant

LEMMA NextFilled ==
    ASSUME SystemInvariant, BoundsInvariant, FilledInvariant, [SystemNext]_systemVars
    PROVE  FilledInvariant'
<1>1. /\ Host \in Hosts /\ Files = {"pkg", "pkgSig", "json", "jsonSig"}
      /\ tmp[Host]["json"] \in JsonType \cup {Missing}
      BY HostAssumption
      DEF SystemInvariant, ServingInvariant, ManagerInvariant, TypeInvariant, FilesInvariant, Files
<1>2. CASE nginx'[Host] = nginx[Host] /\ served'[Host] = served[Host]
      BY <1>2 DEF FilledInvariant, Complete
<1>3. ASSUME NEW f \in Files, DeployFile(Host, f), pc = "deploy",
             \A e \in Files : nginx'[Host][e] = IF e = f THEN tmp[Host][f] ELSE nginx[Host][e],
             tmp[Host][f] # Missing
      PROVE  FilledInvariant'
  <2>1. /\ \A e \in Files : tmp[Host][e] # Missing => RunOf(e, tmp[Host][e]) = run
        /\ \A e \in Files : nginx[Host][e] # Missing /\ RunOf(e, nginx[Host][e]) = run =>
              nginx[Host][e] = tmp[Host][e]
        BY <1>1 DEF SystemInvariant, ServingInvariant, ManagerInvariant, OriginInvariant
  <2>2. Complete(tmp[Host]) \/ \E e \in Files : tmp[Host][e] = Missing
        BY <1>1 DEF SystemInvariant, TmpInvariant, Complete
  <2>3. ASSUME NEW n \in Nat,
               \A e \in Files : nginx'[Host][e] # Missing /\ RunOf(e, nginx'[Host][e]) = n
        PROVE  Complete(nginx'[Host])
    <3>1. n = run
          BY <1>3, <2>1, <2>3
    <3>2. \A e \in Files : nginx'[Host][e] = tmp[Host][e]
          BY <1>3, <2>1, <2>3, <3>1
    <3>3. QED BY <1>1, <2>2, <2>3, <3>2 DEF Complete
  <2>4. ASSUME nginx'[Host]["json"] # Missing
        PROVE  /\ AsRelease(nginx'[Host]["json"]) \in Releases
               /\ nginx'[Host]["json"].version.major = 1
    <3>1. CASE f = "json"
      <4>1. nginx'[Host]["json"] = tmp[Host]["json"] /\ tmp[Host]["json"] # Missing
            BY <1>1, <1>3, <3>1
      <4>2. tmp[Host]["json"].version.major = 1
            BY <1>1, <4>1 DEF SystemInvariant, ServingInvariant, ManagerInvariant, OfferedInvariant
      <4>3. AsRelease(tmp[Host]["json"]) \in Releases
            BY <4>1, DeploysRelease
      <4>4. QED BY <4>1, <4>2, <4>3
    <3>2. CASE f # "json"
          BY <1>1, <1>3, <2>4, <3>2 DEF FilledInvariant
    <3>3. QED BY <3>1, <3>2
  <2>5. ASSUME served'[Host] # {} PROVE \A e \in Files : nginx'[Host][e] # Missing
    <3>1. CASE Complete(nginx'[Host])
      <4>1. nginx'[Host]["json"] \in JsonType \cup {Missing}
            BY <1>1, <1>3
            DEF SystemInvariant, ServingInvariant, ManagerInvariant, TypeInvariant, FilesInvariant
      <4>2. nginx'[Host]["pkg"] # Missing
            BY <3>1, <4>1, MissingAssumption DEF Complete, JsonType
      <4>3. QED BY <1>1, <3>1, <4>2 DEF Complete
    <3>2. CASE ~ Complete(nginx'[Host])
          BY <1>3, <2>5, <3>2 DEF DeployFile, FilledInvariant
    <3>3. QED BY <3>1, <3>2
  <2>6. QED BY <2>3, <2>4, <2>5 DEF FilledInvariant, Complete
<1>4. QED BY <1>2, <1>3, HostDirectory DEF SystemInvariant

\* The agent compares versions as the manager does.
LEMMA SameOrder ==
    \A v, w : (Agent!Lt(v, w) <=> Lt(v, w)) /\ (Agent!Le(v, w) <=> Le(v, w))
BY DEF Agent!Lt, Agent!Le, Agent!Cmp, Lt, Le, Cmp

LEMMA InitAccepted == SystemInit => AcceptedInvariant
BY PlatformsAssumption, BoundsAssumption
DEF SystemInit, Agent!Init, AcceptedInvariant, Trusted, Base, Releases, Packages, FirstVersion, Version

\* What the tests on version.json are for.
LEMMA NextAccepted ==
    ASSUME AgentTypes, StageInvariant, AcceptedInvariant, [SystemNext]_systemVars
    PROVE  AcceptedInvariant'
<1> USE DEF AcceptedInvariant, Agent!hostVars, Agent!srvVars, Agent!histVars
<1>1. /\ DOMAIN <<"singles">> = {1}
      /\ dl \in [Files -> Arrived] /\ file \in Files
      /\ Files = {"pkg", "pkgSig", "json", "jsonSig"}
      BY DEF AgentTypes, Files
<1>2. CASE UNCHANGED agentVars
      BY <1>2 DEF agentVars, Trusted
<1>3. ASSUME UNCHANGED <<recorded, last>>, ~ Trusted' PROVE AcceptedInvariant'
      BY <1>3
<1>4. ASSUME UNCHANGED <<recorded, last>>, dl'["json"] = dl["json"], Trusted
      PROVE  AcceptedInvariant'
      BY <1>4
<1>5. CASE Agent!StartRun \/ Agent!EndRun
      BY <1>3, <1>5 DEF Agent!StartRun, Agent!EndRun, Trusted
<1>6. CASE \E i \in {1} : Agent!TryUrl(i)
      BY <1>3, <1>6 DEF Agent!TryUrl, Trusted
<1>7. CASE Agent!HeadFile
      BY <1>3, <1>4, <1>7 DEF Agent!HeadFile, Agent!GiveUp, Trusted
<1>8. CASE Agent!GetFile \/ Agent!GetTruncated
  <2>1. CASE Agent!GetFile
    <3>1. /\ UNCHANGED <<recorded, last>> /\ apc = "get"
          /\ \/ apc' = "next"
             \/ /\ \E x : dl' = [dl EXCEPT ![file] = x]
                /\ apc' = Agent!StageAfter[file]
                /\ file' = CASE file = "json" -> "jsonSig"
                             [] file = "pkg"  -> "pkgSig"
                             [] OTHER -> file
          BY <2>1 DEF Agent!GetFile, Agent!GiveUp
    <3>2. QED BY <1>1, <1>3, <1>4, <3>1 DEF Agent!StageAfter, Trusted
  <2>2. CASE Agent!GetTruncated
    <3>1. /\ UNCHANGED <<recorded, last>> /\ apc = "get"
          /\ dl' = [dl EXCEPT ![file] = Torn]
          /\ apc' = Agent!StageAfter[file]
          /\ file' = CASE file = "json" -> "jsonSig"
                       [] file = "pkg"  -> "pkgSig"
                       [] OTHER -> file
          BY <2>2 DEF Agent!GetTruncated
    <3>2. QED BY <1>1, <1>3, <1>4, <3>1 DEF Agent!StageAfter, Trusted
  <2>3. QED BY <1>8, <2>1, <2>2
<1>9. CASE Agent!RequestFails
      BY <1>3, <1>9 DEF Agent!RequestFails, Agent!GiveUp, Trusted
<1>10. CASE Agent!CheckVersion
  <2>1. CASE ~ Agent!VersionAccepted(recorded, dl["json"], dl["jsonSig"])
        BY <1>3, <1>10, <2>1 DEF Agent!CheckVersion, Agent!GiveUp, Trusted
  <2>2. CASE Agent!VersionAccepted(recorded, dl["json"], dl["jsonSig"])
    <3>1. /\ recorded \in Releases /\ dl["json"] \in Releases
          /\ dl["json"].platform = FirstPlatform
          /\ ~ Le(dl["json"].version, recorded.version)
          BY <2>2, SameOrder DEF Agent!VersionAccepted
    <3>2. recorded = last
          BY <3>1, TornAssumption
    <3>3. Lt(last.version, dl["json"].version)
          BY <3>1, <3>2, VersionsTotal DEF Releases
    <3>4. UNCHANGED <<recorded, last, dl>>
          BY <1>10 DEF Agent!CheckVersion
    <3>5. QED BY <3>1, <3>3, <3>4
  <2>3. QED BY <2>1, <2>2
<1>11. CASE Agent!CheckPackage \/ Agent!Unpack \/ Agent!UnpackFails
      BY <1>3, <1>4, <1>11
      DEF Agent!CheckPackage, Agent!Unpack, Agent!UnpackFails, Agent!GiveUp, Trusted
<1>12. CASE \E c \in Confs : Agent!CopyTarget(c) \/ Agent!CopyFails(c)
      BY <1>4, <1>12 DEF Agent!CopyTarget, Agent!CopyFails, Trusted
<1>13. CASE Agent!OpenRecorded
      BY <1>13 DEF Agent!OpenRecorded, Trusted
<1>14. CASE Agent!WriteRecorded
      BY <1>14 DEF Agent!WriteRecorded, Trusted, StageInvariant
<1>15. CASE Agent!Kill \/ Agent!RecordFails
      BY <1>3, <1>15 DEF Agent!Kill, Agent!RecordFails, Trusted
<1>16. CASE AgentStep \/ AgentTrouble
      BY <1>1, <1>5, <1>6, <1>7, <1>8, <1>9, <1>10, <1>11, <1>12, <1>13, <1>14, <1>15, <1>16
      DEF AgentStep, AgentTrouble, Agent!AgentStep, Agent!Trouble
<1>17. QED BY <1>2, <1>16, AgentOrManager

LEMMA InitAgentVersion == SystemInit => AgentVersionInvariant
<1> SUFFICES ASSUME SystemInit PROVE AgentVersionInvariant
    OBVIOUS
<1>1. nginx[Host]["json"] = Missing /\ last = Base
      BY HostAssumption DEF SystemInit, Init, Agent!Init, NoFiles, Files
<1>2. dl["json"] \notin Releases
      BY TornAssumption DEF SystemInit, Agent!Init, Agent!NoFiles, Agent!Files
<1>3. QED BY <1>1, <1>2 DEF AgentVersionInvariant, Base, FirstVersion

\* Nothing on the way is before what went ahead, unless the agent's version was
\* bumped while it was read.
LEMMA NextAgentVersion ==
    ASSUME SystemInvariant, SystemInvariant', FilledInvariant, FilledInvariant',
           AcceptedInvariant, AgentVersionInvariant, [SystemNext]_systemVars
    PROVE  AgentVersionInvariant'
<1> DEFINE json == nginx[Host]["json"]
           made_ == tmp[Host]["json"]
<1>1. /\ Host \in Hosts /\ TypeInvariant /\ OriginInvariant
      /\ cmdb \in [minor : Nat, patch : Nat]
      /\ json # Missing => json.version \in Version
      /\ made_ # Missing => made_.version \in Version
      /\ last \in Releases /\ last.version \in Version
      /\ dl["json"] \in Releases => dl["json"].version \in Version
      /\ Base.version = FirstVersion
      BY HostAssumption
      DEF SystemInvariant, ServingInvariant, ManagerInvariant, TypeInvariant, TypeOK, FilesInvariant,
          JsonType, AcceptedInvariant, Releases, Base
<1>2. \A u, v, w \in Version \cup {cmdb} :
          /\ NotAfter(u, u)
          /\ NotAfter(u, v) /\ NotAfter(v, w) => NotAfter(u, w)
      BY <1>1 DEF NotAfter, Version
<1>3. \A v \in Version : NotAfter(FirstVersion, v)
      BY DEF NotAfter, Version, FirstVersion
<1>4. CASE UNCHANGED vars
  <2>1. \/ dl'["json"] = dl["json"] /\ last' = last
        \/ dl'["json"] = dl["json"] /\ last' = dl["json"] /\ dl["json"] \in Releases
        \/ last' = last /\ dl'["json"] \notin Releases
        \/ last' = last /\ json # Missing /\ dl'["json"] = AsRelease(json)
    <3>1. /\ dl \in [Files -> Arrived] /\ file \in Files /\ "json" \in Files
          /\ {Missing, Torn} \cap Releases = {}
          BY TornAssumption DEF SystemInvariant, AgentTypes, Files
    <3>2. CASE Records
          BY <3>2 DEF Records, SystemInvariant, StageInvariant, Trusted
    <3>3. CASE ~ Records
      <4>1. last' = last
        <5>1. CASE UNCHANGED agentVars
              BY <5>1 DEF agentVars
        <5>2. CASE Calm
              BY <5>2
              DEF Calm, Rests, Starts, Asks, Drops, Arrives, AcceptsVersion, AcceptsPackage,
                  Unpacks, Opens
        <5>3. CASE \E c \in Confs : Copies(c) \/ Misses(c) \/ Cuts(c)
              BY <5>3 DEF Copies, Misses, Cuts
        <5>4. QED BY <3>3, <5>1, <5>2, <5>3, AgentKinds, AgentOrManager DEF SystemInvariant
      <4>2. \/ dl' = dl \/ dl' = NoFiles
            \/ dl' = [dl EXCEPT ![file] = Torn]
            \/ Directory[file] # Missing /\ dl' = [dl EXCEPT ![file] = Directory[file]]
            BY Downloads DEF SystemInvariant
      <4>3. Directory["json"] # Missing => json # Missing /\ Directory["json"] = AsRelease(json)
            BY <3>1 DEF Directory
      <4>4. CASE dl' = NoFiles
            BY <3>1, <4>1, <4>4 DEF NoFiles
      <4>5. CASE dl' = [dl EXCEPT ![file] = Torn]
        <5>1. dl'["json"] = IF file = "json" THEN Torn ELSE dl["json"]
              BY <3>1, <4>5
        <5>2. QED BY <3>1, <4>1, <4>5, <5>1
      <4>6. CASE Directory[file] # Missing /\ dl' = [dl EXCEPT ![file] = Directory[file]]
        <5>1. dl'["json"] = IF file = "json" THEN Directory["json"] ELSE dl["json"]
              BY <3>1, <4>6
        <5>2. QED BY <3>1, <4>1, <4>3, <4>6, <5>1
      <4>7. QED BY <4>1, <4>2, <4>4, <4>5, <4>6
    <3>4. QED BY <3>2, <3>3
  <2>2. /\ json' = json /\ made_' = made_ /\ torn' = torn /\ cmdb' = cmdb
        BY <1>4 DEF vars
  <2>3. json # Missing => AsRelease(json).version = json.version /\ json.version.major = 1
        BY DEF AsRelease, FilledInvariant
  <2>4. CASE dl'["json"] = dl["json"] /\ last' = last
        BY <2>2, <2>4 DEF AgentVersionInvariant, Releases, Packages
  <2>5. CASE dl'["json"] = dl["json"] /\ last' = dl["json"] /\ dl["json"] \in Releases
        BY <2>2, <2>5 DEF AgentVersionInvariant, Releases, Packages
  <2>6. CASE last' = last /\ dl'["json"] \notin Releases
    <3>1. dl'["json"] \notin Releases'
          BY <2>6 DEF Releases, Packages
    <3>2. QED BY <2>2, <2>6, <3>1 DEF AgentVersionInvariant
  <2>7. CASE last' = last /\ json # Missing /\ dl'["json"] = AsRelease(json)
        BY <1>1, <1>2, <2>2, <2>3, <2>7 DEF AgentVersionInvariant
  <2>8. QED BY <2>1, <2>4, <2>5, <2>6, <2>7
<1>5. CASE UNCHANGED agentVars /\ [Next]_vars
  <2>1. UNCHANGED <<dl, last>>
        BY <1>5 DEF agentVars
  <2>2. /\ json' \in {json, made_}
        /\ torn \subseteq torn'
        /\ Host \notin torn' => NotAfter(cmdb, cmdb')
        /\ cmdb' \in [minor : Nat, patch : Nat]
        /\ Host \notin torn' =>
              \/ made_' \in {Missing, made_}
              \/ json' = json /\ NotAfter(cmdb, made_'.version)
    <3>1. NotAfter(cmdb, cmdb)
          BY <1>2
    <3>2. cmdb' \in [minor : Nat, patch : Nat]
          BY DEF SystemInvariant, ServingInvariant, ManagerInvariant, TypeInvariant, TypeOK
    <3>3. CASE \E h \in Hosts, c \in Confs : EditConfig(h, c) \/ CommitConfig(h, c)
          BY <1>5, <3>1, <3>2, <3>3 DEF EditConfig, CommitConfig
    <3>4. CASE NewWindow
          BY <1>1, <3>1, <3>2, <3>4 DEF NewWindow
    <3>5. CASE JsonWritten
      <4>1. /\ made_' = IF Host = host THEN Json(host) ELSE made_
            /\ torn' = IF minor = cmdb.minor THEN torn ELSE torn \cup {host}
            /\ json' = json /\ cmdb' = cmdb
            BY <1>1, <3>5 DEF JsonWritten
      <4>2. Json(host).version.minor = minor /\ Json(host).version.patch = cmdb.patch
            BY DEF Json
      <4>3. CASE Host # host
            BY <3>1, <3>2, <4>1, <4>3
      <4>4. CASE Host = host
        <5>1. Host \notin torn' => NotAfter(cmdb, made_'.version)
              BY <1>1, <4>1, <4>2, <4>4 DEF NotAfter
        <5>2. QED BY <3>1, <3>2, <4>1, <4>4, <5>1
      <4>5. QED BY <4>3, <4>4
    <3>6. CASE Passing
      <4>1. NotAfter(cmdb, cmdb')
            BY <3>6, Zenon DEF Passing
      <4>2. /\ json' \in {json, made_} /\ torn' = torn /\ made_' = made_
            BY <1>1, <3>6 DEF Passing
      <4>3. QED BY <3>2, <4>1, <4>2
    <3>7. QED BY <1>1, <1>5, <3>3, <3>4, <3>5, <3>6, StepKinds
  <2>3. json # Missing => json' # Missing
        BY HostDirectory DEF SystemInvariant, Files
  <2>4. /\ json' # Missing => json'.version \in Version /\ json'.version.major = 1
        /\ made_' # Missing => made_'.version \in Version
        BY <1>1
        DEF SystemInvariant, ServingInvariant, ManagerInvariant, TypeInvariant, FilesInvariant,
            JsonType, FilledInvariant
  <2>5. /\ dl'["json"] \in Releases' => dl["json"] \in Releases /\ json # Missing
                                         /\ dl["json"].version.major = 1
        /\ last.version.major = 1 /\ (last = Base \/ json # Missing)
        BY <2>1 DEF AgentVersionInvariant, Releases, Packages
  <2>6. CASE Host \in torn' \/ json' = Missing
        BY <2>1, <2>5, <2>6, <2>3 DEF AgentVersionInvariant
  <2>7. CASE Host \notin torn' /\ json' # Missing
    <3>1. /\ Host \notin torn /\ NotAfter(cmdb, cmdb')
          /\ json'.version \in Version /\ cmdb' \in [minor : Nat, patch : Nat]
          BY <2>2, <2>4, <2>7
    <3>2. \A u, v, w \in Version \cup {cmdb, cmdb'} : NotAfter(u, v) /\ NotAfter(v, w) => NotAfter(u, w)
          BY <1>1, <3>1 DEF NotAfter, Version
    <3>3. CASE json' = json
      <4>1. /\ NotAfter(last.version, json.version) /\ NotAfter(json.version, cmdb)
            /\ dl["json"] \in Releases => NotAfter(dl["json"].version, json.version)
            /\ made_ # Missing => NotAfter(json.version, made_.version)
            BY <2>7, <3>1, <3>3 DEF AgentVersionInvariant
      <4>2. NotAfter(json.version, cmdb')
            BY <1>1, <3>1, <3>2, <3>3, <4>1
      <4>3. made_' # Missing => NotAfter(json.version, made_'.version)
            BY <1>1, <2>2, <2>4, <2>7, <3>1, <3>2, <3>3, <4>1
      <4>4. QED BY <2>1, <2>4, <2>5, <2>7, <2>3, <3>3, <4>1, <4>2, <4>3 DEF AgentVersionInvariant
    <3>4. CASE json' # json
      <4>1. json' = made_ /\ made_ # Missing /\ made_' \in {Missing, made_}
            BY <2>2, <2>7, <3>4
      <4>2. /\ NotAfter(last.version, made_.version)
            /\ dl["json"] \in Releases => NotAfter(dl["json"].version, made_.version)
        <5>1. CASE json = Missing
              BY <1>1, <1>3, <2>5, <4>1, <5>1 DEF AgentVersionInvariant
        <5>2. CASE json # Missing
              BY <1>1, <1>2, <3>1, <4>1, <5>2 DEF AgentVersionInvariant
        <5>3. QED BY <5>1, <5>2
      <4>3. NotAfter(made_.version, cmdb)
            BY <1>1, <3>1, <4>1 DEF SystemInvariant, ServingInvariant, ManagerInvariant, OfferedInvariant
      <4>4. NotAfter(made_.version, cmdb')
            BY <1>1, <3>1, <3>2, <4>1, <4>3
      <4>5. NotAfter(made_.version, made_.version)
            BY <1>1, <1>2, <4>1
      <4>6. QED BY <2>1, <2>4, <2>5, <2>7, <2>3, <4>1, <4>2, <4>4, <4>5 DEF AgentVersionInvariant
    <3>5. QED BY <3>3, <3>4
  <2>8. QED BY <2>6, <2>7
<1>6. QED BY <1>4, <1>5, AgentOrManager

\* What was brought by a file that is replaced, is brought again, or given up.
LEMMA BroughtAgain ==
    ASSUME SystemInvariant, apc = "install", NEW c \in todo, NEW v \in Nat, v > 0,
           Held(c) >= v \/ Interrupted(c, v)
    PROVE  Gone(c, v) \/ \E w \in Nat : v <= w /\ <<c, w>> \in dl["json"].checksum.holds
<1> USE DEF SystemInvariant
<1> DEFINE p == dl["json"].checksum
<1>1. /\ c \in Confs /\ HeldIs(c)
      /\ dl["json"] \in Releases /\ c \in Brought[p] /\ p \in Packages
      /\ p.holds \subseteq Confs \X Nat
      BY HeldNow DEF StageInvariant, Trusted, AgentTypes, Releases, Packages
<1>2. c \in p.cut \/ \E w \in Nat : <<c, w>> \in p.holds
      BY <1>1 DEF Brought
<1>3. CASE Held(c) >= v
  <2>1. \/ \E w \in Nat : <<c, w>> \in p.holds /\ Held(c) <= w
        \/ Gone(c, Held(c))
        BY <1>1, <1>3, InstallsLater DEF HeldIs
  <2>2. CASE Gone(c, Held(c))
        BY <1>1, <1>3, <2>2, GoneBefore DEF HeldIs
  <2>3. QED BY <1>1, <1>3, <2>1, <2>2 DEF HeldIs
<1>4. CASE Interrupted(c, v)
  <2>1. PICK u \in Nat : v <= u /\ <<c, u>> \in applied[c].by.checksum.holds
        BY <1>4 DEF Interrupted
  <2>2. Before(Gist(applied[c].by), Gist(dl["json"]))
        BY <1>1 DEF OrderInvariant, Installed, Downloaded
  <2>3. /\ \A w \in Nat : <<c, w>> \in p.holds => u <= w
        /\ c \in p.cut => Gone(c, u)
        BY <1>1, <2>1, <2>2 DEF Before, Gist
  <2>4. CASE c \in p.cut
        BY <2>1, <2>3, <2>4, GoneBefore
  <2>5. CASE \E w \in Nat : <<c, w>> \in p.holds
        BY <2>1, <2>3, <2>5
  <2>6. QED BY <1>2, <2>4, <2>5
<1>5. QED BY <1>3, <1>4

LEMMA InitRecorded == SystemInit => RecordedInvariant
<1> SUFFICES ASSUME SystemInit PROVE RecordedInvariant
    OBVIOUS
<1>1. /\ made = {} /\ last = Base
      /\ seq = 0 /\ pending[Host] = [c \in Confs |-> 0]
      BY HostAssumption DEF SystemInit, Init, Agent!Init
<1>2. Gist(Base) = [build |-> 0, package |-> [run |-> 0, from |-> 0, holds |-> {}, cut |-> {}]]
      BY DEF Base, FirstVersion, Gist
<1>3. Sound(Gist(Base))
      BY <1>1, <1>2 DEF Sound, LastUpTo
<1>4. QED BY <1>1, <1>3 DEF RecordedInvariant, LastUpTo

\* The release recorded stands for what it should, through the next ones.
LEMMA NextRecorded ==
    ASSUME SystemInvariant, SystemInvariant', AcceptedInvariant, RecordedInvariant,
           [SystemNext]_systemVars
    PROVE  RecordedInvariant'
<1> USE DEF SystemInvariant
<1>1. \/ applied' = applied /\ last' = last
      \/ Records /\ UNCHANGED <<vars, made>>
      \/ \E c \in Confs : Copies(c) \/ Cuts(c)
  <2>1. CASE UNCHANGED agentVars
        BY <2>1 DEF agentVars
  <2>2. CASE (AgentStep \/ AgentTrouble) /\ UNCHANGED <<vars, made>>
    <3>1. CASE Calm
          BY <3>1
          DEF Calm, Rests, Starts, Asks, Drops, Arrives, AcceptsVersion, AcceptsPackage,
              Unpacks, Opens
    <3>2. CASE \E c \in Confs : Misses(c)
          BY <3>2 DEF Misses
    <3>3. QED BY <2>2, <3>1, <3>2, AgentKinds
  <2>3. QED BY <2>1, <2>2, AgentOrManager
<1>2. /\ amiss \subseteq amiss' /\ made \subseteq made'
      /\ \A c, v : Gone(c, v) => Gone(c, v)'
      BY GoneStays
<1>3. Sound(Gist(last)) /\ Sound(Gist(last))'
  <2>1. Sound(Gist(last))
        BY DEF RecordedInvariant
  <2>2. CASE last' = last
    <3>1. Gist(last') = Gist(last)
          BY <2>2
    <3>2. \A r : Sound(r) => Sound(r)'
          BY SoundStays
    <3>3. QED BY <2>1, <3>1, <3>2 DEF Gist
  <2>3. CASE Records
    <3>1. dl["json"] \in Releases /\ last' = dl["json"] /\ dl' = dl
          BY <2>3 DEF Records, StageInvariant, Trusted
    <3>2. Downloaded(Gist(dl["json"]))'
          BY <3>1 DEF Downloaded, Gist, Releases, Packages
    <3>3. Sound(Gist(last))'
          BY <3>1, <3>2 DEF SoundInvariant, Gist
    <3>4. QED BY <2>1, <3>3
  <2>4. QED BY <1>1, <2>2, <2>3 DEF Copies, Cuts
<1>4. ASSUME NEW c \in Confs, NEW v \in Nat, LastUpTo(c, v, last.version.build)'
      PROVE  Held(c)' >= v \/ Gone(c, v)' \/ Interrupted(c, v)'
  <2>1. v > 0
        BY <1>4 DEF LastUpTo, MadeInvariant
  <2>2. HeldIs(c) /\ HeldIs(c)'
        BY HeldNow, HeldNext
  <2>3. CASE last' = last
    <3>1. Held(c) >= v \/ Gone(c, v)' \/ Interrupted(c, v)
      <4>1. CASE <<c, v>> \in made
        <5>1. LastUpTo(c, v, last.version.build)
              BY <1>2, <1>4, <2>3, <4>1 DEF LastUpTo
        <5>2. QED BY <1>2, <5>1 DEF RecordedInvariant
      <4>2. CASE <<c, v>> \notin made
        <5>1. /\ v = pending[Host][c] /\ v # 0 /\ v <= last.version.build
              /\ <<c, v>> \in made'
              BY <1>4, <2>3, <4>2, NewEdits DEF LastUpTo
        <5>2. v \in amiss
          <6>1. Host \in Hosts /\ last.version.build \in Nat
                BY HostAssumption, <1>3 DEF Sound, Gist
          <6>2. v \in amiss \/ last.version.build < v
                BY <1>3, <5>1 DEF Sound, Gist
          <6>3. QED BY <5>1, <6>1, <6>2
        <5>3. QED BY <1>2, <5>1, <5>2 DEF Gone
      <4>3. QED BY <4>1, <4>2
    <3>2. CASE applied' = applied
          BY <2>3, <3>1, <3>2 DEF Held, Interrupted
    <3>3. ASSUME NEW d \in Confs, Copies(d) \/ Cuts(d)
          PROVE  Held(c)' >= v \/ Gone(c, v)' \/ Interrupted(c, v)'
      <4>1. /\ applied \in [Confs -> [by : Releases, whole : BOOLEAN]]
            /\ apc = "install" /\ d \in todo
            /\ \E b \in BOOLEAN :
                  applied' = [applied EXCEPT ![d] = [by |-> dl["json"], whole |-> b]]
            BY <3>3 DEF AgentTypes, Copies, Cuts
      <4>2. CASE d # c
        <5>1. applied'[c] = applied[c]
              BY <4>1, <4>2
        <5>2. QED BY <2>3, <3>1, <5>1 DEF Held, Interrupted
      <4>3. CASE d = c
        <5>1. \/ Gone(c, v)'
              \/ \E w \in Nat : v <= w /\ <<c, w>> \in dl["json"].checksum.holds
              BY <1>2, <2>1, <3>1, <4>1, <4>3, BroughtAgain
        <5>2. CASE Copies(d)
          <6>1. applied'[c] = [by |-> dl["json"], whole |-> TRUE]
                BY <4>1, <4>3, <5>2 DEF Copies
          <6>2. \A w \in Nat : <<c, w>> \in dl["json"].checksum.holds => Held(c)' = w
                BY <2>2, <6>1 DEF HeldIs
          <6>3. QED BY <5>1, <6>2
        <5>3. CASE Cuts(d)
          <6>1. applied'[c] = [by |-> dl["json"], whole |-> FALSE]
                BY <4>1, <4>3, <5>3 DEF Cuts
          <6>2. Lt(last.version, dl["json"].version)
                BY <4>1 DEF AcceptedInvariant, Trusted
          <6>3. QED BY <2>3, <5>1, <6>1, <6>2 DEF Interrupted
        <5>4. QED BY <3>3, <5>2, <5>3
      <4>4. QED BY <4>2, <4>3
    <3>4. QED BY <1>1, <2>3, <3>2, <3>3 DEF Records
  <2>4. CASE Records /\ UNCHANGED <<vars, made>>
    <3>1. /\ apc = "record" /\ last' = dl["json"] /\ applied' = applied /\ made' = made
          BY <2>4 DEF Records
    <3>2. LastUpTo(c, v, dl["json"].version.build)
          BY <1>4, <3>1 DEF LastUpTo
    <3>3. Held(c) >= v \/ Gone(c, v)
          BY <3>1, <3>2, ClaimKept
    <3>4. QED BY <1>2, <3>1, <3>3 DEF Held
  <2>5. QED BY <1>1, <2>3, <2>4 DEF Copies, Cuts
<1>5. QED BY <1>3, <1>4 DEF RecordedInvariant

\* An edit that was served and is not on the host is at the server, in a release
\* that is newer than the one recorded, or the file was cut short by an earlier one.
LEMMA NotStuck ==
    ASSUME SystemInvariant, FilledInvariant, AcceptedInvariant, AgentVersionInvariant,
           RecordedInvariant
    PROVE  NothingStuck
<1> DEFINE json == nginx[Host]["json"]
<1> SUFFICES ASSUME apc # "record", NEW c \in Confs, cur[Host][c] \in asked,
                    Held(c) # cur[Host][c], ~ Agent!Installable(1),
                    cur[Host][c] \notin amiss, <<c, cur[Host][c]>> \notin lost, Host \notin torn,
                    ~ Broken, ~ Rewound(c), ~ Reinstalled, ~ Agent!Bricked
             PROVE  FALSE
    BY DEF NothingStuck
<1> USE DEF SystemInvariant
<1> DEFINE v == cur[Host][c]
<1>1. /\ Host \in Hosts /\ v \in Nat /\ HeldIs(c)
      /\ Files = {"pkg", "pkgSig", "json", "jsonSig"}
      /\ nginx[Host]["json"] \in JsonType \cup {Missing}
      /\ \A w \in Nat : <<c, w>> \in made => w <= v
      /\ last \in Releases /\ applied[c].by \in Releases
      BY HostAssumption, HeldNow
      DEF ServingInvariant, ManagerInvariant, TypeInvariant, TypeOK, FilesInvariant, Files,
          MadeInvariant, AgentTypes, AcceptedInvariant
<1>2. Held(c) < v
  <2>1. Sound(Gist(applied[c].by))
        BY DEF SoundInvariant, Installed
  <2>2. applied[c].by.checksum.holds \subseteq made
        BY <2>1 DEF Sound, Gist
  <2>3. Held(c) # 0 => <<c, Held(c)>> \in made
        BY <1>1, <2>2 DEF HeldIs
  <2>4. QED BY <1>1, <2>3 DEF HeldIs
<1>3. v # 0 /\ <<c, v>> \in made /\ <<c, v>> \in served[Host]
      BY <1>1, <1>2 DEF ServingInvariant, ServedInvariant, MadeInvariant, HeldIs
<1>4. ~ Gone(c, v)
  <2> SUFFICES ASSUME NEW w \in Nat, w >= v, <<c, w>> \in made, w \in amiss \/ <<c, w>> \in lost
               PROVE  FALSE
      BY DEF Gone
  <2>1. w = v
        BY <1>1
  <2>2. QED BY <2>1
<1>5. <<c, v>> \in nginx[Host]["pkg"].holds
  <2>1. Ahead(c, v)
        BY <1>1, <1>2, <1>3, <1>4 DEF DeliveredInvariant, HeldIs
  <2>2. PICK w \in Nat : v <= w /\ <<c, w>> \in nginx[Host]["pkg"].holds \cap served[Host]
        BY <2>1 DEF Ahead
  <2>3. QED BY <1>1, <2>2 DEF MadeInvariant
<1>6. Complete(nginx[Host])
  <2>1. \A f \in Files : nginx[Host][f] # Missing
        BY <1>3 DEF FilledInvariant
  <2>2. RunOf("pkg", nginx[Host]["pkg"]) \in Nat
        BY <1>1, <2>1 DEF ServingInvariant, ManagerInvariant, OriginInvariant, TypeInvariant, FilesInvariant
  <2>3. \A f \in Files : RunOf(f, nginx[Host][f]) = RunOf("pkg", nginx[Host]["pkg"])
        BY <1>1, <2>1 DEF Broken
  <2>4. QED BY <2>1, <2>2, <2>3 DEF FilledInvariant
<1>7. /\ json # Missing /\ json \in JsonType /\ json.version \in Version
      /\ AsRelease(json) \in Releases /\ json.version.major = 1
      /\ json.platform = FirstPlatform
      /\ nginx[Host]["pkg"] = json.checksum /\ json.checksum \in Packages
      BY <1>1, <1>6 DEF Complete, FilledInvariant, Reinstalled, JsonType, AsRelease, Releases
<1>8. recorded = last /\ last.version \in Version /\ last.version.major = 1
      BY <1>1 DEF AcceptedInvariant, Agent!Bricked, AgentVersionInvariant, Releases
<1>9. ~ Lt(last.version, json.version)
  <2> SUFFICES ASSUME Lt(last.version, json.version) PROVE FALSE
      OBVIOUS
  <2>1. /\ Directory["json"] = AsRelease(json) /\ Directory["jsonSig"] = AsRelease(json)
        /\ Directory["pkg"] = json.checksum /\ Directory["pkgSig"] = json.checksum
        BY <1>1, <1>6, <1>7 DEF Directory, Complete
  <2>2. /\ Le(json.version, json.version)
        /\ ~ Le(json.version, last.version)
        BY <1>7, <1>8, VersionsTotal
  <2>3. ~ Lt(last.version, FirstVersion)
        BY <1>8 DEF Lt, Cmp, Version, FirstVersion
  <2>4. Agent!VersionAccepted(recorded, AsRelease(json), AsRelease(json))
        BY <1>1, <1>7, <1>8, <2>2, <2>3, SameOrder
        DEF Agent!VersionAccepted, Agent!Signed, AsRelease, AcceptedInvariant
  <2>5. Agent!PackageAccepted(AsRelease(json), json.checksum, json.checksum)
        BY <1>7, TornAssumption DEF Agent!PackageAccepted, Agent!Signed, AsRelease
  <2>6. QED BY <1>7, <2>1, <2>4, <2>5 DEF Agent!Installable
<1>10. json.version.build <= last.version.build
  <2>1. NotAfter(last.version, json.version)
        BY <1>7 DEF AgentVersionInvariant
  <2>2. QED BY <1>7, <1>8, <1>9, <2>1 DEF NotAfter, Lt, Cmp, Version
<1>11. v <= json.version.build
  <2>1. Sound(Gist(json))
        BY <1>7 DEF SoundInvariant, AtServer
  <2>2. <<c, v>> \in json.checksum.holds
        BY <1>5, <1>7
  <2>3. QED BY <1>1, <1>4, <2>1, <2>2 DEF Sound, Gist
<1>12. LastUpTo(c, v, last.version.build)
      BY <1>1, <1>3, <1>7, <1>8, <1>10, <1>11 DEF LastUpTo, Version
<1>13. Interrupted(c, v)
      BY <1>1, <1>2, <1>4, <1>12 DEF RecordedInvariant, HeldIs
<1>14. Lt(json.version, applied[c].by.version)
  <2>1. Le(json.version, last.version)
        BY <1>7, <1>8, <1>9, VersionsTotal
  <2>2. applied[c].by.version \in Version
        BY <1>1 DEF Releases
  <2>3. QED BY <1>7, <1>8, <1>13, <2>1, <2>2, LeLtTransitive DEF Interrupted
<1>15. QED BY <1>7, <1>13, <1>14 DEF Rewound, Interrupted

\* Whatever the two programs and their editors did, and whatever was killed or
\* failed: the last edit of a configuration that a run has fetched is on the
\* host, or in a release that the agent is going to install, but for what
\* NothingStuck names.
THEOREM NothingLeftStuck == SystemSpec => []NothingStuck
<1> DEFINE Inv == /\ BoundsInvariant /\ FilledInvariant
                  /\ AcceptedInvariant /\ AgentVersionInvariant /\ RecordedInvariant
<1>1. SystemInit => Inv
  <2>1. SystemInit => BoundsInvariant
        BY BoundsAssumption DEF SystemInit, Init, BoundsInvariant
  <2>2. QED BY <2>1, InitFilled, InitAccepted, InitAgentVersion, InitRecorded
<1>2. SystemInvariant /\ SystemInvariant' /\ Inv /\ [SystemNext]_systemVars => Inv'
  <2> SUFFICES ASSUME SystemInvariant, SystemInvariant', Inv, [SystemNext]_systemVars PROVE Inv'
      OBVIOUS
  <2>1. BoundsInvariant'
        BY ManagerMoves, NextBounds
  <2>2. FilledInvariant'
        BY NextFilled
  <2>3. AcceptedInvariant'
        BY NextAccepted DEF SystemInvariant
  <2>4. AgentVersionInvariant'
        BY <2>2, NextAgentVersion
  <2>5. RecordedInvariant'
        BY NextRecorded
  <2>6. QED BY <2>1, <2>2, <2>3, <2>4, <2>5
<1>3. SystemInvariant /\ Inv => NothingStuck
      BY NotStuck
<1>4. QED BY <1>1, <1>2, <1>3, SystemInvariance, PTL DEF SystemSpec

=============================================================================

------------------------ MODULE UpdateManager_proofs ------------------------
(***************************************************************************)
(* For any hosts, configurations and platforms, and any number of edits,   *)
(* runs, bumps and faults: UpdateManager is type correct, a release is for *)
(* the platform its host had in the run, the version nginx serves covers   *)
(* the edits in the window of its run, and the version offered to a host   *)
(* goes up, with the first release of anything new as with the others.     *)
(***************************************************************************)
EXTENDS UpdateManager, TLAPS

USE DEF dbVars, memVars, runVars, tmpVars, packVars, webVars

-----------------------------------------------------------------------------
(* The parts of the inductive invariant.                                   *)

\* The files are what their names say, and the variables that a step reads
\* have a value.
FilesInvariant ==
    /\ from \in Nat /\ run \in Nat /\ minor \in Nat
    /\ pc \in {"minor", "json", "sign"} => host \in Hosts
    /\ pc \in {"minor", "json"} => tmp[host]["pkg"] = Package(host)
    /\ \A h \in Hosts :
          /\ tmp[h]["pkg"] \in PackageType \cup {Missing}
          /\ nginx[h]["pkg"] \in PackageType \cup {Missing}
          /\ tmp[h]["json"] \in JsonType \cup {Missing}
          /\ nginx[h]["json"] \in JsonType \cup {Missing}

\* What is remembered was seen in this run; the platform is the one of an item.
MemoryInvariant ==
    \A h \in Hosts :
        /\ pc = "idle" => VERSIONS[h] = 0 /\ PLATFORMS[h] = Missing
        /\ VERSIONS[h] # 0 =>
              \E i \in batch : i.host = h /\ i.version = VERSIONS[h]
        /\ PLATFORMS[h] # Missing =>
              \E i \in batch : i.host = h /\ i.platform = PLATFORMS[h]
        /\ tmp[h]["json"] # Missing =>
              \E i \in batch : i.host = h /\ i.platform = tmp[h]["json"].platform

\* A run has the edit of each configuration as it was when it began, and has
\* written it or knows that it failed to.
BatchInvariant ==
    /\ \A i, j \in batch : i.host = j.host /\ i.conf = j.conf => i = j
    /\ pc \notin {"idle", "items"} => items = {}
    /\ pc # "idle" =>
          \A i \in batch :
              i \in items \/ i.version \in amiss \/ confs[i.host][i.conf] = "whole"

\* Number v is greater than what this run and the releases of host h stand for.
Later(h, v) ==
    /\ \A i \in batch : i.version < v
    /\ tmp[h]["json"] # Missing => tmp[h]["json"].version.build < v
    /\ nginx[h]["json"] # Missing => nginx[h]["json"].version.build < v

\* Numbers are drawn in order; an edit that was not committed when the run
\* began is late, or was left out by it.
DrawnInvariant ==
    /\ \A h \in Hosts : Later(h, seq + 1)
    /\ \A h \in Hosts, c \in Confs :
          /\ cur[h][c] <= seq
          /\ pending[h][c] <= seq
          /\ pending[h][c] # 0 =>
                pending[h][c] \in amiss \/ Later(h, pending[h][c])

\* Of the edits that are not in the batch, those in the window are late or left
\* out.
WindowInvariant ==
    \A h \in Hosts, c \in Confs :
        from < cur[h][c] =>
            \/ cur[h][c] \in amiss
            \/ \E i \in batch : i.host = h /\ i.conf = c /\ i.version = cur[h][c]
            \/ \A i \in batch : i.version < cur[h][c]

\* Of the edits in the window of version.json j of host h, up to its version,
\* the package it describes lacks none but those left out.
Covers(h, j) ==
    \A c \in Confs :
        j.checksum.from < cur[h][c] /\ cur[h][c] <= j.version.build
        => <<c, cur[h][c]>> \in j.checksum.holds \/ cur[h][c] \in amiss

CoverInvariant ==
    \A h \in Hosts :
        /\ tmp[h]["json"] # Missing => Covers(h, tmp[h]["json"])
        /\ nginx[h]["json"] # Missing => Covers(h, nginx[h]["json"])

\* A run does not find its own files among those it replaces.
OriginInvariant ==
    /\ pc = "deploy" => \A x \in copies : tmp[x[1]][x[2]] # Missing
    /\ \A h \in Hosts, f \in Files :
        /\ tmp[h][f] # Missing => RunOf(f, tmp[h][f]) = run
        /\ nginx[h][f] # Missing =>
              /\ RunOf(f, nginx[h][f]) \in 0 .. run
              /\ RunOf(f, nginx[h][f]) = run =>
                    pc \in {"idle", "deploy"} /\ nginx[h][f] = tmp[h][f]

\* The version of a host's release is the greatest number of what the run has
\* seen of it.
SeenInvariant ==
    /\ \A h \in Hosts, c \in Confs : pending[h][c] # 0 => cur[h][c] < pending[h][c]
    /\ \A i \in batch :
        /\ i.version <= cur[i.host][i.conf]
        /\ pc # "idle" =>
              \/ i \in items
              \/ i.version \in amiss
              \/ i.version <= VERSIONS[i.host] /\ PLATFORMS[i.host] # Missing
    /\ \A h \in Hosts : tmp[h]["json"] # Missing =>
        LET build == tmp[h]["json"].version.build
        IN  /\ \E i \in batch : i.host = h /\ i.version = build
            /\ \A i \in batch : i.host = h => i.version \in amiss \/ i.version <= build

\* The agent's version v is not after w.
NotAfter(v, w) ==
    \/ v.minor < w.minor
    \/ v.minor = w.minor /\ v.patch <= w.patch

\* What a host was offered is behind what it will be offered: the version of
\* the agent goes up, and a window that reaches behind an edit returns it, or a
\* later one in its place.
OfferedInvariant ==
    \A h \in Hosts :
        /\ offered[h].major = 1
        /\ offered[h].build # 0 => \E c \in Confs : offered[h].build <= cur[h][c]
        /\ (\E i \in batch : i.host = h) =>
              \E i \in batch : i.host = h /\ offered[h].build <= i.version
        /\ h \notin torn => NotAfter(offered[h], cmdb)
        /\ tmp[h]["json"] # Missing =>
              LET version == tmp[h]["json"].version
              IN  /\ version.major = 1
                  /\ h \notin torn =>
                        NotAfter(offered[h], version) /\ NotAfter(version, cmdb)

TypeInvariant == TypeOK /\ FilesInvariant

-----------------------------------------------------------------------------
\* A file put into a directory leaves the directories of their type.
LEMMA PutFile ==
    ASSUME NEW dirs \in [Hosts -> DirType], NEW h \in Hosts, NEW f \in Files,
           NEW x \in PackageType \cup JsonType \cup {Missing}
    PROVE  [dirs EXCEPT ![h][f] = x] \in [Hosts -> DirType]
BY DEF DirType

\* The package of a host is a package.
LEMMA PackageIsPackage ==
    ASSUME TypeInvariant, NEW h \in Hosts
    PROVE  Package(h) \in PackageType
<1>1. Package(h).holds \in SUBSET (Confs \X Nat)
      BY DEF Package, TypeInvariant, TypeOK
<1>2. from \in Nat /\ run \in Nat
      BY DEF TypeInvariant, FilesInvariant
<1>3. QED BY <1>1, <1>2 DEF Package, PackageType

\* A package cut short is one that holds nothing; it is the only file that a
\* failure to package leaves.
LEMMA CutPackage ==
    ASSUME TypeInvariant, NEW h \in Hosts, PackFails(h)
    PROVE  /\ tmp' \in [Hosts -> DirType]
           /\ \A g \in Hosts, f \in Files : tmp'[g][f] # tmp[g][f] =>
                 /\ g = h /\ f = "pkg"
                 /\ tmp'[g][f] \in PackageType /\ tmp'[g][f].run = run
<1>1. tmp \in [Hosts -> DirType]
      BY DEF TypeInvariant, TypeOK
<1>2. CASE UNCHANGED tmp
      BY <1>1, <1>2
<1>3. CASE tmp' = [tmp EXCEPT ![h]["pkg"] =
                     [Package(h) EXCEPT !.holds = {}, !.cut = {}]]
  <2>1. PICK x : x = [Package(h) EXCEPT !.holds = {}, !.cut = {}]
        OBVIOUS
  <2>2. x \in PackageType /\ x.run = run
        BY <2>1, PackageIsPackage DEF Package, PackageType
  <2>3. tmp' = [tmp EXCEPT ![h]["pkg"] = x]
        BY <1>3, <2>1
  <2>4. tmp' \in [Hosts -> DirType]
        BY <1>1, <2>2, <2>3, PutFile DEF Files
  <2>5. \A g \in Hosts, f \in Files : tmp'[g][f] # tmp[g][f] =>
            g = h /\ f = "pkg" /\ tmp'[g][f] = x
        BY <1>1, <2>3 DEF DirType, Files
  <2>6. QED BY <2>2, <2>4, <2>5
<1>4. QED BY <1>2, <1>3 DEF PackFails

\* The package of a host is made of what the run fetched and wrote.
LEMMA SamePackage ==
    UNCHANGED <<run, from, batch, confs>> => \A h : Package(h)' = Package(h)
BY DEF Package

\* The version.json written for a host of which a version is remembered is one.
LEMMA JsonIsJson ==
    ASSUME TypeInvariant, pc = "json", Remembered(host)
    PROVE  Json(host) \in JsonType
<1>1. host \in Hosts
      BY DEF TypeInvariant, FilesInvariant
<1>2. PLATFORMS[host] \in Platforms
      BY <1>1 DEF TypeInvariant, TypeOK, Remembered
<1>3. tmp[host]["pkg"] \in PackageType
      BY <1>1, PackageIsPackage DEF TypeInvariant, FilesInvariant
<1>4. Json(host).version \in Version
      BY <1>1 DEF Json, Version, TypeInvariant, TypeOK, FilesInvariant
<1>5. QED BY <1>2, <1>3, <1>4 DEF Json, JsonType

\* Signing leaves the directories of their type, and all that is signed.
LEMMA SignKeeps ==
    ASSUME TypeInvariant, pc = "sign", NEW fs, Sign(fs)
    PROVE  /\ tmp' \in [Hosts -> DirType]
           /\ \A h \in Hosts : /\ tmp'[h]["pkg"] = tmp[h]["pkg"]
                              /\ tmp'[h]["json"] = tmp[h]["json"]
                              /\ tmp'[h]["pkgSig"] \in {tmp[h]["pkg"], tmp[h]["pkgSig"]}
                              /\ tmp'[h]["jsonSig"] \in {tmp[h]["json"], tmp[h]["jsonSig"]}
<1>1. host \in Hosts
      BY DEF TypeInvariant, FilesInvariant
<1>2. PICK x \in PackageType \cup JsonType \cup {Missing},
            y \in PackageType \cup JsonType \cup {Missing} :
          /\ tmp' = [tmp EXCEPT ![host]["pkgSig"] = x, ![host]["jsonSig"] = y]
          /\ x \in {tmp[host]["pkg"], tmp[host]["pkgSig"]}
          /\ y \in {tmp[host]["json"], tmp[host]["jsonSig"]}
  <2>1. \A f \in Files : tmp[host][f] \in PackageType \cup JsonType \cup {Missing}
        BY <1>1 DEF TypeInvariant, TypeOK, DirType
  <2>2. CASE "pkg" \in fs /\ "json" \in fs
        BY <1>1, <2>1, <2>2 DEF Sign, Files
  <2>3. CASE "pkg" \in fs /\ "json" \notin fs
        BY <1>1, <2>1, <2>3 DEF Sign, Files
  <2>4. CASE "pkg" \notin fs /\ "json" \in fs
        BY <1>1, <2>1, <2>4 DEF Sign, Files
  <2>5. CASE "pkg" \notin fs /\ "json" \notin fs
        BY <1>1, <2>1, <2>5 DEF Sign, Files
  <2>6. QED BY <2>2, <2>3, <2>4, <2>5
<1>3. tmp \in [Hosts -> DirType]
      BY DEF TypeInvariant, TypeOK
<1>4. tmp' \in [Hosts -> DirType]
      BY <1>1, <1>2, <1>3 DEF DirType, Files
<1>5. QED BY <1>1, <1>2, <1>3, <1>4 DEF DirType, Files

\* Initially the types are right.
LEMMA InitTypes == Init => TypeInvariant
<1> SUFFICES ASSUME Init PROVE TypeInvariant
    OBVIOUS
<1>1. NoFiles \in DirType
      BY DEF NoFiles, DirType
<1>2. FirstVersion \in Version
      BY DEF FirstVersion, Version
<1>3. TypeOK
      BY <1>1, <1>2, PlatformsAssumption DEF Init, TypeOK, NoConfs, Failures
<1>4. FilesInvariant
      BY DEF Init, FilesInvariant, NoFiles, Files
<1>5. QED BY <1>3, <1>4 DEF TypeInvariant

\* Every step keeps them.
LEMMA NextTypes ==
    TypeInvariant /\ MemoryInvariant /\ [Next]_vars => TypeInvariant'
<1> SUFFICES ASSUME TypeInvariant, MemoryInvariant, [Next]_vars
             PROVE  TypeOK' /\ FilesInvariant'
    BY DEF TypeInvariant
<1> USE BoundsAssumption DEF TypeInvariant
<1>1. CASE UNCHANGED vars
      BY <1>1 DEF vars, TypeOK, FilesInvariant, Package
<1>2. CASE Databases
  <2>1. ASSUME NEW h \in Hosts, NEW c \in Confs, EditConfig(h, c) \/ CommitConfig(h, c)
        PROVE  TypeOK' /\ FilesInvariant'
    <3>1. /\ seq' \in Nat
          /\ cur' \in [Hosts -> [Confs -> Nat]]
          /\ pending' \in [Hosts -> [Confs -> Nat]]
      <4>1. CASE EditConfig(h, c)
            BY <4>1 DEF EditConfig, TypeOK
      <4>2. CASE CommitConfig(h, c)
            BY <4>2 DEF CommitConfig, TypeOK
      <4>3. QED BY <2>1, <4>1, <4>2
    <3>2. FilesInvariant'
          BY <2>1, SamePackage DEF EditConfig, CommitConfig, FilesInvariant
    <3>3. TypeOK'
          BY <2>1, <3>1 DEF EditConfig, CommitConfig, TypeOK
    <3>4. QED BY <3>2, <3>3
  <2>2. ASSUME NEW h \in Hosts, NEW p \in Platforms, ChangePlatform(h, p)
        PROVE  TypeOK' /\ FilesInvariant'
        BY <2>2 DEF ChangePlatform, TypeOK, FilesInvariant, Package
  <2>3. CASE BumpVersion
    <3>1. cmdb' \in [minor : Nat, patch : Nat]
          BY <2>3 DEF BumpVersion, TypeOK
    <3>2. TypeOK'
          BY <2>3, <3>1 DEF BumpVersion, TypeOK
    <3>3. FilesInvariant'
          BY <2>3, SamePackage DEF BumpVersion, FilesInvariant
    <3>4. QED BY <3>2, <3>3
  <2>4. QED BY <1>2, <2>1, <2>2, <2>3 DEF Databases
<1>3. ASSUME NEW v \in 0 .. seq, NEW answer \in SUBSET Updated(v), BeginRun(v, answer)
      PROVE  TypeOK' /\ FilesInvariant'
  <2>1. NoFiles \in DirType /\ NoConfs \in [Confs -> {"unlisted"}]
        BY DEF NoFiles, DirType, NoConfs
  <2>2. \A i \in answer : /\ i.host \in Hosts /\ i.conf \in Confs
                          /\ i.version \in Nat /\ i.platform \in Platforms
        BY DEF Updated, Pairs, TypeOK
  <2>3. TypeOK'
        BY <1>3, <2>1, <2>2 DEF BeginRun, TypeOK, Failures
  <2>4. FilesInvariant'
        BY <1>3 DEF BeginRun, FilesInvariant, NoFiles, Files, TypeOK
  <2>5. QED BY <2>3, <2>4
<1>4. ASSUME NEW i \in items, Remember(i) \/ RememberVersion(i)
      PROVE  /\ VERSIONS' \in [Hosts -> Nat]
             /\ PLATFORMS' \in [Hosts -> Platforms \cup {Missing}]
      BY <1>4 DEF Remember, RememberVersion, TypeOK
<1>5. ASSUME NEW i \in items, ProcessItem(i)
      PROVE  TypeOK' /\ FilesInvariant'
      BY <1>4, <1>5 DEF ProcessItem, TypeOK, FilesInvariant
<1>6. ASSUME NEW i \in items, NEW how \in Failures, ItemFails(i, how)
      PROVE  TypeOK' /\ FilesInvariant'
      BY <1>4, <1>6 DEF ItemFails, TypeOK, FilesInvariant
<1>7. CASE StartPackaging
      BY <1>7 DEF StartPackaging, TypeOK, FilesInvariant
<1>8. ASSUME NEW h \in Hosts, PackHost(h)
      PROVE  TypeOK' /\ FilesInvariant'
  <2>1. Package(h) \in PackageType /\ Package(h) = Package(h)'
        BY <1>8, PackageIsPackage DEF PackHost, Package
  <2>2. tmp' \in [Hosts -> DirType]
        BY <1>8, <2>1, PutFile DEF PackHost, TypeOK, Files
  <2>3. TypeOK'
        BY <1>8, <2>2 DEF PackHost, TypeOK
  <2>4. FilesInvariant'
        BY <1>8, <2>1 DEF PackHost, FilesInvariant, TypeOK, DirType, Files
  <2>5. QED BY <2>3, <2>4
<1>8a. ASSUME NEW h \in Hosts, PackFails(h)
      PROVE  TypeOK' /\ FilesInvariant'
  <2>1. tmp' \in [Hosts -> DirType]
        BY <1>8a, CutPackage
  <2>2. \A g \in Hosts : /\ tmp'[g]["pkg"] \in PackageType \cup {Missing}
                         /\ tmp'[g]["json"] = tmp[g]["json"]
    <3>1. {"pkg", "json"} \subseteq Files
          BY DEF Files
    <3>2. QED BY <1>8a, <3>1, CutPackage DEF FilesInvariant
  <2>3. TypeOK'
        BY <1>8a, <2>1 DEF PackFails, TypeOK
  <2>4. FilesInvariant'
        BY <1>8a, <2>2 DEF PackFails, FilesInvariant
  <2>5. QED BY <2>3, <2>4
<1>9. CASE ReadMinor
      BY <1>9 DEF ReadMinor, TypeOK, FilesInvariant, Package
<1>10. CASE WriteJson
  <2>1. CASE ~ Remembered(host)
        BY <1>10, <2>1 DEF WriteJson, TypeOK, FilesInvariant
  <2>2. CASE Remembered(host)
    <3>1. Json(host) \in JsonType /\ host \in Hosts
          BY <1>10, <2>2, JsonIsJson DEF WriteJson, FilesInvariant
    <3>2. tmp' \in [Hosts -> DirType]
      <4>1. tmp' = [tmp EXCEPT ![host]["json"] = Json(host)]
            BY <1>10, <2>2 DEF WriteJson
      <4>2. tmp \in [Hosts -> DirType] /\ "json" \in Files
            BY DEF TypeOK, Files
      <4>3. QED BY <3>1, <4>1, <4>2, PutFile
    <3>3. TypeOK'
          BY <1>10, <2>2, <3>2 DEF WriteJson, TypeOK
    <3>4. FilesInvariant'
      <4>1. tmp' = [tmp EXCEPT ![host]["json"] = Json(host)]
            BY <1>10, <2>2 DEF WriteJson
      <4>2. \A h \in Hosts : /\ tmp'[h]["pkg"] = tmp[h]["pkg"]
                             /\ tmp'[h]["json"] \in {tmp[h]["json"], Json(host)}
            BY <3>1, <4>1 DEF TypeOK, DirType, Files
      <4>3. QED BY <1>10, <2>2, <3>1, <4>2 DEF WriteJson, FilesInvariant
    <3>5. QED BY <3>3, <3>4
  <2>3. QED BY <2>1, <2>2
<1>11. ASSUME NEW fs, pc = "sign", pc' = "pack", Sign(fs),
              UNCHANGED <<dbVars, memVars, runVars, items, confs, packVars, copies, webVars>>
       PROVE  TypeOK' /\ FilesInvariant'
       BY <1>11, SignKeeps DEF TypeOK, FilesInvariant
<1>12. CASE SignFiles
       BY <1>12, <1>11 DEF SignFiles, Files
<1>13. ASSUME NEW fs \in {{}, {"pkg"}, {"json"}}, SignFails(fs)
       PROVE  TypeOK' /\ FilesInvariant'
       BY <1>13, <1>11 DEF SignFails, Files
<1>14. CASE StartDeploying
       BY <1>14 DEF StartDeploying, TypeOK, FilesInvariant
<1>15. ASSUME NEW h \in Hosts, NEW f \in Files, DeployFile(h, f)
       PROVE  TypeOK' /\ FilesInvariant'
  <2>1. tmp[h][f] \in PackageType \cup JsonType \cup {Missing}
        BY DEF TypeOK, DirType
  <2>2. nginx' \in [Hosts -> DirType]
        BY <1>15, <2>1, PutFile DEF DeployFile, TypeOK
  <2>3. \A g \in Hosts : /\ nginx'[g]["pkg"] \in PackageType \cup {Missing}
                         /\ nginx'[g]["json"] \in JsonType \cup {Missing}
        BY <1>15 DEF DeployFile, TypeOK, DirType, FilesInvariant, Files
  <2>4. Complete(nginx'[h]) => nginx'[h]["json"].version \in Version
        BY <2>3 DEF Complete, JsonType
  <2>5. TypeOK'
        BY <1>15, <2>2, <2>4 DEF DeployFile, TypeOK
  <2>6. FilesInvariant'
        BY <1>15, <2>3 DEF DeployFile, FilesInvariant, Package
  <2>7. QED BY <2>5, <2>6
<1>16. CASE FinishRun
       BY <1>16 DEF FinishRun, Reload, TypeOK, FilesInvariant
<1>17. CASE ReadFails
       BY <1>17 DEF ReadFails, TypeOK, FilesInvariant
<1>18. CASE Crash
       BY <1>18 DEF Crash, Reload, TypeOK, FilesInvariant
<1>19. ASSUME NEW h \in Hosts, FetchGarbage(h)
       PROVE  TypeOK' /\ FilesInvariant'
       BY <1>19, <1>3 DEF FetchGarbage
<1>20. CASE Fetch
       BY <1>20, <1>3 DEF Fetch
<1>21. CASE Manager
       BY <1>21, <1>5, <1>7, <1>8, <1>9, <1>10, <1>12, <1>14, <1>15, <1>16, <1>20 DEF Manager
<1>22. CASE Trouble
       BY <1>22, <1>6, <1>8a, <1>13, <1>17, <1>18, <1>19 DEF Trouble
<1>23. QED BY <1>1, <1>2, <1>21, <1>22 DEF Next

-----------------------------------------------------------------------------
\* What is remembered belongs to the run.
LEMMA NextMemory ==
    TypeInvariant /\ MemoryInvariant /\ [Next]_vars => MemoryInvariant'
<1> SUFFICES ASSUME TypeInvariant, MemoryInvariant, [Next]_vars
             PROVE  MemoryInvariant'
    OBVIOUS
<1> USE DEF TypeInvariant, MemoryInvariant
<1>1. CASE UNCHANGED vars
      BY <1>1 DEF vars
<1>2. CASE Databases
      BY <1>2 DEF Databases, EditConfig, CommitConfig, ChangePlatform, BumpVersion
<1>3. ASSUME NEW v, NEW answer, BeginRun(v, answer) PROVE MemoryInvariant'
      BY <1>3 DEF BeginRun, NoFiles, Files
<1>4. ASSUME NEW i \in items, pc' = "items",
             Remember(i) \/ RememberVersion(i) \/ UNCHANGED memVars,
             UNCHANGED <<batch, tmp>>
      PROVE  MemoryInvariant'
  <2>1. i \in batch /\ i.host \in Hosts /\ i.version \in Nat /\ i.platform \in Platforms
        BY DEF TypeOK
  <2>2. CASE Remember(i)
    <3>1. \A h \in Hosts \ {i.host} :
              VERSIONS'[h] = VERSIONS[h] /\ PLATFORMS'[h] = PLATFORMS[h]
          BY <2>2 DEF Remember, TypeOK
    <3>2. /\ VERSIONS'[i.host] \in {VERSIONS[i.host], i.version}
          /\ PLATFORMS'[i.host] =
                IF PLATFORMS[i.host] = Missing THEN i.platform ELSE PLATFORMS[i.host]
          BY <2>1, <2>2 DEF Remember, TypeOK
    <3>3. i.platform # Missing
          BY <2>1, PlatformsAssumption
    <3>4. QED BY <1>4, <2>1, <3>1, <3>2, <3>3
  <2>3. CASE RememberVersion(i)
    <3>1. /\ \A h \in Hosts \ {i.host} : VERSIONS'[h] = VERSIONS[h]
          /\ VERSIONS'[i.host] \in {VERSIONS[i.host], i.version}
          /\ PLATFORMS' = PLATFORMS
          BY <2>1, <2>3 DEF RememberVersion, TypeOK
    <3>2. QED BY <1>4, <2>1, <3>1
  <2>4. CASE UNCHANGED memVars
        BY <1>4, <2>4
  <2>5. QED BY <1>4, <2>2, <2>3, <2>4
<1>5. ASSUME NEW i \in items, ProcessItem(i) PROVE MemoryInvariant'
      BY <1>4, <1>5 DEF ProcessItem
<1>6. ASSUME NEW i \in items, NEW how \in Failures, ItemFails(i, how)
      PROVE  MemoryInvariant'
      BY <1>4, <1>6 DEF ItemFails
<1>7. CASE StartPackaging \/ ReadMinor \/ ReadFails \/ StartDeploying
      BY <1>7 DEF StartPackaging, ReadMinor, ReadFails, StartDeploying
<1>8. ASSUME pc' # "idle", UNCHANGED <<VERSIONS, PLATFORMS, batch>>,
             \A h \in Hosts : tmp'[h]["json"] = tmp[h]["json"]
      PROVE  MemoryInvariant'
      BY <1>8
<1>9. ASSUME NEW h \in Hosts, PackHost(h) PROVE MemoryInvariant'
  <2>1. \A g \in Hosts : tmp'[g]["json"] = tmp[g]["json"]
        BY <1>9 DEF PackHost, TypeOK, DirType, Files
  <2>2. QED BY <1>8, <1>9, <2>1 DEF PackHost
<1>9a. ASSUME NEW h \in Hosts, PackFails(h) PROVE MemoryInvariant'
  <2>1. \A g \in Hosts : tmp'[g]["json"] = tmp[g]["json"]
        BY <1>9a, CutPackage DEF Files
  <2>2. QED BY <1>8, <1>9a, <2>1 DEF PackFails
<1>10. CASE WriteJson
  <2>1. CASE ~ Remembered(host)
        BY <1>10, <2>1 DEF WriteJson
  <2>2. CASE Remembered(host)
    <3>1. host \in Hosts
          BY <1>10 DEF WriteJson, FilesInvariant
    <3>2. PICK i \in batch : i.host = host /\ i.platform = Json(host).platform
          BY <2>2, <3>1 DEF Json, Remembered
    <3>3. tmp' = [tmp EXCEPT ![host]["json"] = Json(host)]
          BY <1>10, <2>2 DEF WriteJson
    <3>4. \A h \in Hosts : tmp'[h]["json"] = IF h = host THEN Json(host) ELSE tmp[h]["json"]
          BY <3>1, <3>3 DEF TypeOK, DirType, Files
    <3>5. QED BY <1>10, <2>2, <3>2, <3>4 DEF WriteJson
  <2>3. QED BY <2>1, <2>2
<1>11. ASSUME NEW fs, Sign(fs), pc' = "pack", pc = "sign", UNCHANGED <<memVars, batch>>
       PROVE  MemoryInvariant'
  <2>1. \A h \in Hosts : tmp'[h]["json"] = tmp[h]["json"]
        BY <1>11, SignKeeps
  <2>2. QED BY <1>8, <1>11, <2>1
<1>12. CASE SignFiles
       BY <1>12, <1>11 DEF SignFiles
<1>13. ASSUME NEW fs \in {{}, {"pkg"}, {"json"}}, SignFails(fs) PROVE MemoryInvariant'
       BY <1>13, <1>11 DEF SignFails
<1>14. ASSUME NEW h \in Hosts, NEW f \in Files, DeployFile(h, f) PROVE MemoryInvariant'
       BY <1>14 DEF DeployFile
<1>15. CASE FinishRun \/ Crash
       BY <1>15 DEF FinishRun, Crash, Reload
<1>16. CASE Fetch
       BY <1>16, <1>3 DEF Fetch
<1>17. ASSUME NEW h \in Hosts, FetchGarbage(h) PROVE MemoryInvariant'
       BY <1>17, <1>3 DEF FetchGarbage
<1>18. CASE Manager
       BY <1>18, <1>5, <1>7, <1>9, <1>10, <1>12, <1>14, <1>15, <1>16 DEF Manager
<1>19. CASE Trouble
       BY <1>19, <1>6, <1>7, <1>9a, <1>13, <1>15, <1>17 DEF Trouble
<1>20. QED BY <1>1, <1>2, <1>18, <1>19 DEF Next

\* What a window returns is one record for each configuration edited, of the
\* edit that is committed.
LEMMA UpdatedItems ==
    ASSUME NEW v, NEW i \in Updated(v)
    PROVE  /\ i.host \in Hosts /\ i.conf \in Confs
           /\ i.version = cur[i.host][i.conf] /\ i.version > v
           /\ \A j \in Updated(v) : i.host = j.host /\ i.conf = j.conf => i = j
BY DEF Updated, Pairs

\* A configuration edited since is returned.
LEMMA UpdatedAll ==
    ASSUME NEW v, NEW h \in Hosts, NEW c \in Confs, cur[h][c] > v
    PROVE  \E i \in Updated(v) : i.host = h /\ i.conf = c /\ i.version = cur[h][c]
<1> DEFINE x == <<h, c>>
           i == [host |-> x[1], conf |-> x[2], version |-> cur[x[1]][x[2]],
                 platform |-> plat[x[1]]]
<1>1. x \in {y \in Pairs : cur[y[1]][y[2]] > v}
      BY DEF Pairs
<1>2. i \in Updated(v)
      BY <1>1 DEF Updated
<1>3. QED BY <1>2

\* A run writes what it has fetched, or knows what it has not written.
LEMMA NextBatch ==
    TypeInvariant /\ BatchInvariant /\ [Next]_vars => BatchInvariant'
<1> SUFFICES ASSUME TypeInvariant, BatchInvariant, [Next]_vars
             PROVE  BatchInvariant'
    OBVIOUS
<1> USE DEF BatchInvariant
<1>1. ASSUME UNCHANGED <<pc, batch, items, amiss, confs>>
      PROVE  BatchInvariant'
      BY <1>1
<1>2. CASE UNCHANGED vars
      BY <1>1, <1>2 DEF vars
<1>3. CASE Databases
      BY <1>1, <1>3 DEF Databases, EditConfig, CommitConfig, ChangePlatform, BumpVersion
<1>4. ASSUME NEW v, NEW answer \in SUBSET Updated(v), BeginRun(v, answer)
      PROVE  BatchInvariant'
  <2>1. batch' = answer /\ items' = answer /\ pc' = "items"
        BY <1>4 DEF BeginRun
  <2>2. \A i, j \in answer : i.host = j.host /\ i.conf = j.conf => i = j
        BY UpdatedItems
  <2>3. QED BY <2>1, <2>2
<1>5. ASSUME NEW i \in items, NEW how \in Failures \cup {"whole"},
             pc = "items", items' = items \ {i},
             confs' = [confs EXCEPT ![i.host][i.conf] = how],
             amiss \subseteq amiss', how = "whole" \/ i.version \in amiss',
             UNCHANGED <<pc, batch>>
      PROVE  BatchInvariant'
  <2>1. i \in batch /\ i.host \in Hosts /\ i.conf \in Confs
        BY DEF TypeInvariant, TypeOK
  <2>2. \A j \in batch : /\ j.host \in Hosts /\ j.conf \in Confs
                         /\ j # i => confs'[j.host][j.conf] = confs[j.host][j.conf]
        BY <1>5, <2>1 DEF TypeInvariant, TypeOK
  <2>3. confs'[i.host][i.conf] = how
        BY <1>5, <2>1 DEF TypeInvariant, TypeOK
  <2>4. QED BY <1>5, <2>1, <2>2, <2>3
<1>6. ASSUME NEW i \in items, ProcessItem(i) PROVE BatchInvariant'
      BY <1>5, <1>6 DEF ProcessItem
<1>7. ASSUME NEW i \in items, NEW how \in Failures, ItemFails(i, how)
      PROVE  BatchInvariant'
  <2>1. /\ pc = "items" /\ items' = items \ {i} /\ amiss' = amiss \cup {i.version}
        /\ confs' = [confs EXCEPT ![i.host][i.conf] = how]
        /\ UNCHANGED <<pc, batch>>
        BY <1>7 DEF ItemFails
  <2>2. QED BY <1>5, <2>1
<1>8. ASSUME pc' # "items", pc = "idle" => pc' = "idle",
             items = {}, UNCHANGED <<batch, items, confs>>, amiss \subseteq amiss'
      PROVE  BatchInvariant'
      BY <1>8
<1>9. CASE StartPackaging
      BY <1>8, <1>9 DEF StartPackaging
<1>10. ASSUME NEW h \in Hosts, PackHost(h) \/ PackFails(h) PROVE BatchInvariant'
       BY <1>8, <1>10 DEF PackHost, PackFails
<1>11. CASE ReadMinor \/ WriteJson \/ ReadFails
       BY <1>8, <1>11 DEF ReadMinor, WriteJson, ReadFails
<1>12. ASSUME SignFiles \/ (\E fs \in {{}, {"pkg"}, {"json"}} : SignFails(fs))
       PROVE BatchInvariant'
       BY <1>8, <1>12 DEF SignFiles, SignFails
<1>13. CASE StartDeploying \/ FinishRun
       BY <1>8, <1>13 DEF StartDeploying, FinishRun
<1>14. ASSUME NEW h \in Hosts, NEW f \in Files, DeployFile(h, f) PROVE BatchInvariant'
       BY <1>8, <1>14 DEF DeployFile
<1>15. CASE Crash
       BY <1>15 DEF Crash
<1>16. CASE Fetch
       BY <1>16, <1>4 DEF Fetch
<1>17. ASSUME NEW h \in Hosts, FetchGarbage(h) PROVE BatchInvariant'
       BY <1>17, <1>4 DEF FetchGarbage
<1>18. CASE Manager
       BY <1>18, <1>6, <1>9, <1>10, <1>11, <1>12, <1>13, <1>14, <1>16 DEF Manager
<1>19. CASE Trouble
       BY <1>19, <1>7, <1>10, <1>11, <1>12, <1>15, <1>17 DEF Trouble
<1>20. QED BY <1>2, <1>3, <1>18, <1>19 DEF Next

-----------------------------------------------------------------------------
\* The files of a run and those it replaces are told apart.
LEMMA NextOrigin ==
    TypeInvariant /\ OriginInvariant /\ [Next]_vars => OriginInvariant'
<1> SUFFICES ASSUME TypeInvariant, OriginInvariant, [Next]_vars
             PROVE  OriginInvariant'
    OBVIOUS
<1> USE DEF OriginInvariant
<1>1. run \in Nat /\ tmp \in [Hosts -> DirType] /\ nginx \in [Hosts -> DirType]
      BY DEF TypeInvariant, TypeOK, FilesInvariant
<1>2. ASSUME UNCHANGED <<tmp, nginx, run>>, pc' # "deploy",
             pc' # "idle" => pc \notin {"idle", "deploy"}
      PROVE  OriginInvariant'
      BY <1>2 DEF RunOf
<1>3. CASE UNCHANGED vars
      BY <1>3 DEF vars, RunOf
<1>4. CASE Databases
      BY <1>4 DEF Databases, EditConfig, CommitConfig, ChangePlatform, BumpVersion, RunOf
<1>5. ASSUME NEW v, NEW answer, BeginRun(v, answer) PROVE OriginInvariant'
  <2>1. /\ run' = run + 1 /\ nginx' = nginx /\ pc' = "items"
        /\ \A h \in Hosts, f \in Files : tmp'[h][f] = Missing
        BY <1>5 DEF BeginRun, NoFiles
  <2>2. \A h \in Hosts, f \in Files : nginx'[h][f] # Missing =>
            RunOf(f, nginx'[h][f]) \in 0 .. run' /\ RunOf(f, nginx'[h][f]) # run'
        BY <1>1, <2>1
  <2>3. QED BY <2>1, <2>2 DEF RunOf
<1>6. ASSUME NEW i \in items, ProcessItem(i) PROVE OriginInvariant'
      BY <1>2, <1>6 DEF ProcessItem
<1>7. ASSUME NEW i \in items, NEW how \in Failures, ItemFails(i, how)
      PROVE  OriginInvariant'
      BY <1>2, <1>7 DEF ItemFails
<1>8. CASE StartPackaging \/ ReadMinor \/ ReadFails \/ FinishRun \/ Crash
      BY <1>2, <1>8 DEF StartPackaging, ReadMinor, ReadFails, FinishRun, Crash
<1>9. ASSUME UNCHANGED <<nginx, run>>, pc \notin {"idle", "deploy"}, pc' # "deploy",
             \A h \in Hosts, f \in Files :
                tmp'[h][f] # Missing => RunOf(f, tmp'[h][f]) = run
      PROVE  OriginInvariant'
      BY <1>9 DEF RunOf
<1>10. ASSUME NEW h \in Hosts, PackHost(h) PROVE OriginInvariant'
  <2>1. \A g \in Hosts, f \in Files : tmp'[g][f] # tmp[g][f] =>
            f = "pkg" /\ tmp'[g][f] = Package(h)
        BY <1>1, <1>10 DEF PackHost, DirType, Files
  <2>2. RunOf("pkg", Package(h)) = run
        BY DEF RunOf, Package
  <2>3. QED BY <1>9, <1>10, <2>1, <2>2 DEF PackHost
<1>10a. ASSUME NEW h \in Hosts, PackFails(h) PROVE OriginInvariant'
  <2>1. \A g \in Hosts, f \in Files : tmp'[g][f] # tmp[g][f] =>
            f = "pkg" /\ RunOf(f, tmp'[g][f]) = run
        BY <1>10a, CutPackage DEF RunOf
  <2>2. QED BY <1>9, <1>10a, <2>1 DEF PackFails
<1>11. CASE WriteJson
  <2>1. CASE ~ Remembered(host)
        BY <1>2, <1>11, <2>1 DEF WriteJson
  <2>2. CASE Remembered(host)
    <3>1. host \in Hosts /\ tmp[host]["pkg"] = Package(host)
          BY <1>11 DEF WriteJson, TypeInvariant, FilesInvariant
    <3>2. tmp' = [tmp EXCEPT ![host]["json"] = Json(host)]
          BY <1>11, <2>2 DEF WriteJson
    <3>3. \A g \in Hosts, f \in Files : tmp'[g][f] # tmp[g][f] =>
              f = "json" /\ tmp'[g][f] = Json(host)
          BY <1>1, <3>1, <3>2 DEF DirType, Files
    <3>4. RunOf("json", Json(host)) = run
          BY <3>1 DEF RunOf, Json, Package
    <3>5. QED BY <1>9, <1>11, <2>2, <3>3, <3>4 DEF WriteJson
  <2>3. QED BY <2>1, <2>2
<1>12. ASSUME NEW fs, pc = "sign", pc' = "pack", Sign(fs), UNCHANGED <<nginx, run>>
       PROVE  OriginInvariant'
  <2>1. ASSUME NEW h \in Hosts, NEW f \in Files, tmp'[h][f] # Missing
        PROVE  RunOf(f, tmp'[h][f]) = run
        BY <1>12, <2>1, SignKeeps DEF Files, RunOf
  <2>2. QED BY <1>9, <1>12, <2>1
<1>13. CASE SignFiles
       BY <1>12, <1>13 DEF SignFiles
<1>14. ASSUME NEW fs \in {{}, {"pkg"}, {"json"}}, SignFails(fs) PROVE OriginInvariant'
       BY <1>12, <1>14 DEF SignFails
<1>15. CASE StartDeploying
       BY <1>15 DEF StartDeploying, RunOf
<1>16. ASSUME NEW h \in Hosts, NEW f \in Files, DeployFile(h, f) PROVE OriginInvariant'
  <2>1. /\ pc = "deploy" /\ pc' = "deploy" /\ copies' \subseteq copies
        /\ UNCHANGED <<tmp, run>> /\ tmp[h][f] # Missing
        BY <1>16 DEF DeployFile
  <2>2. \A g \in Hosts, e \in Files :
            nginx'[g][e] = IF g = h /\ e = f THEN tmp[h][f] ELSE nginx[g][e]
        BY <1>1, <1>16 DEF DeployFile, DirType
  <2>3. RunOf(f, tmp[h][f]) = run
        BY <2>1
  <2>4. QED BY <1>1, <2>1, <2>2, <2>3 DEF RunOf
<1>17. CASE Fetch
       BY <1>5, <1>17 DEF Fetch
<1>18. ASSUME NEW h \in Hosts, FetchGarbage(h) PROVE OriginInvariant'
       BY <1>5, <1>18 DEF FetchGarbage
<1>19. CASE Manager
       BY <1>19, <1>6, <1>8, <1>10, <1>11, <1>13, <1>15, <1>16, <1>17 DEF Manager
<1>20. CASE Trouble
       BY <1>20, <1>7, <1>8, <1>10a, <1>14, <1>18 DEF Trouble
<1>21. QED BY <1>3, <1>4, <1>19, <1>20 DEF Next

-----------------------------------------------------------------------------
(* What the steps do to edits, windows and versions, in three kinds besides *)
(* EditConfig and CommitConfig.                                             *)

\* A run begins: what the window returns is in the batch or left out, all of a
\* host alike, and so is what is not committed.
NewWindow ==
    \E v \in 0 .. seq :
        /\ from' = v
        /\ batch' \subseteq Updated(v)
        /\ \A i \in Updated(v) : i \in batch' \/ i.version \in amiss'
        /\ \A i, j \in Updated(v) : i.host = j.host /\ i \in batch' => j \in batch'
        /\ Uncommitted \subseteq amiss' /\ amiss \subseteq amiss'
        /\ \A h \in Hosts : tmp'[h]["json"] = Missing
        /\ UNCHANGED <<seq, cur, pending, nginx, torn, cmdb, offered>>

\* version.json of a host is written.
JsonWritten ==
    /\ pc = "json" /\ host \in Hosts /\ Remembered(host)
    /\ \A h \in Hosts : tmp'[h]["json"] = IF h = host THEN Json(host) ELSE tmp[h]["json"]
    /\ torn' = IF minor = cmdb.minor THEN torn ELSE torn \cup {host}
    /\ UNCHANGED <<seq, cur, pending, batch, from, amiss, nginx, cmdb, offered>>

\* Anything else: at most, a version.json is copied or offered, more is left out,
\* or the agent's version goes up.
Passing ==
    /\ UNCHANGED <<seq, cur, pending, batch, from, torn>>
    /\ NotAfter(cmdb, cmdb')
    /\ \A h \in Hosts :
          \/ offered'[h] = offered[h]
          \/ tmp[h]["json"] # Missing /\ offered'[h] = tmp[h]["json"].version
    /\ amiss \subseteq amiss'
    /\ \A h \in Hosts : /\ tmp'[h]["json"] = tmp[h]["json"]
                        /\ nginx'[h]["json"] \in {nginx[h]["json"], tmp[h]["json"]}

LEMMA StepKinds ==
    TypeInvariant /\ OriginInvariant /\ [Next]_vars =>
        \/ \E h \in Hosts, c \in Confs : EditConfig(h, c) \/ CommitConfig(h, c)
        \/ NewWindow
        \/ JsonWritten
        \/ Passing
<1> DEFINE Kinds == \/ \E h \in Hosts, c \in Confs : EditConfig(h, c) \/ CommitConfig(h, c)
                    \/ NewWindow \/ JsonWritten \/ Passing
<1> SUFFICES ASSUME TypeInvariant, OriginInvariant, [Next]_vars PROVE Kinds
    OBVIOUS
<1>0. /\ cmdb \in [minor : Nat, patch : Nat]
      /\ cmdb' = cmdb => NotAfter(cmdb, cmdb')
      BY DEF TypeInvariant, TypeOK, NotAfter
<1>1. CASE UNCHANGED vars
      BY <1>0, <1>1 DEF vars, Passing
<1>2. CASE Databases
  <2>1. CASE BumpVersion
    <3>1. NotAfter(cmdb, cmdb')
          BY <1>0, <2>1 DEF BumpVersion, NotAfter
    <3>2. QED BY <2>1, <3>1 DEF BumpVersion, Passing
  <2>2. QED BY <1>0, <1>2, <2>1 DEF Databases, ChangePlatform, Passing
<1>3. ASSUME NEW v \in 0 .. seq, NEW answer \in SUBSET Updated(v), BeginRun(v, answer)
      PROVE  /\ from' = v /\ batch' \subseteq Updated(v) /\ batch' = answer
             /\ \A h \in Hosts : tmp'[h]["json"] = Missing
             /\ UNCHANGED <<seq, cur, pending, nginx, torn, cmdb, offered>>
      BY <1>3 DEF BeginRun, NoFiles, Files
<1>4. CASE Fetch
      BY <1>3, <1>4 DEF Fetch, NewWindow
<1>5. ASSUME NEW h \in Hosts, FetchGarbage(h) PROVE NewWindow
  <2>1. PICK v \in 0 .. seq :
            LET skipped == {i \in Updated(v) : i.host = h}
                versions == {i.version : i \in skipped}
            IN  /\ BeginRun(v, Updated(v) \ skipped)
                /\ amiss' = amiss \cup Uncommitted \cup versions
        BY <1>5 DEF FetchGarbage
  <2>2. DEFINE skipped == {i \in Updated(v) : i.host = h}
  <2>3. /\ batch' = Updated(v) \ skipped /\ from' = v
        /\ UNCHANGED <<seq, cur, pending, nginx, torn, cmdb, offered>>
        BY <1>3, <2>1
  <2>4. \A i \in Updated(v) : i \in batch' \/ i.version \in amiss'
        BY <2>1, <2>3
  <2>5. \A g \in Hosts : tmp'[g]["json"] = Missing
        BY <1>3, <2>1
  <2>6. QED BY <2>1, <2>3, <2>4, <2>5 DEF NewWindow
<1>6. CASE StartPackaging \/ ReadMinor \/ ReadFails \/ StartDeploying \/ FinishRun \/ Crash
      BY <1>0, <1>6 DEF StartPackaging, ReadMinor, ReadFails, StartDeploying, FinishRun, Crash,
                  Passing
<1>7. ASSUME NEW i \in items, ProcessItem(i) PROVE Passing
      BY <1>0, <1>7 DEF ProcessItem, Passing
<1>8. ASSUME NEW i \in items, NEW how \in Failures, ItemFails(i, how) PROVE Passing
      BY <1>0, <1>8 DEF ItemFails, Passing
<1>9. ASSUME NEW h \in Hosts, PackHost(h) PROVE Passing
  <2>1. \A g \in Hosts : tmp'[g]["json"] = tmp[g]["json"]
        BY <1>0, <1>9 DEF PackHost, TypeInvariant, TypeOK, DirType, Files
  <2>2. QED BY <1>0, <1>9, <2>1 DEF PackHost, Passing
<1>9a. ASSUME NEW h \in Hosts, PackFails(h) PROVE Passing
  <2>1. \A g \in Hosts : tmp'[g]["json"] = tmp[g]["json"]
        BY <1>9a, CutPackage DEF Files
  <2>2. QED BY <1>0, <1>9a, <2>1 DEF PackFails, Passing
<1>10. CASE WriteJson
  <2>1. CASE ~ Remembered(host)
        BY <1>0, <1>10, <2>1 DEF WriteJson, Passing
  <2>2. CASE Remembered(host)
    <3>1. host \in Hosts
          BY <1>0, <1>10 DEF WriteJson, TypeInvariant, FilesInvariant
    <3>2. tmp' = [tmp EXCEPT ![host]["json"] = Json(host)]
          BY <1>0, <1>10, <2>2 DEF WriteJson
    <3>3. \A h \in Hosts : tmp'[h]["json"] = IF h = host THEN Json(host) ELSE tmp[h]["json"]
          BY <3>1, <3>2 DEF TypeInvariant, TypeOK, DirType, Files
    <3>4. QED BY <1>0, <1>10, <2>2, <3>1, <3>3 DEF WriteJson, JsonWritten
  <2>3. QED BY <2>1, <2>2
<1>11. CASE SignFiles
       BY <1>0, <1>11, SignKeeps DEF SignFiles, Passing
<1>12. ASSUME NEW fs \in {{}, {"pkg"}, {"json"}}, SignFails(fs) PROVE Passing
       BY <1>0, <1>12, SignKeeps DEF SignFails, Passing
<1>13. ASSUME NEW h \in Hosts, NEW f \in Files, DeployFile(h, f) PROVE Passing
  <2>1. nginx \in [Hosts -> DirType] /\ offered \in [Hosts -> Version]
        BY DEF TypeInvariant, TypeOK
  <2>2. /\ pc = "deploy" /\ tmp[h][f] # Missing
        /\ nginx' = [nginx EXCEPT ![h][f] = tmp[h][f]]
        BY <1>13 DEF DeployFile, OriginInvariant
  <2>3. \A g \in Hosts, e \in Files :
            nginx'[g][e] = IF g = h /\ e = f THEN tmp[h][f] ELSE nginx[g][e]
        BY <2>1, <2>2 DEF DirType
  <2>4. \A g \in Hosts : nginx'[g]["json"] \in {nginx[g]["json"], tmp[g]["json"]}
        BY <2>3 DEF Files
  <2>5. \A e \in Files : nginx'[h][e] # Missing /\ RunOf(e, nginx'[h][e]) = run
                             => nginx'[h][e] = tmp[h][e]
        BY <2>3 DEF OriginInvariant
  <2>6. RunOf(f, nginx'[h][f]) = run
        BY <2>2, <2>3 DEF OriginInvariant
  <2>7. Complete(nginx'[h]) => tmp[h]["json"] # Missing /\ nginx'[h]["json"] = tmp[h]["json"]
    <3>1. SUFFICES ASSUME Complete(nginx'[h]) PROVE nginx'[h]["json"] = tmp[h]["json"]
          BY DEF Complete
    <3>2. RunOf("json", nginx'[h]["json"]) = run
          BY <2>6, <3>1 DEF Complete, RunOf, Files
    <3>3. QED BY <2>5, <3>1, <3>2 DEF Complete, Files
  <2>8. \A g \in Hosts : \/ offered'[g] = offered[g]
                         \/ tmp[g]["json"] # Missing /\ offered'[g] = tmp[g]["json"].version
        BY <1>13, <2>1, <2>7 DEF DeployFile
  <2>9. QED BY <1>0, <1>13, <2>4, <2>8 DEF DeployFile, Passing
<1>14. CASE Manager
       BY <1>14, <1>4, <1>6, <1>7, <1>9, <1>10, <1>11, <1>13 DEF Manager
<1>15. CASE Trouble
       BY <1>15, <1>5, <1>6, <1>8, <1>9a, <1>12 DEF Trouble
<1>16. QED BY <1>1, <1>2, <1>14, <1>15 DEF Next

\* Edits in the making are late or left out.
LEMMA NextDrawn ==
    TypeInvariant /\ OriginInvariant /\ MemoryInvariant /\ DrawnInvariant /\ [Next]_vars => DrawnInvariant'
<1> SUFFICES ASSUME TypeInvariant, OriginInvariant, MemoryInvariant, DrawnInvariant, [Next]_vars
             PROVE  DrawnInvariant'
    OBVIOUS
<1>1. /\ seq \in Nat /\ cur \in [Hosts -> [Confs -> Nat]] /\ pending \in [Hosts -> [Confs -> Nat]]
      /\ \A i \in batch : i.version \in Nat
      /\ \A h \in Hosts :
            /\ tmp[h]["json"] # Missing => tmp[h]["json"].version.build \in Nat
            /\ nginx[h]["json"] # Missing => nginx[h]["json"].version.build \in Nat
      BY DEF TypeInvariant, TypeOK, FilesInvariant, JsonType, Version
<1>2. ASSUME NEW h \in Hosts, NEW c \in Confs, EditConfig(h, c)
      PROVE  DrawnInvariant'
  <2>1. /\ seq' = seq + 1
        /\ pending' = [pending EXCEPT ![h][c] = seq + 1]
        /\ UNCHANGED <<cur, batch, tmp, nginx, amiss>>
        BY <1>2 DEF EditConfig
  <2>2. \A g \in Hosts, v \in Nat : Later(g, v) => Later(g, v)'
        BY <2>1 DEF Later
  <2>3. \A g \in Hosts : Later(g, seq + 1) /\ Later(g, seq + 2)
        BY <1>1 DEF DrawnInvariant, Later
  <2>4. \A g \in Hosts : Later(g, seq + 1)'
        BY <1>1, <2>1, <2>3 DEF Later
  <2>5. ASSUME NEW g \in Hosts, NEW d \in Confs
        PROVE  /\ cur'[g][d] <= seq' /\ pending'[g][d] <= seq'
               /\ pending'[g][d] # 0 => pending'[g][d] \in amiss' \/ Later(g, pending[g][d])'
    <3>1. /\ cur[g][d] <= seq /\ pending[g][d] <= seq
          /\ cur[g][d] \in Nat /\ pending[g][d] \in Nat
          BY <1>1 DEF DrawnInvariant
    <3>2. CASE g = h /\ d = c
      <4>1. pending'[g][d] = seq + 1
            BY <1>1, <2>1, <3>2
      <4>2. \A v \in Nat : v = seq + 1 => Later(g, v)'
            BY <2>2, <2>3
      <4>3. QED BY <1>1, <2>1, <3>1, <4>1, <4>2 DEF Later
    <3>3. CASE ~(g = h /\ d = c)
      <4>1. pending'[g][d] = pending[g][d]
            BY <1>1, <2>1, <3>3
      <4>2. pending[g][d] # 0 => pending[g][d] \in amiss \/ Later(g, pending[g][d])
            BY DEF DrawnInvariant
      <4>3. QED BY <1>1, <2>1, <3>1, <4>1, <4>2 DEF Later
    <3>4. QED BY <3>2, <3>3
  <2>6. QED BY <2>4, <2>5 DEF DrawnInvariant
<1>3. ASSUME NEW h \in Hosts, NEW c \in Confs, CommitConfig(h, c)
      PROVE  DrawnInvariant'
  <2>1. /\ cur' = [cur EXCEPT ![h][c] = pending[h][c]]
        /\ pending' = [pending EXCEPT ![h][c] = 0]
        /\ UNCHANGED <<seq, batch, tmp, nginx, amiss>>
        BY <1>3 DEF CommitConfig
  <2>2. \A g \in Hosts, d \in Confs :
            /\ cur'[g][d] \in {cur[g][d], pending[g][d]}
            /\ pending'[g][d] \in {0, pending[g][d]}
        BY <1>1, <2>1
  <2>3. QED BY <1>1, <2>1, <2>2 DEF DrawnInvariant, Later
<1>4. CASE NewWindow
  <2>1. /\ UNCHANGED <<seq, cur, pending, nginx>>
        /\ Uncommitted \subseteq amiss'
        /\ \A h \in Hosts : tmp'[h]["json"] = Missing
        BY <1>4 DEF NewWindow
  <2>2. \A h \in Hosts, c \in Confs : pending[h][c] # 0 => pending[h][c] \in amiss'
    <3>1. SUFFICES ASSUME NEW h \in Hosts, NEW c \in Confs, pending[h][c] # 0
                   PROVE  pending[h][c] \in Uncommitted
          BY <2>1
    <3>2. <<h, c>> \in Pairs /\ pending[<<h, c>>[1]][<<h, c>>[2]] = pending[h][c]
          BY DEF Pairs
    <3>3. QED BY <3>1, <3>2 DEF Uncommitted
  <2>3. \A i \in batch' : i.version < seq + 1
    <3>1. SUFFICES ASSUME NEW i \in batch' PROVE i.version < seq + 1
          OBVIOUS
    <3>2. PICK v : i \in Updated(v)
          BY <1>4 DEF NewWindow
    <3>3. i.host \in Hosts /\ i.conf \in Confs /\ i.version = cur[i.host][i.conf]
          BY <3>2, UpdatedItems
    <3>4. QED BY <1>1, <3>3 DEF DrawnInvariant
  <2>4. QED BY <2>1, <2>2, <2>3 DEF DrawnInvariant, Later
<1>5. CASE JsonWritten
  <2>1. /\ host \in Hosts
        /\ UNCHANGED <<seq, cur, pending, batch, amiss, nginx>>
        /\ \A h \in Hosts : tmp'[h]["json"] = IF h = host THEN Json(host) ELSE tmp[h]["json"]
        BY <1>5 DEF JsonWritten
  <2>2. PICK i \in batch : i.version = VERSIONS[host]
        BY <1>5, <2>1 DEF JsonWritten, Remembered, MemoryInvariant
  <2>3. Json(host).version.build = i.version
        BY <2>2 DEF Json
  <2>4. \A h \in Hosts, v \in Nat : Later(h, v) => Later(h, v)'
        BY <2>1, <2>2, <2>3 DEF Later
  <2>5. QED BY <1>1, <2>1, <2>4 DEF DrawnInvariant
<1>6. CASE Passing
  <2>1. \A h \in Hosts, v \in Nat : Later(h, v) => Later(h, v)'
        BY <1>6 DEF Passing, Later
  <2>2. UNCHANGED <<seq, cur, pending>> /\ amiss \subseteq amiss'
        BY <1>6 DEF Passing
  <2>3. QED BY <1>1, <2>1, <2>2 DEF DrawnInvariant
<1>7. QED BY <1>2, <1>3, <1>4, <1>5, <1>6, StepKinds

\* What is edited after the run began has a number greater than all it fetched.
LEMMA NextWindow ==
    TypeInvariant /\ OriginInvariant /\ DrawnInvariant /\ WindowInvariant /\ [Next]_vars => WindowInvariant'
<1> SUFFICES ASSUME TypeInvariant, OriginInvariant, DrawnInvariant, WindowInvariant, [Next]_vars,
                    NEW h \in Hosts, NEW c \in Confs, from' < cur'[h][c]
             PROVE  \/ cur'[h][c] \in amiss'
                    \/ \E i \in batch' : i.host = h /\ i.conf = c /\ i.version = cur'[h][c]
                    \/ \A i \in batch' : i.version < cur'[h][c]
    BY DEF WindowInvariant
<1>1. cur \in [Hosts -> [Confs -> Nat]]
      BY DEF TypeInvariant, TypeOK
<1>2. ASSUME NEW g \in Hosts, NEW d \in Confs, EditConfig(g, d)
      PROVE  UNCHANGED <<cur, from, batch, amiss>>
      BY <1>2 DEF EditConfig
<1>3. CASE UNCHANGED <<cur, from, batch>> /\ amiss \subseteq amiss'
      BY <1>3 DEF WindowInvariant
<1>4. ASSUME NEW g \in Hosts, NEW d \in Confs, CommitConfig(g, d)
      PROVE  \/ cur'[h][c] \in amiss'
             \/ \E i \in batch' : i.host = h /\ i.conf = c /\ i.version = cur'[h][c]
             \/ \A i \in batch' : i.version < cur'[h][c]
  <2>1. UNCHANGED <<from, batch, amiss>>
        BY <1>4 DEF CommitConfig
  <2>2. CASE h = g /\ c = d
    <3>1. cur'[h][c] = pending[h][c] /\ pending[h][c] # 0
          BY <1>1, <1>4, <2>2 DEF CommitConfig
    <3>2. QED BY <2>1, <3>1 DEF DrawnInvariant, Later
  <2>3. CASE ~(h = g /\ c = d)
    <3>1. cur'[h][c] = cur[h][c]
          BY <1>1, <1>4, <2>3 DEF CommitConfig
    <3>2. QED BY <2>1, <3>1 DEF WindowInvariant
  <2>4. QED BY <2>2, <2>3
<1>5. CASE NewWindow
  <2>1. PICK v \in 0 .. seq :
            /\ from' = v
            /\ \A i \in Updated(v) : i \in batch' \/ i.version \in amiss'
            /\ cur' = cur
        BY <1>5 DEF NewWindow
  <2>2. PICK i \in Updated(v) : i.host = h /\ i.conf = c /\ i.version = cur[h][c]
        BY <1>1, <2>1, UpdatedAll
  <2>3. QED BY <2>1, <2>2
<1>6. CASE JsonWritten
      BY <1>3, <1>6 DEF JsonWritten
<1>7. CASE Passing
      BY <1>3, <1>7 DEF Passing
<1>8. QED BY <1>2, <1>3, <1>4, <1>5, <1>6, <1>7, StepKinds

\* The version.json of a host covers the window of the run that writes it.
LEMMA JsonCovers ==
    ASSUME TypeInvariant, MemoryInvariant, BatchInvariant, WindowInvariant,
           pc = "json", host \in Hosts, Remembered(host)
    PROVE  Covers(host, Json(host))
<1>1. tmp[host]["pkg"] = Package(host)
      BY DEF TypeInvariant, FilesInvariant
<1>2. /\ Json(host).checksum = Package(host) /\ Json(host).version.build = VERSIONS[host]
      BY <1>1 DEF Json
<1>3. SUFFICES ASSUME NEW c \in Confs, from < cur[host][c], cur[host][c] <= VERSIONS[host],
                      cur[host][c] \notin amiss
               PROVE  <<c, cur[host][c]>> \in Package(host).holds
      BY <1>2 DEF Covers, Package
<1>4. cur[host][c] \in Nat /\ VERSIONS[host] \in Nat /\ \A i \in batch : i.version \in Nat
      BY DEF TypeInvariant, TypeOK
<1>5. PICK k \in batch : k.version = VERSIONS[host]
      BY DEF MemoryInvariant, Remembered
<1>6. PICK i \in batch : i.host = host /\ i.conf = c /\ i.version = cur[host][c]
      BY <1>3, <1>4, <1>5 DEF WindowInvariant
<1>7. confs[host][c] = "whole"
      BY <1>3, <1>6 DEF BatchInvariant
<1>8. i \in {j \in batch : j.host = host /\ confs[host][j.conf] = "whole"}
      BY <1>6, <1>7
<1>9. QED BY <1>6, <1>8 DEF Package

\* What covers its window goes on to do so: an edit that is committed afterwards
\* has a greater number or was left out.
LEMMA NextCover ==
    /\ TypeInvariant /\ OriginInvariant /\ MemoryInvariant /\ BatchInvariant /\ DrawnInvariant
    /\ WindowInvariant /\ CoverInvariant /\ [Next]_vars
    => CoverInvariant'
<1> SUFFICES ASSUME TypeInvariant, OriginInvariant, MemoryInvariant, BatchInvariant, DrawnInvariant,
                    WindowInvariant, CoverInvariant, [Next]_vars, NEW h \in Hosts
             PROVE  /\ tmp'[h]["json"] # Missing => Covers(h, tmp[h]["json"])'
                    /\ nginx'[h]["json"] # Missing => Covers(h, nginx[h]["json"])'
    BY DEF CoverInvariant
<1> DEFINE Releases == {tmp[h]["json"], nginx[h]["json"]} \ {Missing}
           CoversNow(j) ==
               \A c \in Confs :
                   j.checksum.from < cur'[h][c] /\ cur'[h][c] <= j.version.build
                   => <<c, cur'[h][c]>> \in j.checksum.holds \/ cur'[h][c] \in amiss'
<1> HIDE DEF Releases
<1>1. \A j \in Releases : Covers(h, j)
      BY DEF Releases, CoverInvariant
<1>2. SUFFICES /\ \A j : j = tmp'[h]["json"] /\ j # Missing => CoversNow(j)
               /\ \A j : j = nginx'[h]["json"] /\ j # Missing => CoversNow(j)
      BY DEF Covers
<1>3. ASSUME UNCHANGED cur, amiss \subseteq amiss', NEW j, Covers(h, j) PROVE CoversNow(j)
      BY <1>3 DEF Covers
<1>4. ASSUME NEW g \in Hosts, NEW d \in Confs, EditConfig(g, d)
      PROVE  UNCHANGED <<cur, amiss, tmp, nginx>>
      BY <1>4 DEF EditConfig
<1>5. ASSUME NEW g \in Hosts, NEW d \in Confs, CommitConfig(g, d), NEW j \in Releases
      PROVE  CoversNow(j)
  <2>1. /\ cur \in [Hosts -> [Confs -> Nat]] /\ pending[g][d] \in Nat
        /\ j.version.build \in Nat
        BY DEF Releases, TypeInvariant, TypeOK, FilesInvariant, JsonType, Version
  <2>2. \A c \in Confs :
            cur'[h][c] = IF h = g /\ c = d THEN pending[g][d] ELSE cur[h][c]
        BY <1>5, <2>1 DEF CommitConfig
  <2>3. amiss' = amiss /\ pending[g][d] # 0
        BY <1>5 DEF CommitConfig
  <2>4. h = g => pending[g][d] \in amiss \/ j.version.build < pending[g][d]
        BY <2>3 DEF DrawnInvariant, Later, Releases
  <2>5. Covers(h, j)
        BY <1>1
  <2>6. QED BY <2>1, <2>2, <2>3, <2>4, <2>5 DEF Covers
<1>6. CASE UNCHANGED cur /\ amiss \subseteq amiss'
           /\ tmp'[h]["json"] \in Releases \cup {Missing}
           /\ nginx'[h]["json"] \in Releases \cup {Missing}
      BY <1>1, <1>3, <1>6
<1>7. ASSUME NEW g \in Hosts, NEW d \in Confs, EditConfig(g, d) \/ CommitConfig(g, d)
      PROVE  /\ \A j : j = tmp'[h]["json"] /\ j # Missing => CoversNow(j)
             /\ \A j : j = nginx'[h]["json"] /\ j # Missing => CoversNow(j)
  <2>1. CASE EditConfig(g, d)
        BY <1>4, <1>6, <2>1 DEF Releases
  <2>2. CASE CommitConfig(g, d)
    <3>1. UNCHANGED <<tmp, nginx>>
          BY <2>2 DEF CommitConfig
    <3>2. QED BY <1>5, <2>2, <3>1 DEF Releases
  <2>3. QED BY <1>7, <2>1, <2>2
<1>8. CASE NewWindow
      BY <1>6, <1>8 DEF NewWindow, Releases
<1>9. CASE JsonWritten
  <2>1. /\ UNCHANGED <<cur, amiss, nginx>>
        /\ tmp'[h]["json"] = IF h = host THEN Json(host) ELSE tmp[h]["json"]
        BY <1>9 DEF JsonWritten
  <2>2. h = host => Covers(h, Json(host))
        BY <1>9, JsonCovers DEF JsonWritten
  <2>3. \A j : j = nginx'[h]["json"] /\ j # Missing => CoversNow(j)
        BY <1>1, <1>3, <2>1 DEF Releases
  <2>4. \A j : j = tmp'[h]["json"] /\ j # Missing => CoversNow(j)
        BY <1>1, <1>3, <2>1, <2>2 DEF Releases
  <2>5. QED BY <2>3, <2>4
<1>10. CASE Passing
       BY <1>6, <1>10 DEF Passing, Releases
<1>11. QED BY <1>7, <1>8, <1>9, <1>10, StepKinds

-----------------------------------------------------------------------------
\* An item that is done with is remembered, or left out.
LEMMA NextRemembered ==
    ASSUME TypeInvariant, SeenInvariant, [Next]_vars, pc' # "idle", NEW i \in batch'
    PROVE  \/ i \in items'
           \/ i.version \in amiss'
           \/ i.version <= VERSIONS'[i.host] /\ PLATFORMS'[i.host] # Missing
<1> DEFINE Goal == \/ i \in items'
                   \/ i.version \in amiss'
                   \/ i.version <= VERSIONS'[i.host] /\ PLATFORMS'[i.host] # Missing
<1> SUFFICES Goal
    OBVIOUS
<1> HIDE DEF Goal
<1>1. ASSUME UNCHANGED <<batch, items, memVars>>, amiss \subseteq amiss', pc # "idle"
      PROVE  Goal
      BY <1>1 DEF Goal, SeenInvariant
<1>2. CASE UNCHANGED vars
      BY <1>1, <1>2 DEF vars
<1>3. CASE Databases
      BY <1>1, <1>3 DEF Databases, EditConfig, CommitConfig, ChangePlatform, BumpVersion
<1>4. CASE Fetch \/ (\E h \in Hosts : FetchGarbage(h))
      BY <1>4 DEF Fetch, FetchGarbage, BeginRun, Goal
<1>5. ASSUME NEW j \in items, pc = "items", UNCHANGED batch, items' = items \ {j},
             \/ Remember(j) /\ amiss \subseteq amiss'
             \/ RememberVersion(j) /\ amiss' = amiss \cup {j.version}
             \/ UNCHANGED memVars /\ amiss' = amiss \cup {j.version}
      PROVE  Goal
  <2>1. /\ VERSIONS \in [Hosts -> Nat] /\ j \in batch /\ j.host \in Hosts
        /\ i \in batch /\ i.host \in Hosts /\ i.version \in Nat /\ j.version \in Nat
        BY <1>5 DEF TypeInvariant, TypeOK
  <2>2. \/ i \in items
        \/ i.version \in amiss
        \/ i.version <= VERSIONS[i.host] /\ PLATFORMS[i.host] # Missing
        BY <1>5, <2>1 DEF SeenInvariant
  <2>3. CASE Remember(j) /\ amiss \subseteq amiss'
    <3>1. VERSIONS'[j.host] \in Nat /\ j.version <= VERSIONS'[j.host]
          BY <2>1, <2>3 DEF Remember
    <3>2. VERSIONS[i.host] <= VERSIONS'[i.host] /\ VERSIONS'[i.host] \in Nat
          BY <2>1, <2>3 DEF Remember
    <3>3. /\ PLATFORMS'[j.host] # Missing
          /\ PLATFORMS[i.host] # Missing => PLATFORMS'[i.host] # Missing
      <4>1. PLATFORMS \in [Hosts -> Platforms \cup {Missing}] /\ j.platform # Missing
            BY <2>1, PlatformsAssumption DEF TypeInvariant, TypeOK
      <4>2. QED BY <2>1, <2>3, <4>1 DEF Remember
    <3>4. QED BY <1>5, <2>1, <2>2, <2>3, <3>1, <3>2, <3>3 DEF Goal
  <2>4. CASE RememberVersion(j) /\ amiss' = amiss \cup {j.version}
    <3>1. VERSIONS[i.host] <= VERSIONS'[i.host] /\ VERSIONS'[i.host] \in Nat
          BY <2>1, <2>4 DEF RememberVersion
    <3>2. PLATFORMS' = PLATFORMS
          BY <2>4 DEF RememberVersion
    <3>3. QED BY <1>5, <2>1, <2>2, <2>4, <3>1, <3>2 DEF Goal
  <2>5. CASE UNCHANGED memVars /\ amiss' = amiss \cup {j.version}
        BY <1>5, <2>1, <2>2, <2>5 DEF Goal
  <2>6. QED BY <1>5, <2>3, <2>4, <2>5
<1>6. ASSUME NEW j \in items, ProcessItem(j) PROVE Goal
      BY <1>5, <1>6 DEF ProcessItem
<1>7. ASSUME NEW j \in items, NEW how \in Failures, ItemFails(j, how) PROVE Goal
      BY <1>5, <1>7 DEF ItemFails
<1>8. CASE StartPackaging \/ ReadMinor \/ ReadFails \/ WriteJson \/ SignFiles \/ StartDeploying
      BY <1>1, <1>8 DEF StartPackaging, ReadMinor, ReadFails, WriteJson, SignFiles,
                        StartDeploying
<1>9. CASE \E h \in Hosts : \/ PackHost(h) \/ PackFails(h)
                           \/ \E f \in Files : DeployFile(h, f)
      BY <1>1, <1>9 DEF PackHost, PackFails, DeployFile
<1>10. CASE \E fs \in {{}, {"pkg"}, {"json"}} : SignFails(fs)
       BY <1>1, <1>10 DEF SignFails
<1>11. CASE FinishRun \/ Crash
       BY <1>11 DEF FinishRun, Crash
<1>12. CASE Manager
       BY <1>12, <1>4, <1>6, <1>8, <1>9, <1>11 DEF Manager
<1>13. CASE Trouble
       BY <1>13, <1>4, <1>7, <1>8, <1>9, <1>10, <1>11 DEF Trouble
<1>14. QED BY <1>2, <1>3, <1>12, <1>13 DEF Next

\* A version.json is numbered by the last of what its run has seen of the host.
LEMMA NextSeen ==
    /\ TypeInvariant /\ OriginInvariant /\ MemoryInvariant /\ BatchInvariant /\ DrawnInvariant
    /\ SeenInvariant /\ [Next]_vars
    => SeenInvariant'
<1> SUFFICES ASSUME TypeInvariant, OriginInvariant, MemoryInvariant, BatchInvariant, DrawnInvariant,
                    SeenInvariant, [Next]_vars
             PROVE  SeenInvariant'
    OBVIOUS
<1> DEFINE Rising == \A h \in Hosts, c \in Confs :
                        pending[h][c] # 0 => cur[h][c] < pending[h][c]
           Current == \A i \in batch : i.version <= cur[i.host][i.conf]
           Numbers(h, build) ==
               /\ \E i \in batch : i.host = h /\ i.version = build
               /\ \A i \in batch : i.host = h => i.version \in amiss \/ i.version <= build
           Numbered == \A h \in Hosts :
               tmp[h]["json"] # Missing => Numbers(h, tmp[h]["json"].version.build)
<1> SUFFICES Rising' /\ Current' /\ Numbered'
    BY NextRemembered DEF SeenInvariant
<1>1. /\ seq \in Nat /\ cur \in [Hosts -> [Confs -> Nat]] /\ pending \in [Hosts -> [Confs -> Nat]]
      /\ \A i \in batch : i.host \in Hosts /\ i.conf \in Confs /\ i.version \in Nat
      /\ \A h \in Hosts, c \in Confs : cur[h][c] <= seq
      BY DEF TypeInvariant, TypeOK, DrawnInvariant
<1>2. Rising /\ Current /\ Numbered
      BY DEF SeenInvariant
<1>3. ASSUME NEW h \in Hosts, NEW c \in Confs, EditConfig(h, c)
      PROVE  Rising' /\ Current' /\ Numbered'
  <2>1. /\ UNCHANGED <<cur, batch, tmp, amiss>>
        /\ pending' = [pending EXCEPT ![h][c] = seq + 1]
        BY <1>3 DEF EditConfig
  <2>2. \A g \in Hosts, d \in Confs :
            pending'[g][d] = IF g = h /\ d = c THEN seq + 1 ELSE pending[g][d]
        BY <1>1, <2>1
  <2>3. Rising'
        BY <1>1, <1>2, <2>1, <2>2
  <2>4. QED BY <1>2, <2>1, <2>3
<1>4. ASSUME NEW h \in Hosts, NEW c \in Confs, CommitConfig(h, c)
      PROVE  Rising' /\ Current' /\ Numbered'
  <2>1. /\ UNCHANGED <<batch, tmp, amiss>> /\ pending[h][c] # 0
        /\ cur' = [cur EXCEPT ![h][c] = pending[h][c]]
        /\ pending' = [pending EXCEPT ![h][c] = 0]
        BY <1>4 DEF CommitConfig
  <2>2. \A g \in Hosts, d \in Confs :
            /\ cur'[g][d] = IF g = h /\ d = c THEN pending[h][c] ELSE cur[g][d]
            /\ pending'[g][d] = IF g = h /\ d = c THEN 0 ELSE pending[g][d]
        BY <1>1, <2>1
  <2>3. \A g \in Hosts, d \in Confs : cur[g][d] <= cur'[g][d] /\ cur'[g][d] \in Nat
        BY <1>1, <1>2, <2>1, <2>2
  <2>4. Rising'
        BY <1>2, <2>2
  <2>5. Current'
        BY <1>1, <1>2, <2>1, <2>3
  <2>6. QED BY <1>2, <2>1, <2>4, <2>5
<1>5. CASE NewWindow
  <2>1. PICK v \in 0 .. seq :
            /\ batch' \subseteq Updated(v) /\ UNCHANGED <<cur, pending>>
            /\ \A h \in Hosts : tmp'[h]["json"] = Missing
        BY <1>5 DEF NewWindow
  <2>2. Current'
    <3>1. SUFFICES ASSUME NEW i \in batch' PROVE i.version <= cur[i.host][i.conf]
          BY <2>1
    <3>2. i.host \in Hosts /\ i.conf \in Confs /\ i.version = cur[i.host][i.conf]
          BY <2>1, UpdatedItems
    <3>3. QED BY <1>1, <3>2
  <2>3. Rising'
        BY <1>2, <2>1
  <2>4. QED BY <2>1, <2>2, <2>3
<1>6. CASE JsonWritten
  <2>1. /\ pc = "json" /\ host \in Hosts
        /\ UNCHANGED <<cur, pending, batch, amiss>>
        /\ \A h \in Hosts : tmp'[h]["json"] = IF h = host THEN Json(host) ELSE tmp[h]["json"]
        BY <1>6 DEF JsonWritten
  <2>2. Json(host).version.build = VERSIONS[host]
        BY DEF Json
  <2>3. \E i \in batch : i.host = host /\ i.version = VERSIONS[host]
        BY <1>6 DEF JsonWritten, Remembered, MemoryInvariant
  <2>4. \A i \in batch : i.host = host => i.version \in amiss \/ i.version <= VERSIONS[host]
        BY <2>1 DEF BatchInvariant, SeenInvariant
  <2>5. Numbers(host, VERSIONS[host])
        BY <2>3, <2>4
  <2>6. Numbered'
    <3>1. SUFFICES ASSUME NEW h \in Hosts, tmp'[h]["json"] # Missing
                   PROVE  Numbers(h, tmp'[h]["json"].version.build)
          BY <2>1
    <3>2. CASE h = host
          BY <2>1, <2>2, <2>5, <3>2
    <3>3. CASE h # host
          BY <1>2, <2>1, <3>1, <3>3
    <3>4. QED BY <3>2, <3>3
  <2>7. Rising' /\ Current'
        BY <1>2, <2>1
  <2>8. QED BY <2>6, <2>7
<1>7. CASE Passing
  <2>1. /\ UNCHANGED <<cur, pending, batch>> /\ amiss \subseteq amiss'
        /\ \A h \in Hosts : tmp'[h]["json"] = tmp[h]["json"]
        BY <1>7 DEF Passing
  <2>2. Rising' /\ Current'
        BY <1>2, <2>1
  <2>3. Numbered'
        BY <1>2, <2>1
  <2>4. QED BY <2>2, <2>3
<1>8. QED BY <1>3, <1>4, <1>5, <1>6, <1>7, StepKinds

\* What a host is offered is behind what it will be offered.
LEMMA NextOffered ==
    /\ TypeInvariant /\ MemoryInvariant /\ OriginInvariant /\ DrawnInvariant
    /\ SeenInvariant /\ OfferedInvariant /\ [Next]_vars
    => OfferedInvariant'
<1> SUFFICES ASSUME TypeInvariant, MemoryInvariant, OriginInvariant, DrawnInvariant,
                    SeenInvariant, OfferedInvariant, [Next]_vars, NEW h \in Hosts
             PROVE  /\ offered'[h].major = 1
                    /\ offered'[h].build # 0 =>
                          \E c \in Confs : offered'[h].build <= cur'[h][c]
                    /\ (\E i \in batch' : i.host = h) =>
                          \E i \in batch' : i.host = h /\ offered'[h].build <= i.version
                    /\ h \notin torn' => NotAfter(offered'[h], cmdb')
                    /\ tmp'[h]["json"] # Missing =>
                          /\ tmp'[h]["json"].version.major = 1
                          /\ h \notin torn' => /\ NotAfter(offered'[h], tmp'[h]["json"].version)
                                               /\ NotAfter(tmp'[h]["json"].version, cmdb')
    BY DEF OfferedInvariant
<1> DEFINE build == offered[h].build
           json == tmp[h]["json"]
           Behind(b) == b # 0 => \E c \in Confs : b <= cur'[h][c]
           Reached(b) == (\E i \in batch' : i.host = h) =>
                            \E i \in batch' : i.host = h /\ b <= i.version
<1>1. /\ seq \in Nat /\ cur \in [Hosts -> [Confs -> Nat]] /\ pending \in [Hosts -> [Confs -> Nat]]
      /\ cmdb \in [minor : Nat, patch : Nat]
      /\ \A i \in batch : i.host \in Hosts /\ i.conf \in Confs /\ i.version \in Nat
      /\ offered[h] \in Version /\ build \in Nat
      /\ json # Missing => json.version \in Version /\ json.version.build \in Nat
      BY DEF TypeInvariant, TypeOK, FilesInvariant, JsonType, Version
<1>2. /\ offered[h].major = 1
      /\ build # 0 => \E c \in Confs : build <= cur[h][c]
      /\ (\E i \in batch : i.host = h) => \E i \in batch : i.host = h /\ build <= i.version
      /\ h \notin torn => NotAfter(offered[h], cmdb)
      /\ json # Missing =>
            /\ json.version.major = 1
            /\ h \notin torn => NotAfter(offered[h], json.version) /\ NotAfter(json.version, cmdb)
      BY DEF OfferedInvariant
<1>3. ASSUME NEW g \in Hosts, NEW c \in Confs, EditConfig(g, c) \/ CommitConfig(g, c)
      PROVE  /\ UNCHANGED <<batch, tmp, torn, cmdb, offered>>
             /\ \A d \in Confs : cur[h][d] <= cur'[h][d] /\ cur'[h][d] \in Nat
  <2>1. CASE EditConfig(g, c)
        BY <1>1, <2>1 DEF EditConfig
  <2>2. CASE CommitConfig(g, c)
        BY <1>1, <2>2 DEF CommitConfig, SeenInvariant
  <2>3. QED BY <1>3, <2>1, <2>2
<1>4. CASE \E g \in Hosts, c \in Confs : EditConfig(g, c) \/ CommitConfig(g, c)
  <2>1. /\ UNCHANGED <<batch, tmp, torn, cmdb, offered>>
        /\ \A d \in Confs : cur[h][d] <= cur'[h][d] /\ cur'[h][d] \in Nat
        BY <1>3, <1>4
  <2>2. Behind(build)
        BY <1>1, <1>2, <2>1
  <2>3. QED BY <1>2, <2>1, <2>2
<1>5. CASE NewWindow
  <2>1. PICK v \in 0 .. seq :
            /\ batch' \subseteq Updated(v)
            /\ \A i, j \in Updated(v) : i.host = j.host /\ i \in batch' => j \in batch'
            /\ tmp'[h]["json"] = Missing
            /\ UNCHANGED <<cur, torn, cmdb, offered>>
        BY <1>5 DEF NewWindow
  <2>2. Reached(build)
    <3>1. SUFFICES ASSUME NEW i \in batch', i.host = h
                   PROVE  \E j \in batch' : j.host = h /\ build <= j.version
          OBVIOUS
    <3>2. i.version > v /\ i.version \in Nat /\ v \in Nat
          BY <1>1, <2>1, UpdatedItems
    <3>3. CASE build <= v
          BY <1>1, <3>1, <3>2, <3>3
    <3>4. CASE build > v
      <4>1. PICK c \in Confs : build <= cur[h][c]
            BY <1>1, <1>2, <3>2, <3>4
      <4>2. cur[h][c] > v
            BY <1>1, <3>2, <3>4, <4>1
      <4>3. PICK j \in Updated(v) : j.host = h /\ j.version = cur[h][c]
            BY <4>2, UpdatedAll
      <4>4. QED BY <2>1, <3>1, <4>1, <4>3
    <3>5. QED BY <1>1, <3>2, <3>3, <3>4
  <2>3. QED BY <1>2, <2>1, <2>2
<1>6. CASE JsonWritten
  <2>1. /\ UNCHANGED <<cur, batch, cmdb, offered>>
        /\ tmp'[h]["json"] = IF h = host THEN Json(host) ELSE json
        /\ torn' = IF minor = cmdb.minor THEN torn ELSE torn \cup {host}
        BY <1>6 DEF JsonWritten
  <2>2. CASE h = host
    <3>1. /\ tmp'[h]["json"].version.major = 1
          /\ tmp'[h]["json"].version.minor = minor
          /\ tmp'[h]["json"].version.patch = cmdb.patch
          BY <2>1, <2>2 DEF Json
    <3>2. h \notin torn' => minor = cmdb.minor /\ h \notin torn
          BY <2>1, <2>2
    <3>3. h \notin torn' => /\ NotAfter(offered[h], tmp'[h]["json"].version)
                           /\ NotAfter(tmp'[h]["json"].version, cmdb)
          BY <1>1, <1>2, <3>1, <3>2 DEF NotAfter
    <3>4. QED BY <1>2, <2>1, <3>1, <3>2, <3>3
  <2>3. CASE h # host
    <3>1. tmp'[h]["json"] = json /\ (h \notin torn' => h \notin torn)
          BY <2>1, <2>3
    <3>2. QED BY <1>2, <2>1, <3>1
  <2>4. QED BY <2>2, <2>3
<1>7. CASE Passing
  <2>1. /\ UNCHANGED <<cur, batch, torn>> /\ NotAfter(cmdb, cmdb')
        /\ tmp'[h]["json"] = json
        /\ offered'[h] = offered[h] \/ (json # Missing /\ offered'[h] = json.version)
    <3>1. /\ UNCHANGED <<cur, batch, torn>>
          /\ tmp'[h]["json"] = json
          /\ offered'[h] = offered[h] \/ (json # Missing /\ offered'[h] = json.version)
          BY <1>7 DEF Passing
    <3>2. NotAfter(cmdb, cmdb')
          BY <1>7, Zenon DEF Passing
    <3>3. QED BY <3>1, <3>2
  <2>2. cmdb' \in [minor : Nat, patch : Nat]
        BY NextTypes DEF TypeInvariant, TypeOK
  <2>3. \A v \in Version : NotAfter(v, v) /\ (NotAfter(v, cmdb) => NotAfter(v, cmdb'))
        BY <1>1, <2>1, <2>2 DEF NotAfter, Version
  <2>4. CASE offered'[h] = offered[h]
        BY <1>1, <1>2, <2>1, <2>3, <2>4
  <2>5. CASE json # Missing /\ offered'[h] = json.version
    <3>1. PICK i \in batch : i.host = h /\ i.version = json.version.build
          BY <2>5 DEF SeenInvariant
    <3>2. i.version <= cur[h][i.conf] /\ i.conf \in Confs
          BY <1>1, <3>1 DEF SeenInvariant
    <3>3. /\ \E c \in Confs : offered'[h].build <= cur'[h][c]
          /\ \E j \in batch' : j.host = h /\ offered'[h].build <= j.version
          BY <1>1, <2>1, <2>5, <3>1, <3>2
    <3>4. QED BY <1>1, <1>2, <2>1, <2>3, <2>5, <3>3
  <2>6. QED BY <2>1, <2>4, <2>5
<1>8. QED BY <1>4, <1>5, <1>6, <1>7, StepKinds

-----------------------------------------------------------------------------
\* The inductive invariant.
ManagerInvariant ==
    /\ TypeInvariant /\ MemoryInvariant /\ BatchInvariant
    /\ DrawnInvariant /\ WindowInvariant /\ CoverInvariant
    /\ OriginInvariant /\ SeenInvariant /\ OfferedInvariant

LEMMA InitManager == Init => ManagerInvariant
<1> SUFFICES ASSUME Init PROVE ManagerInvariant
    OBVIOUS
<1>1. MemoryInvariant
      BY DEF Init, MemoryInvariant, NoFiles, Files
<1>2. BatchInvariant /\ WindowInvariant
      BY DEF Init, BatchInvariant, WindowInvariant
<1>3. DrawnInvariant
      BY DEF Init, DrawnInvariant, Later, NoFiles, Files
<1>4. CoverInvariant
      BY DEF Init, CoverInvariant, NoFiles, Files
<1>5. OriginInvariant /\ SeenInvariant
      BY DEF Init, OriginInvariant, SeenInvariant, NoFiles, Files
<1>6. OfferedInvariant
      BY DEF Init, OfferedInvariant, NoFiles, Files, FirstVersion, NotAfter
<1>7. QED BY <1>1, <1>2, <1>3, <1>4, <1>5, <1>6, InitTypes DEF ManagerInvariant

LEMMA ManagerInductive == ManagerInvariant /\ [Next]_vars => ManagerInvariant'
BY NextTypes, NextMemory, NextBatch, NextDrawn, NextWindow, NextCover,
   NextOrigin, NextSeen, NextOffered
DEF ManagerInvariant

LEMMA ManagerInvariance == Spec => []ManagerInvariant
BY InitManager, ManagerInductive, PTL DEF Spec

\* The state of databases, manager and web server has its type in every
\* reachable state.
THEOREM ManagerTypeCorrect == Spec => []TypeOK
<1>1. ManagerInvariant => TypeOK
      BY DEF ManagerInvariant, TypeInvariant
<1>2. QED BY <1>1, ManagerInvariance, PTL

\* A release that is deployed is for a platform that its host had when the run
\* fetched its edits, whatever was remembered before.
THEOREM PlatformFetched == Spec => []PlatformOfRun
<1>1. ManagerInvariant => PlatformOfRun
      BY DEF ManagerInvariant, MemoryInvariant, PlatformOfRun
<1>2. QED BY <1>1, ManagerInvariance, PTL

\* A complete release has the edits of its run's window up to its version, but
\* those left out by an error or a late commit.
THEOREM VersionCovers == Spec => []VersionCoversRun
<1>1. ManagerInvariant => VersionCoversRun
      BY DEF ManagerInvariant, CoverInvariant, Covers, VersionCoversRun, Complete
<1>2. QED BY <1>1, ManagerInvariance, PTL

\* The version offered to a host goes up with every release, unless the run left
\* an item of the host out or its version was read while it was bumped.
THEOREM OfferedGoesUp == Spec => OfferedVersionGoesUp
<1>1. ASSUME ManagerInvariant, [Next]_vars, NEW h \in Hosts,
             offered'[h] # offered[h], Clean(h)'
      PROVE  Lt(offered[h], offered'[h])
  <2> USE <1>1 DEF ManagerInvariant
  <2> DEFINE version == tmp[h]["json"].version
  <2>1. Passing
        BY <1>1, StepKinds DEF EditConfig, CommitConfig, NewWindow, JsonWritten
  <2>2. /\ UNCHANGED <<batch, torn>> /\ amiss \subseteq amiss'
        /\ tmp[h]["json"] # Missing /\ offered'[h] = version
        BY <1>1, <2>1 DEF Passing
  <2>3. h \notin torn /\ \A i \in batch : i.host = h => i.version \notin amiss
        BY <1>1, <2>2 DEF Clean
  <2>4. offered[h] \in Version /\ version \in Version /\ \A i \in batch : i.version \in Nat
        BY <2>2 DEF TypeInvariant, TypeOK, FilesInvariant, JsonType
  <2>5. \E i \in batch : i.host = h
        BY <2>2 DEF SeenInvariant
  <2>6. PICK i \in batch : i.host = h /\ offered[h].build <= i.version
        BY <2>5 DEF OfferedInvariant
  <2>7. i.version <= version.build
        BY <2>2, <2>3, <2>6 DEF SeenInvariant
  <2>8. offered[h].build <= version.build
        BY <2>4, <2>6, <2>7 DEF Version
  <2>9. offered[h].major = 1 /\ version.major = 1 /\ NotAfter(offered[h], version)
        BY <2>2, <2>3 DEF OfferedInvariant
  <2>10. offered[h] # version
        BY <1>1, <2>2
  <2>11. QED BY <2>2, <2>4, <2>8, <2>9, <2>10 DEF Lt, Cmp, NotAfter, Version
<1>2. ManagerInvariant /\ [Next]_vars =>
        [\A h \in Hosts : offered'[h] # offered[h] /\ Clean(h)'
            => Lt(offered[h], offered'[h])]_vars
      BY <1>1
<1>3. QED BY <1>2, ManagerInvariance, PTL DEF Spec, OfferedVersionGoesUp

-----------------------------------------------------------------------------
(* What is offered for the first time.  The parts of the inductive         *)
(* invariant, in addition to ManagerInvariant.                             *)

\* A number is drawn once, for one configuration of one host.
UniqueInvariant ==
    /\ \A n \in asked : n \in Nat /\ n <= seq
    /\ from <= seq
    /\ \A i \in batch : i.version > 0
    /\ \A h \in Hosts, c \in Confs :
        /\ \A i \in batch : i.version = cur[h][c] => i.host = h /\ i.conf = c
        /\ cur[h][c] # 0 => \A g \in Hosts, d \in Confs :
              cur[g][d] = cur[h][c] => g = h /\ d = c
        /\ pending[h][c] # 0 =>
              /\ pending[h][c] \notin asked
              /\ \A i \in batch : i.version # pending[h][c]
              /\ \A g \in Hosts, d \in Confs :
                    /\ cur[g][d] # pending[h][c]
                    /\ pending[g][d] = pending[h][c] => g = h /\ d = c

\* The run has an item of host h that it has not left out.
Due(h) == \E i \in batch : i.host = h /\ i.version \notin amiss

\* Every host that is due is packaged and signed before anything is deployed.
PackedInvariant ==
    /\ pc = "items" => \A h \in Hosts : tmp[h]["json"] = Missing
    /\ \A h \in Hosts : tmp[h]["json"] # Missing => tmp[h]["json"].checksum = Package(h)
    /\ pc = "sign" =>
          tmp[host]["pkg"] = Package(host) /\ tmp[host]["json"] # Missing
    /\ pc = "deploy" => left = {}
    /\ pc \notin {"idle", "items"} => \A h \in Hosts : Due(h) =>
          \/ h \in left
          \/ pc \in {"minor", "json", "sign"} /\ h = host
          \/ Complete(tmp[h])

\* The files that were made of a complete release are served, but those that
\* are still to be copied.
Copied(h) ==
    /\ \A f \in Files : <<h, f>> \in copies \/ nginx[h][f] = tmp[h][f]
    /\ (\E f \in Files : <<h, f>> \in copies) \/ tmp[h]["pkg"].holds \subseteq served[h]

\* What has been asked for, or lies behind what was offered, has been served or
\* left out; so has been asked for what a window passes by.
ServedInvariant ==
    /\ served \in [Hosts -> SUBSET (Confs \X Nat)]
    /\ pc = "deploy" => \A h \in Hosts : Complete(tmp[h]) => Copied(h)
    /\ \A h \in Hosts, c \in Confs :
          /\ cur[h][c] \in 1 .. from => cur[h][c] \in asked \cup amiss
          /\ pending[h][c] # 0 =>
                \/ pending[h][c] \in amiss
                \/ offered[h].build < pending[h][c] /\ from < pending[h][c]
          /\ cur[h][c] # 0 /\ (cur[h][c] \in asked \/ cur[h][c] <= offered[h].build) =>
                cur[h][c] \in amiss \/ <<c, cur[h][c]>> \in served[h]
    /\ \A i \in batch :
          i.version \in asked \/ i.version <= offered[i.host].build =>
                i.version \in amiss \/ <<i.conf, i.version>> \in served[i.host]

-----------------------------------------------------------------------------
(* What the steps do to what has been asked for and served.                *)

\* A run begins.
Begun ==
    \E v \in 0 .. seq :
        /\ from' = v /\ pc' = "items"
        /\ batch' \subseteq Updated(v)
        /\ Reaches(v)
        /\ Uncommitted \subseteq amiss' /\ amiss \subseteq amiss' /\ asked \subseteq asked'
        /\ \A n \in asked' \ asked : n \in amiss' /\ \E i \in Updated(v) : i.version = n
        /\ \A h \in Hosts : tmp'[h]["json"] = Missing
        /\ UNCHANGED <<seq, cur, pending, offered, served>>

\* Nothing is asked for or served.
Quiet ==
    /\ UNCHANGED <<seq, cur, pending, batch, from, asked, offered, served>>
    /\ amiss \subseteq amiss'
    /\ pc' = "deploy" =>
          StartDeploying \/ (pc = "deploy" /\ UNCHANGED <<tmp, nginx, copies>>)

\* A run begins with a window.
LEMMA RunBegins == Fetch \/ (\E h \in Hosts : FetchGarbage(h)) => Begun
<1>1. ASSUME NEW v \in 0 .. seq, NEW answer \in SUBSET Updated(v), BeginRun(v, answer)
      PROVE  /\ from' = v /\ pc' = "items" /\ batch' \subseteq Updated(v)
             /\ \A h \in Hosts : tmp'[h]["json"] = Missing
             /\ UNCHANGED <<seq, cur, pending, offered, served>>
      BY <1>1 DEF BeginRun, NoFiles, Files
<1>2. CASE Fetch
      BY <1>1, <1>2 DEF Fetch, Begun
<1>3. ASSUME NEW h \in Hosts, FetchGarbage(h) PROVE Begun
  <2>1. PICK v \in 0 .. seq :
            LET skipped == {i \in Updated(v) : i.host = h}
                versions == {i.version : i \in skipped}
            IN  /\ Reaches(v)
                /\ BeginRun(v, Updated(v) \ skipped)
                /\ amiss' = amiss \cup Uncommitted \cup versions
                /\ asked' = asked \cup versions
        BY <1>3 DEF FetchGarbage
  <2>2. /\ from' = v /\ pc' = "items" /\ batch' \subseteq Updated(v)
        /\ \A g \in Hosts : tmp'[g]["json"] = Missing
        /\ UNCHANGED <<seq, cur, pending, offered, served>>
        BY <1>1, <2>1
  <2>3. \A n \in asked' \ asked : n \in amiss' /\ \E i \in Updated(v) : i.version = n
        BY <2>1
  <2>4. Uncommitted \subseteq amiss' /\ amiss \subseteq amiss' /\ asked \subseteq asked'
        BY <2>1
  <2>5. QED BY <2>1, <2>2, <2>3, <2>4 DEF Begun
<1>4. QED BY <1>2, <1>3

\* The steps, as to what is asked for and served.
LEMMA ServingKinds ==
    [Next]_vars =>
        \/ \E h \in Hosts, c \in Confs : EditConfig(h, c) \/ CommitConfig(h, c)
        \/ Begun
        \/ \E h \in Hosts, f \in Files : DeployFile(h, f)
        \/ FinishRun
        \/ Quiet
<1> DEFINE Kinds == \/ \E h \in Hosts, c \in Confs : EditConfig(h, c) \/ CommitConfig(h, c)
                    \/ Begun
                    \/ \E h \in Hosts, f \in Files : DeployFile(h, f)
                    \/ FinishRun \/ Quiet
<1> SUFFICES ASSUME [Next]_vars PROVE Kinds
    OBVIOUS
<1>1. CASE UNCHANGED vars
      BY <1>1 DEF vars, Quiet
<1>2. CASE Databases
      BY <1>2 DEF Databases, ChangePlatform, BumpVersion, Quiet
<1>3. CASE \E i \in items : \/ ProcessItem(i)
                            \/ \E how \in Failures : ItemFails(i, how)
      BY <1>3 DEF ProcessItem, ItemFails, Quiet
<1>4. CASE StartPackaging \/ ReadMinor \/ WriteJson \/ ReadFails \/ StartDeploying \/ Crash
      BY <1>4 DEF StartPackaging, ReadMinor, WriteJson, ReadFails, StartDeploying, Crash, Quiet
<1>5. CASE \/ \E h \in Hosts : PackHost(h) \/ PackFails(h)
           \/ SignFiles
           \/ \E fs \in {{}, {"pkg"}, {"json"}} : SignFails(fs)
      BY <1>5 DEF PackHost, PackFails, SignFiles, SignFails, Quiet
<1>6. CASE Manager
      BY <1>3, <1>4, <1>5, <1>6, RunBegins DEF Manager
<1>7. CASE Trouble
      BY <1>3, <1>4, <1>5, <1>7, RunBegins DEF Trouble
<1>8. QED BY <1>1, <1>2, <1>6, <1>7 DEF Next

-----------------------------------------------------------------------------
\* Numbers stay apart.
LEMMA NextUnique ==
    ManagerInvariant /\ UniqueInvariant /\ [Next]_vars => UniqueInvariant'
<1> SUFFICES ASSUME ManagerInvariant, UniqueInvariant, [Next]_vars
             PROVE  UniqueInvariant'
    OBVIOUS
<1>1. /\ seq \in Nat /\ from \in Nat
      /\ cur \in [Hosts -> [Confs -> Nat]] /\ pending \in [Hosts -> [Confs -> Nat]]
      /\ \A i \in batch : i.host \in Hosts /\ i.conf \in Confs /\ i.version \in Nat
      /\ \A h \in Hosts, c \in Confs : cur[h][c] <= seq /\ pending[h][c] <= seq
      /\ \A h \in Hosts : \A i \in batch : i.version < seq + 1
      BY DEF ManagerInvariant, TypeInvariant, TypeOK, FilesInvariant, DrawnInvariant, Later
<1>2. ASSUME NEW h \in Hosts, NEW c \in Confs, EditConfig(h, c)
      PROVE  UniqueInvariant'
  <2>1. /\ UNCHANGED <<cur, batch, from, asked>> /\ seq' = seq + 1
        /\ \A g \in Hosts, d \in Confs :
              pending'[g][d] = IF g = h /\ d = c THEN seq + 1 ELSE pending[g][d]
        BY <1>1, <1>2 DEF EditConfig
  <2>2. /\ \A i \in batch : i.version <= seq
        /\ \A n \in asked : n <= seq
        BY <1>1 DEF UniqueInvariant
  <2>3. \A n \in asked' : n \in Nat /\ n <= seq'
        BY <1>1, <2>1, <2>2 DEF UniqueInvariant
  <2>4. ASSUME NEW g \in Hosts, NEW d \in Confs, pending'[g][d] # 0
        PROVE  /\ pending'[g][d] \notin asked'
               /\ \A i \in batch' : i.version # pending'[g][d]
               /\ \A a \in Hosts, b \in Confs :
                     /\ cur'[a][b] # pending'[g][d]
                     /\ pending'[a][b] = pending'[g][d] => a = g /\ b = d
    <3>1. CASE g = h /\ d = c
          BY <1>1, <2>1, <2>2, <3>1
    <3>2. CASE ~(g = h /\ d = c)
          BY <1>1, <2>1, <2>4, <3>2 DEF UniqueInvariant
    <3>3. QED BY <3>1, <3>2
  <2>5. QED BY <1>1, <2>1, <2>3, <2>4 DEF UniqueInvariant
<1>3. ASSUME NEW h \in Hosts, NEW c \in Confs, CommitConfig(h, c)
      PROVE  UniqueInvariant'
  <2>1. /\ UNCHANGED <<seq, batch, from, asked>> /\ pending[h][c] # 0
        /\ \A g \in Hosts, d \in Confs :
              /\ cur'[g][d] = IF g = h /\ d = c THEN pending[h][c] ELSE cur[g][d]
              /\ pending'[g][d] = IF g = h /\ d = c THEN 0 ELSE pending[g][d]
        BY <1>1, <1>3 DEF CommitConfig
  <2>2. QED BY <1>1, <2>1 DEF UniqueInvariant
<1>4. CASE Begun
  <2>1. PICK v \in 0 .. seq :
            /\ from' = v /\ batch' \subseteq Updated(v) /\ asked \subseteq asked'
            /\ \A n \in asked' \ asked : \E i \in Updated(v) : i.version = n
            /\ UNCHANGED <<seq, cur, pending>>
        BY <1>4 DEF Begun
  <2>2. \A i \in Updated(v) : /\ i.host \in Hosts /\ i.conf \in Confs
                              /\ i.version = cur[i.host][i.conf] /\ i.version > v
        BY UpdatedItems
  <2>3. \A n \in asked' : \/ n \in asked
                          \/ \E g \in Hosts, d \in Confs : cur[g][d] = n
        BY <2>1, <2>2
  <2>4. \A i \in batch' : \E g \in Hosts, d \in Confs :
            i.host = g /\ i.conf = d /\ i.version = cur[g][d] /\ cur[g][d] > 0
        BY <1>1, <2>1, <2>2
  <2>5. QED BY <1>1, <2>1, <2>3, <2>4 DEF UniqueInvariant
<1>5. ASSUME UNCHANGED <<seq, cur, pending, batch, from>>,
             asked' \subseteq asked \cup {i.version : i \in batch}
      PROVE  UniqueInvariant'
  <2>1. \A n \in asked' : n \in asked \/ \E i \in batch : i.version = n
        BY <1>5
  <2>2. \A n \in asked' : n \in Nat /\ n <= seq'
        BY <1>1, <1>5, <2>1 DEF UniqueInvariant
  <2>3. \A h \in Hosts, c \in Confs :
            pending'[h][c] # 0 => pending'[h][c] \notin asked'
        BY <1>5, <2>1 DEF UniqueInvariant
  <2>4. QED BY <1>5, <2>2, <2>3 DEF UniqueInvariant
<1>6. CASE FinishRun
      BY <1>5, <1>6 DEF FinishRun
<1>7. CASE Quiet
      BY <1>5, <1>7 DEF Quiet
<1>8. ASSUME NEW h \in Hosts, NEW f \in Files, DeployFile(h, f) PROVE UniqueInvariant'
      BY <1>5, <1>8 DEF DeployFile
<1>9. QED BY <1>2, <1>3, <1>4, <1>6, <1>7, <1>8, ServingKinds

-----------------------------------------------------------------------------
\* No host that is due is passed over by the packager.
LEMMA NextPacked ==
    ManagerInvariant /\ UniqueInvariant /\ PackedInvariant /\ [Next]_vars => PackedInvariant'
<1> SUFFICES ASSUME ManagerInvariant, UniqueInvariant, PackedInvariant, [Next]_vars
             PROVE  PackedInvariant'
    OBVIOUS
<1> DEFINE Packed(h) == \/ h \in left
                        \/ pc \in {"minor", "json", "sign"} /\ h = host
                        \/ Complete(tmp[h])
<1>1. /\ tmp \in [Hosts -> DirType]
      /\ pc \in {"minor", "json", "sign"} => host \in Hosts
      /\ \A i \in batch : i.host \in Hosts /\ i.conf \in Confs /\ i.version \in Nat
      BY DEF ManagerInvariant, TypeInvariant, TypeOK, FilesInvariant
<1>2. ASSUME UNCHANGED <<run, from, batch, confs, tmp>>, amiss \subseteq amiss',
             pc' \in {"idle", "items"}, pc' = "items" => pc = "items"
      PROVE  PackedInvariant'
      BY <1>2, SamePackage DEF PackedInvariant
<1>3. ASSUME UNCHANGED <<run, from, batch, confs, tmp, left, host, pc>>, amiss \subseteq amiss'
      PROVE  PackedInvariant'
      BY <1>3, SamePackage DEF PackedInvariant, Due
<1>4. CASE UNCHANGED vars
      BY <1>3, <1>4 DEF vars
<1>5. CASE Databases
      BY <1>3, <1>5 DEF Databases, EditConfig, CommitConfig, ChangePlatform, BumpVersion
<1>6. CASE Begun
      BY <1>6 DEF Begun, PackedInvariant
<1>7. ASSUME NEW i \in items, \/ ProcessItem(i)
                              \/ \E how \in Failures : ItemFails(i, how)
      PROVE  PackedInvariant'
      BY <1>7 DEF ProcessItem, ItemFails, PackedInvariant
<1>8. CASE FinishRun \/ Crash
      BY <1>2, <1>8 DEF FinishRun, Crash
<1>9. ASSUME NEW h \in Hosts, NEW f \in Files, DeployFile(h, f) PROVE PackedInvariant'
      BY <1>3, <1>9 DEF DeployFile
<1>10. CASE StartPackaging
  <2>1. /\ pc = "items" /\ items = {} /\ pc' = "pack"
        /\ left' = {h \in Hosts : confs[h] # NoConfs}
        /\ UNCHANGED <<run, from, batch, confs, tmp, amiss>>
        BY <1>10 DEF StartPackaging
  <2>2. ASSUME NEW h \in Hosts, Due(h) PROVE h \in left'
    <3>1. PICK i \in batch : i.host = h /\ i.version \notin amiss
          BY <2>2 DEF Due
    <3>2. confs[h][i.conf] = "whole" /\ i.conf \in Confs
          BY <1>1, <2>1, <3>1 DEF ManagerInvariant, BatchInvariant
    <3>3. QED BY <2>1, <3>2 DEF NoConfs
  <2>3. QED BY <2>1, <2>2, SamePackage DEF PackedInvariant, Due
<1>11. ASSUME NEW h \in Hosts, PackHost(h) PROVE PackedInvariant'
  <2>1. /\ pc = "pack" /\ pc' = "minor" /\ host' = h /\ left' = left \ {h}
        /\ UNCHANGED <<run, from, batch, confs, amiss>>
        /\ tmp' = [tmp EXCEPT ![h]["pkg"] = Package(h)]
        BY <1>11 DEF PackHost
  <2>2. /\ \A g \in Hosts : tmp'[g]["json"] = tmp[g]["json"]
        /\ \A g \in Hosts \ {h} : tmp'[g] = tmp[g]
        BY <1>1, <2>1 DEF DirType, Files
  <2>3. QED BY <2>1, <2>2, SamePackage DEF PackedInvariant, Due
<1>11a. ASSUME NEW h \in Hosts, PackFails(h) PROVE PackedInvariant'
  <2>1. /\ pc = "pack" /\ pc' = "pack" /\ left' = left \ {h}
        /\ UNCHANGED <<run, from, batch, confs>>
        /\ amiss' = amiss \cup HostItems(h)
        BY <1>11a DEF PackFails
  <2>2. \A g \in Hosts : Due(g)' => Due(g) /\ g # h
        BY <2>1 DEF Due, HostItems
  <2>3. /\ \A g \in Hosts : tmp'[g]["json"] = tmp[g]["json"]
        /\ \A g \in Hosts \ {h} : tmp'[g]["pkg"] = tmp[g]["pkg"]
        /\ \A g \in Hosts \ {h}, f \in Files : tmp'[g][f] = tmp[g][f]
        BY <1>11a, CutPackage DEF ManagerInvariant, Files
  <2>4. QED BY <2>1, <2>2, <2>3, SamePackage DEF PackedInvariant, Complete, Files
<1>12. CASE ReadMinor
  <2>1. pc = "minor" /\ pc' = "json" /\ UNCHANGED <<run, from, batch, confs, tmp, left, host, amiss>>
        BY <1>12 DEF ReadMinor
  <2>2. QED BY <2>1, SamePackage DEF PackedInvariant, Due
<1>13. CASE WriteJson
  <2>1. pc = "json" /\ UNCHANGED <<run, from, batch, confs, left, host, amiss>>
        BY <1>13 DEF WriteJson
  <2>2. tmp[host]["pkg"] = Package(host) /\ host \in Hosts
        BY <1>1, <2>1 DEF ManagerInvariant, TypeInvariant, FilesInvariant
  <2>3. CASE ~ Remembered(host)
    <3>1. pc' = "pack" /\ tmp' = tmp
          BY <1>13, <2>3 DEF WriteJson
    <3>2. ~ Due(host)
      <4>1. SUFFICES ASSUME NEW i \in batch, i.host = host, i.version \notin amiss PROVE FALSE
            BY DEF Due
      <4>2. i \notin items
            BY <2>1 DEF ManagerInvariant, BatchInvariant
      <4>3. i.version <= VERSIONS[host] /\ PLATFORMS[host] # Missing
            BY <2>1, <4>1, <4>2 DEF ManagerInvariant, SeenInvariant
      <4>4. QED BY <1>1, <2>3, <4>3 DEF UniqueInvariant, Remembered
    <3>3. QED BY <2>1, <3>1, <3>2, SamePackage DEF PackedInvariant, Due
  <2>4. CASE Remembered(host)
    <3>1. pc' = "sign" /\ tmp' = [tmp EXCEPT ![host]["json"] = Json(host)]
          BY <1>13, <2>4 DEF WriteJson
    <3>2. /\ \A g \in Hosts \ {host} : tmp'[g] = tmp[g]
          /\ tmp'[host]["pkg"] = tmp[host]["pkg"] /\ tmp'[host]["json"] = Json(host)
          BY <1>1, <2>2, <3>1 DEF DirType, Files
    <3>3. Json(host).checksum = Package(host)
          BY <2>2 DEF Json
    <3>4. Json(host) # Missing
      <4>1. Json(host) \in JsonType
            BY <2>1, <2>4, JsonIsJson DEF ManagerInvariant
      <4>2. QED BY <4>1, MissingAssumption
    <3>5. QED BY <2>1, <2>2, <3>1, <3>2, <3>3, <3>4, SamePackage DEF PackedInvariant, Due
  <2>5. QED BY <2>3, <2>4
<1>14. CASE ReadFails
  <2>1. /\ pc \in {"minor", "json"} /\ pc' = "pack" /\ amiss' = amiss \cup HostItems(host)
        /\ UNCHANGED <<run, from, batch, confs, tmp, left, host>>
        BY <1>14 DEF ReadFails
  <2>2. \A h \in Hosts : Due(h)' => Due(h) /\ h # host
        BY <2>1 DEF Due, HostItems
  <2>3. QED BY <2>1, <2>2, SamePackage DEF PackedInvariant
<1>15. ASSUME NEW fs, pc = "sign", pc' = "pack", Sign(fs), amiss \subseteq amiss',
              UNCHANGED <<run, from, batch, confs, left, host>>,
              Due(host)' => fs = {"pkg", "json"}
       PROVE  PackedInvariant'
  <2>1. /\ host \in Hosts /\ tmp[host]["json"] # Missing /\ tmp[host]["pkg"] = Package(host)
        /\ tmp[host]["json"].checksum = Package(host)
        BY <1>1, <1>15 DEF PackedInvariant
  <2>2. \A h \in Hosts : tmp'[h]["json"] = tmp[h]["json"] /\ tmp'[h]["pkg"] = tmp[h]["pkg"]
        BY <1>15, SignKeeps DEF ManagerInvariant
  <2>3. \A h \in Hosts \ {host} : tmp'[h] = tmp[h]
        BY <1>1, <1>15, <2>1 DEF Sign
  <2>4. fs = {"pkg", "json"} => Complete(tmp'[host])
    <3>1. SUFFICES ASSUME fs = {"pkg", "json"} PROVE Complete(tmp'[host])
          OBVIOUS
    <3>2. /\ tmp'[host]["pkgSig"] = tmp[host]["pkg"] /\ tmp'[host]["jsonSig"] = tmp[host]["json"]
          BY <1>1, <1>15, <2>1, <3>1 DEF Sign, DirType, Files
    <3>3. QED BY <2>1, <2>2, <3>2 DEF Complete
  <2>5. \A h \in Hosts : Due(h)' => Due(h)
        BY <1>15 DEF Due
  <2>6. QED BY <1>15, <2>2, <2>3, <2>4, <2>5, SamePackage DEF PackedInvariant
<1>16. CASE SignFiles
       BY <1>15, <1>16 DEF SignFiles
<1>17. ASSUME NEW fs \in {{}, {"pkg"}, {"json"}}, SignFails(fs) PROVE PackedInvariant'
  <2>1. ~ Due(host)'
        BY <1>17 DEF SignFails, Due, HostItems
  <2>2. QED BY <1>15, <1>17, <2>1 DEF SignFails
<1>18. CASE StartDeploying
  <2>1. /\ pc = "pack" /\ left = {} /\ pc' = "deploy"
        /\ UNCHANGED <<run, from, batch, confs, tmp, left, host, amiss>>
        BY <1>18 DEF StartDeploying
  <2>2. QED BY <2>1, SamePackage DEF PackedInvariant, Due
<1>19. CASE Manager
       BY <1>6, <1>7, <1>8, <1>9, <1>10, <1>11, <1>12, <1>13, <1>16, <1>18, <1>19, RunBegins
       DEF Manager
<1>20. CASE Trouble
       BY <1>6, <1>7, <1>8, <1>11a, <1>14, <1>17, <1>20, RunBegins DEF Trouble
<1>21. QED BY <1>4, <1>5, <1>19, <1>20 DEF Next

-----------------------------------------------------------------------------
\* What the package of a host holds: what the run has not left out.
LEMMA PackageHolds ==
    ASSUME ManagerInvariant, pc = "deploy", NEW i \in batch, i.version \notin amiss
    PROVE  <<i.conf, i.version>> \in Package(i.host).holds
<1>1. confs[i.host][i.conf] = "whole"
      BY DEF ManagerInvariant, BatchInvariant
<1>2. i \in {j \in batch : j.host = i.host /\ confs[i.host][j.conf] = "whole"}
      BY <1>1
<1>3. QED BY <1>2 DEF Package

\* A release that a copied file completes is the run's, and is what is offered
\* and served.
LEMMA CopyCompletes ==
    ASSUME ManagerInvariant, PackedInvariant, NEW h \in Hosts, NEW f \in Files, DeployFile(h, f)
    PROVE  \/ ~ Complete(nginx'[h]) /\ UNCHANGED <<offered, served>>
           \/ /\ Complete(nginx'[h])
              /\ tmp[h]["json"] # Missing
              /\ tmp[h]["json"].checksum = Package(h)
              /\ offered' = [offered EXCEPT ![h] = tmp[h]["json"].version]
              /\ served' = [served EXCEPT ![h] = @ \cup Package(h).holds]
<1>1. /\ nginx \in [Hosts -> DirType]
      /\ nginx' = [nginx EXCEPT ![h][f] = tmp[h][f]]
      /\ pc = "deploy" /\ tmp[h][f] # Missing /\ RunOf(f, tmp[h][f]) = run
      BY DEF DeployFile, ManagerInvariant, TypeInvariant, TypeOK, OriginInvariant
<1>2. \A e \in Files : nginx'[h][e] = IF e = f THEN tmp[h][f] ELSE nginx[h][e]
      BY <1>1 DEF DirType
<1>3. CASE ~ Complete(nginx'[h])
      BY <1>3 DEF DeployFile
<1>4. CASE Complete(nginx'[h])
  <2>1. \A e \in Files : RunOf(e, nginx'[h][e]) = run
        BY <1>1, <1>2, <1>4 DEF Complete, RunOf, Files
  <2>2. nginx'[h]["json"] # Missing
        BY <1>4 DEF Complete
  <2>3. nginx'[h]["json"] = tmp[h]["json"]
    <3>1. CASE f = "json"
          BY <1>2, <3>1 DEF Files
    <3>2. CASE f # "json"
          BY <1>2, <2>1, <2>2, <3>2 DEF Files, ManagerInvariant, OriginInvariant
    <3>3. QED BY <3>1, <3>2
  <2>4. tmp[h]["json"].checksum = Package(h)
        BY <2>2, <2>3 DEF PackedInvariant
  <2>5. nginx'[h]["pkg"] = Package(h)
        BY <1>4, <2>3, <2>4 DEF Complete
  <2>6. QED BY <1>4, <2>2, <2>3, <2>4, <2>5 DEF DeployFile
<1>5. QED BY <1>3, <1>4

\* What is copied stays so, and a complete release is served when all is copied.
LEMMA NextCopied ==
    ASSUME ManagerInvariant, PackedInvariant, ServedInvariant, [Next]_vars,
           pc' = "deploy", NEW h \in Hosts, Complete(tmp'[h])
    PROVE  Copied(h)'
<1>1. /\ tmp[h] \in DirType /\ nginx \in [Hosts -> DirType]
      /\ served \in [Hosts -> SUBSET (Confs \X Nat)]
      BY DEF ManagerInvariant, TypeInvariant, TypeOK, ServedInvariant
<1>2. ASSUME pc = "deploy", UNCHANGED <<tmp, nginx, copies, served>>
      PROVE  Copied(h)'
      BY <1>2 DEF ServedInvariant, Copied
<1>3. ASSUME NEW g \in Hosts, NEW c \in Confs, EditConfig(g, c) \/ CommitConfig(g, c)
      PROVE  Copied(h)'
      BY <1>2, <1>3 DEF EditConfig, CommitConfig
<1>4. CASE Begun \/ FinishRun
      BY <1>4 DEF Begun, FinishRun
<1>5. CASE StartDeploying
  <2>1. tmp' = tmp /\ copies' = {x \in Hosts \X Files : tmp[x[1]][x[2]] # Missing}
        BY <1>5 DEF StartDeploying
  <2>2. tmp[h]["json"] # Missing /\ tmp[h]["json"] \in JsonType
        BY <2>1 DEF Complete, ManagerInvariant, TypeInvariant, FilesInvariant
  <2>3. tmp[h]["pkg"] # Missing
        BY <2>1, <2>2, MissingAssumption DEF Complete, JsonType
  <2>4. \A f \in Files : tmp[h][f] # Missing
        BY <2>1, <2>2, <2>3 DEF Complete, Files
  <2>5. \A f \in Files : <<h, f>> \in copies'
        BY <2>1, <2>4
  <2>6. QED BY <2>5 DEF Copied, Files
<1>6. CASE Quiet
      BY <1>2, <1>5, <1>6 DEF Quiet
<1>7. ASSUME NEW g \in Hosts, NEW f \in Files, DeployFile(g, f)
      PROVE  Copied(h)'
  <2>1. /\ pc = "deploy" /\ tmp' = tmp /\ <<g, f>> \in copies /\ copies' = copies \ {<<g, f>>}
        /\ nginx' = [nginx EXCEPT ![g][f] = tmp[g][f]]
        BY <1>7 DEF DeployFile
  <2>2. Copied(h)
        BY <2>1 DEF ServedInvariant
  <2>3. CASE h # g
    <3>1. nginx'[h] = nginx[h] /\ served'[h] = served[h]
          BY <1>1, <1>7, <2>1, <2>3 DEF DeployFile
    <3>2. \A e \in Files : <<h, e>> \in copies' <=> <<h, e>> \in copies
          BY <2>1, <2>3
    <3>3. QED BY <2>1, <2>2, <3>1, <3>2 DEF Copied
  <2>4. CASE h = g
    <3>1. \A e \in Files : nginx'[h][e] = IF e = f THEN tmp[h][f] ELSE nginx[h][e]
          BY <1>1, <2>1, <2>4 DEF DirType
    <3>2. \A e \in Files : <<h, e>> \in copies' \/ nginx'[h][e] = tmp[h][e]
          BY <2>1, <2>2, <2>4, <3>1 DEF Copied
    <3>3. CASE \E e \in Files : <<h, e>> \in copies'
          BY <2>1, <3>2, <3>3 DEF Copied
    <3>4. CASE \A e \in Files : <<h, e>> \notin copies'
      <4>1. Complete(nginx'[h]) /\ nginx'[h]["pkg"] = tmp[h]["pkg"]
            BY <2>1, <3>2, <3>4 DEF Complete, Files
      <4>2. served' = [served EXCEPT ![h] = @ \cup nginx'[h]["pkg"].holds]
            BY <1>7, <2>4, <4>1 DEF DeployFile
      <4>3. tmp[h]["pkg"].holds \subseteq served'[h]
            BY <1>1, <4>1, <4>2
      <4>4. QED BY <2>1, <3>2, <4>3 DEF Copied
    <3>5. QED BY <3>3, <3>4
  <2>5. QED BY <2>3, <2>4
<1>8. QED BY <1>3, <1>4, <1>6, <1>7, ServingKinds

-----------------------------------------------------------------------------
\* What is asked for or left behind is served or left out.
LEMMA NextServed ==
    /\ ManagerInvariant /\ UniqueInvariant /\ PackedInvariant /\ ServedInvariant /\ [Next]_vars
    => ServedInvariant'
<1> SUFFICES ASSUME ManagerInvariant, UniqueInvariant, PackedInvariant, ServedInvariant, [Next]_vars
             PROVE  ServedInvariant'
    OBVIOUS
<1> DEFINE Passed(h, c) == cur[h][c] \in 1 .. from => cur[h][c] \in asked \cup amiss
           Ahead(h, c) ==
               pending[h][c] # 0 =>
                   \/ pending[h][c] \in amiss
                   \/ offered[h].build < pending[h][c] /\ from < pending[h][c]
           Edited(h, c) ==
               cur[h][c] # 0 /\ (cur[h][c] \in asked \/ cur[h][c] <= offered[h].build) =>
                   cur[h][c] \in amiss \/ <<c, cur[h][c]>> \in served[h]
           Fetched(i) ==
               i.version \in asked \/ i.version <= offered[i.host].build =>
                   i.version \in amiss \/ <<i.conf, i.version>> \in served[i.host]
           Typed == served \in [Hosts -> SUBSET (Confs \X Nat)]
           Kept == /\ Typed
                   /\ \A h \in Hosts, c \in Confs : Passed(h, c) /\ Ahead(h, c) /\ Edited(h, c)
                   /\ \A i \in batch : Fetched(i)
<1>1. SUFFICES Kept'
      BY NextCopied DEF ServedInvariant
<1>2. /\ seq \in Nat /\ from \in Nat /\ from <= seq
      /\ cur \in [Hosts -> [Confs -> Nat]] /\ pending \in [Hosts -> [Confs -> Nat]]
      /\ \A i \in batch : i.host \in Hosts /\ i.conf \in Confs /\ i.version \in Nat
      /\ offered \in [Hosts -> Version]
      /\ \A h \in Hosts : offered[h].build \in Nat
      BY DEF ManagerInvariant, TypeInvariant, TypeOK, FilesInvariant, UniqueInvariant, Version
<1>3. Kept
      BY DEF ServedInvariant
<1>4. ASSUME NEW h \in Hosts, NEW c \in Confs, EditConfig(h, c) PROVE Kept'
  <2>1. /\ UNCHANGED <<cur, batch, from, asked, amiss, offered, served>>
        /\ \A g \in Hosts, d \in Confs :
              pending'[g][d] = IF g = h /\ d = c THEN seq + 1 ELSE pending[g][d]
        BY <1>2, <1>4 DEF EditConfig
  <2>2. offered[h].build < seq + 1
    <3>1. \A d \in Confs : cur[h][d] <= seq /\ cur[h][d] \in Nat
          BY <1>2 DEF ManagerInvariant, DrawnInvariant
    <3>2. offered[h].build # 0 => \E d \in Confs : offered[h].build <= cur[h][d]
          BY DEF ManagerInvariant, OfferedInvariant
    <3>3. QED BY <1>2, <3>1, <3>2
  <2>3. ASSUME NEW g \in Hosts, NEW d \in Confs PROVE Ahead(g, d)'
    <3>1. CASE g = h /\ d = c
      <4>1. pending'[g][d] = seq + 1 /\ offered'[g].build = offered[h].build /\ from' = from
            BY <2>1, <3>1
      <4>2. from < seq + 1
            BY <1>2
      <4>3. QED BY <2>2, <4>1, <4>2
    <3>2. CASE ~(g = h /\ d = c)
      <4>1. pending'[g][d] = pending[g][d]
            BY <2>1, <3>2
      <4>2. QED BY <1>3, <2>1, <4>1
    <3>3. QED BY <3>1, <3>2
  <2>4. QED BY <1>3, <2>1, <2>3
<1>5. ASSUME NEW h \in Hosts, NEW c \in Confs, CommitConfig(h, c) PROVE Kept'
  <2>1. /\ UNCHANGED <<batch, from, asked, amiss, offered, served>> /\ pending[h][c] # 0
        /\ \A g \in Hosts, d \in Confs :
              /\ cur'[g][d] = IF g = h /\ d = c THEN pending[h][c] ELSE cur[g][d]
              /\ pending'[g][d] = IF g = h /\ d = c THEN 0 ELSE pending[g][d]
        BY <1>2, <1>5 DEF CommitConfig
  <2>2. pending[h][c] \in Nat /\ Ahead(h, c)
        BY <1>2, <1>3
  <2>3. pending[h][c] \notin asked
        BY <2>1 DEF UniqueInvariant
  <2>4. ASSUME NEW g \in Hosts, NEW d \in Confs
        PROVE  Passed(g, d)' /\ Ahead(g, d)' /\ Edited(g, d)'
    <3>1. CASE g = h /\ d = c
          BY <1>2, <2>1, <2>2, <2>3, <3>1
    <3>2. CASE ~(g = h /\ d = c)
          BY <1>3, <2>1, <3>2
    <3>3. QED BY <3>1, <3>2
  <2>5. QED BY <1>3, <2>1, <2>4
<1>6. CASE Begun
  <2>1. PICK v \in 0 .. seq :
            /\ from' = v /\ batch' \subseteq Updated(v) /\ Reaches(v)
            /\ Uncommitted \subseteq amiss' /\ amiss \subseteq amiss' /\ asked \subseteq asked'
            /\ \A n \in asked' \ asked : n \in amiss'
            /\ UNCHANGED <<seq, cur, pending, offered, served>>
        BY <1>6 DEF Begun
  <2>2. ASSUME NEW h \in Hosts, NEW c \in Confs
        PROVE  Passed(h, c)' /\ Ahead(h, c)' /\ Edited(h, c)'
    <3>1. <<h, c>> \in Pairs /\ <<h, c>>[1] = h /\ <<h, c>>[2] = c
          BY DEF Pairs
    <3>2. cur[h][c] \notin asked \cup {0} => v < cur[h][c]
          BY <2>1, <3>1 DEF Reaches
    <3>3. pending[h][c] # 0 => pending[h][c] \in Uncommitted
          BY <3>1 DEF Uncommitted
    <3>4. Passed(h, c)'
          BY <1>2, <2>1, <3>2
    <3>5. Ahead(h, c)'
          BY <2>1, <3>3
    <3>6. Edited(h, c)'
          BY <1>3, <2>1
    <3>7. QED BY <3>4, <3>5, <3>6
  <2>3. ASSUME NEW i \in batch' PROVE Fetched(i)'
    <3>1. /\ i.host \in Hosts /\ i.conf \in Confs
          /\ i.version = cur[i.host][i.conf] /\ i.version > v
          BY <2>1, UpdatedItems
    <3>2. Edited(i.host, i.conf)'
          BY <2>2, <3>1
    <3>3. QED BY <1>2, <2>1, <3>1, <3>2
  <2>4. QED BY <1>3, <2>1, <2>2, <2>3
<1>7. CASE FinishRun
  <2>1. /\ pc = "deploy" /\ copies = {} /\ asked' = asked \cup {i.version : i \in batch}
        /\ UNCHANGED <<cur, pending, batch, from, amiss, offered, served>>
        BY <1>7 DEF FinishRun
  <2>2. ASSUME NEW i \in batch
        PROVE  i.version \in amiss \/ <<i.conf, i.version>> \in served[i.host]
    <3>1. SUFFICES ASSUME i.version \notin amiss PROVE <<i.conf, i.version>> \in served[i.host]
          OBVIOUS
    <3>2. i.host \in Hosts /\ Due(i.host)
          BY <1>2, <3>1 DEF Due
    <3>3. Complete(tmp[i.host])
          BY <2>1, <3>2 DEF PackedInvariant
    <3>4. tmp[i.host]["pkg"] = Package(i.host)
          BY <3>2, <3>3 DEF Complete, PackedInvariant
    <3>5. Copied(i.host)
          BY <2>1, <3>2, <3>3 DEF ServedInvariant
    <3>6. Package(i.host).holds \subseteq served[i.host]
          BY <2>1, <3>4, <3>5 DEF Copied
    <3>7. QED BY <2>1, <3>1, <3>6, PackageHolds
  <2>3. ASSUME NEW h \in Hosts, NEW c \in Confs PROVE Edited(h, c)'
    <3>1. CASE \E i \in batch : i.version = cur[h][c]
      <4>1. PICK i \in batch : i.version = cur[h][c]
            BY <3>1
      <4>2. i.host = h /\ i.conf = c
            BY <4>1 DEF UniqueInvariant
      <4>3. QED BY <2>1, <2>2, <4>1, <4>2
    <3>2. CASE ~ \E i \in batch : i.version = cur[h][c]
          BY <1>3, <2>1, <3>2
    <3>3. QED BY <3>1, <3>2
  <2>4. \A h \in Hosts, c \in Confs : Passed(h, c)' /\ Ahead(h, c)'
        BY <1>3, <2>1
  <2>5. QED BY <1>3, <2>1, <2>2, <2>3, <2>4
<1>8. CASE Quiet
      BY <1>3, <1>8 DEF Quiet
<1>9. ASSUME NEW h \in Hosts, NEW f \in Files, DeployFile(h, f) PROVE Kept'
  <2>1. pc = "deploy" /\ UNCHANGED <<cur, pending, batch, from, asked, amiss>>
        BY <1>9 DEF DeployFile
  <2>2. CASE UNCHANGED <<offered, served>>
        BY <1>3, <2>1, <2>2
  <2>3. CASE /\ tmp[h]["json"] # Missing
             /\ tmp[h]["json"].checksum = Package(h)
             /\ offered' = [offered EXCEPT ![h] = tmp[h]["json"].version]
             /\ served' = [served EXCEPT ![h] = @ \cup Package(h).holds]
    <3> DEFINE json == tmp[h]["json"]
    <3>1. /\ \A g \in Hosts \ {h} : offered'[g] = offered[g] /\ served'[g] = served[g]
          /\ offered'[h] = json.version /\ served'[h] = served[h] \cup Package(h).holds
          BY <1>2, <1>3, <2>3
    <3>2. json.version.build \in Nat
          BY <2>3 DEF ManagerInvariant, TypeInvariant, FilesInvariant, JsonType, Version
    <3>3. Typed'
      <4>1. Package(h).holds \in SUBSET (Confs \X Nat)
            BY PackageIsPackage DEF ManagerInvariant, PackageType
      <4>2. QED BY <1>3, <2>3, <4>1
    <3>4. ASSUME NEW g \in Hosts, NEW c \in Confs PROVE Ahead(g, c)'
      <4>1. pending[h][c] # 0 =>
                pending[h][c] \in amiss \/ json.version.build < pending[h][c]
            BY <2>3 DEF ManagerInvariant, DrawnInvariant, Later
      <4>2. QED BY <1>3, <2>1, <3>1, <4>1
    <3>5. ASSUME NEW g \in Hosts, NEW c \in Confs PROVE Edited(g, c)'
      <4>1. CASE g # h
            BY <1>3, <2>1, <3>1, <4>1
      <4>2. CASE g = h
        <5>1. SUFFICES ASSUME cur[h][c] # 0, cur[h][c] \notin amiss,
                              cur[h][c] \in asked \/ cur[h][c] <= json.version.build
                       PROVE  <<c, cur[h][c]>> \in served[h] \cup Package(h).holds
              BY <2>1, <3>1, <4>2
        <5>2. CASE cur[h][c] \in asked
              BY <1>3, <5>1, <5>2
        <5>3. CASE cur[h][c] <= from
              BY <1>2, <1>3, <5>1, <5>3
        <5>4. CASE from < cur[h][c] /\ cur[h][c] <= json.version.build
          <6>1. json.checksum.from = from /\ json.checksum.holds = Package(h).holds
                BY <2>3 DEF Package
          <6>2. Covers(h, json)
                BY <2>3 DEF ManagerInvariant, CoverInvariant
          <6>3. QED BY <5>1, <5>4, <6>1, <6>2 DEF Covers
        <5>5. QED BY <1>2, <5>1, <5>2, <5>3, <5>4
      <4>3. QED BY <4>1, <4>2
    <3>6. ASSUME NEW i \in batch PROVE Fetched(i)'
      <4>1. CASE i.host # h
            BY <1>2, <1>3, <2>1, <3>1, <4>1
      <4>2. CASE i.host = h
            BY <2>1, <3>1, <4>2, PackageHolds
      <4>3. QED BY <4>1, <4>2
    <3>7. \A g \in Hosts, c \in Confs : Passed(g, c)'
          BY <1>3, <2>1
    <3>8. QED BY <2>1, <3>3, <3>4, <3>5, <3>6, <3>7
  <2>4. QED BY <1>9, <2>2, <2>3, CopyCompletes
<1>10. QED BY <1>4, <1>5, <1>6, <1>7, <1>8, <1>9, ServingKinds

-----------------------------------------------------------------------------
\* The inductive invariant.
ServingInvariant ==
    ManagerInvariant /\ UniqueInvariant /\ PackedInvariant /\ ServedInvariant

LEMMA InitServing == Init => ServingInvariant
<1> SUFFICES ASSUME Init PROVE ServingInvariant
    OBVIOUS
<1>1. UniqueInvariant
      BY DEF Init, UniqueInvariant
<1>2. PackedInvariant
      BY DEF Init, PackedInvariant, NoFiles, Files
<1>3. ServedInvariant
      BY DEF Init, ServedInvariant, FirstVersion
<1>4. QED BY <1>1, <1>2, <1>3, InitManager DEF ServingInvariant

LEMMA ServingInvariance == Spec => []ServingInvariant
<1>1. ServingInvariant /\ [Next]_vars => ServingInvariant'
  <2> SUFFICES ASSUME ServingInvariant, [Next]_vars PROVE ServingInvariant'
      OBVIOUS
  <2>1. ManagerInvariant'
        BY ManagerInductive DEF ServingInvariant
  <2>2. UniqueInvariant' /\ PackedInvariant' /\ ServedInvariant'
        BY NextUnique, NextPacked, NextServed DEF ServingInvariant
  <2>3. QED BY <2>1, <2>2 DEF ServingInvariant
<1>2. QED BY <1>1, InitServing, PTL DEF Spec

\* What a host is offered for the first time comes under a version greater than
\* the one it was offered, which an agent that has the latter would ignore:
\* unless the run left it out, or read the version while it was bumped.
THEOREM NewUnderNewVersion == Spec => NothingNewUnderOldVersion
<1>1. ASSUME ServingInvariant, [Next]_vars, NEW h \in Hosts,
             served'[h] # served[h], ~ Lt(offered[h], offered'[h]), h \notin torn,
             NEW x \in served'[h] \ served[h]
      PROVE  x[2] \in amiss
  <2> USE <1>1 DEF ServingInvariant
  <2> DEFINE version == tmp[h]["json"].version
  <2>1. PICK g \in Hosts, f \in Files : DeployFile(g, f)
        BY ServingKinds DEF EditConfig, CommitConfig, Begun, FinishRun, Quiet
  <2>2. /\ served \in [Hosts -> SUBSET (Confs \X Nat)] /\ offered \in [Hosts -> Version]
        /\ \A i \in batch : i.version \in Nat
        BY DEF ServedInvariant, ManagerInvariant, TypeInvariant, TypeOK
  <2>3. /\ tmp[h]["json"] # Missing /\ offered'[h] = version
        /\ served'[h] = served[h] \cup Package(h).holds
        BY <2>1, <2>2, CopyCompletes
  <2>4. PICK i \in batch : i.host = h /\ x = <<i.conf, i.version>>
        BY <2>3 DEF Package
  <2>5. SUFFICES ASSUME i.version \notin amiss PROVE FALSE
        BY <2>4
  <2>6. i.version <= version.build
        BY <2>3, <2>4, <2>5 DEF ManagerInvariant, SeenInvariant
  <2>7. ~ i.version <= offered[h].build
        BY <2>4, <2>5 DEF ServedInvariant
  <2>8. /\ offered[h].major = 1 /\ version.major = 1
        /\ NotAfter(offered[h], version)
        BY <2>3 DEF ManagerInvariant, OfferedInvariant
  <2>9. offered[h] \in Version /\ version \in Version
        BY <2>2, <2>3 DEF ManagerInvariant, TypeInvariant, FilesInvariant, JsonType
  <2>10. offered[h].build < version.build
         BY <2>2, <2>6, <2>7, <2>9 DEF Version
  <2>11. Lt(offered[h], version)
         BY <2>8, <2>9, <2>10 DEF Lt, Cmp, NotAfter, Version
  <2>12. QED BY <2>3, <2>11
<1>2. ServingInvariant /\ [Next]_vars =>
        [\A h \in Hosts : served'[h] # served[h] /\ ~ Lt(offered[h], offered'[h])
            => (\A x \in served'[h] \ served[h] : x[2] \in amiss) \/ h \in torn]_vars
      BY <1>1
<1>3. QED BY <1>2, ServingInvariance, PTL DEF Spec, NothingNewUnderOldVersion

=============================================================================

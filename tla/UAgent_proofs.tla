---------------------------- MODULE UAgent_proofs ---------------------------
(***************************************************************************)
(* The safety properties of the update agent, for any releases, packages,  *)
(* targets, directories and bounds.                                        *)
(*                                                                         *)
(* None of them is inductive as it stands.  That the agent installs what a *)
(* signed version.json describes rests on what the earlier steps of the    *)
(* same run established (Accepted); that the recorded version tells what   *)
(* is installed rests on what install.py has copied so far (Copied).       *)
(***************************************************************************)
EXTENDS UAgent, VersionNumber_proofs

\* From the moment version.json has been accepted until its package is.
Accepted ==
    \/ pc \in {"head", "get"} /\ file \in {"pkg", "pkgSig"}
    \/ pc \in {"package", "unpack", "install", "record"}

AcceptedInv ==
    Accepted =>
        /\ dl["json"] \in Releases
        /\ dl["jsonSig"] = dl["json"]
        /\ Lt(last.version, dl["json"].version)

PackageInv ==
    pc \in {"unpack", "install", "record"} =>
        /\ dl["pkg"] = dl["json"].checksum
        /\ dl["pkgSig"] = dl["pkg"]

\* The recorded version.json is the last one written, unless it is being
\* replaced or a kill left it empty.
RecordedInv ==
    /\ recorded \in {last, Torn}
    /\ pc = "record" => todo = {}

\* The targets of the package being installed that install.py is through
\* with were copied, or their copy failed.
CopiedInv ==
    pc \in {"install", "record"} =>
        \A t \in Payload[dl["json"].checksum] \ (todo \cup failed) :
            applied[t] = [by |-> dl["json"], whole |-> TRUE]

IInv ==
    /\ TypeOK
    /\ AcceptedInv
    /\ PackageInv
    /\ RecordedInv
    /\ CopiedInv
    /\ RecordedIsInstalled

-----------------------------------------------------------------------------
(* Facts about the constants.                                              *)

LEMMA ReleaseType ==
    ASSUME NEW r \in Releases
    PROVE  /\ r.version \in Version
           /\ r.upgrade_min \in Version
           /\ r.upgrade_max \in Version
           /\ r.checksum \in Packages
           /\ r \notin {NoFile, Torn}
BY ReleasesAssumption, ContentsAssumption DEF Release

LEMMA PayloadType ==
    ASSUME NEW p \in Packages
    PROVE  Payload[p] \subseteq Targets
BY PackagesAssumption

LEMMA FileOfType ==
    ASSUME NEW r \in Releases, NEW f \in Files
    PROVE  FileOf(r, f) \in Content
BY ReleaseType DEF FileOf, Content

\* A version.json that passes every test of upgrade_once is signed, and its
\* version is newer than the recorded one.
LEMMA AcceptedIsNewer ==
    ASSUME NEW old, NEW new, NEW sig, VersionAccepted(old, new, sig)
    PROVE  /\ old \in Releases
           /\ new \in Releases
           /\ sig = new
           /\ Lt(old.version, new.version)
<1>1. /\ old \in Releases
      /\ new \in Releases
      /\ sig = new
      /\ ~Le(new.version, old.version)
    BY DEF VersionAccepted, Signed
<1>2. old.version \in Version /\ new.version \in Version
    BY <1>1, ReleaseType
<1>3. QED
    BY <1>1, <1>2, VersionsTotal

-----------------------------------------------------------------------------
(* The type invariant.                                                     *)

LEMMA TypeInit == Init => TypeOK
<1>1. Base \in Releases
    BY ReleasesAssumption
<1>2. Len(Urls) \in Nat
    BY UrlsAssumption
<1>3. QED
    BY <1>1, <1>2 DEF Init, TypeOK, NoFiles, Content, Files, PCs

LEMMA TypeStep ==
    ASSUME TypeOK, AcceptedInv, [Next]_vars
    PROVE  TypeOK'
<1> USE DEF TypeOK, PCs
<1>1. ASSUME NEW i \in DOMAIN Urls, NEW r \in Offered, NEW fs \in Packed,
             StartDeploy(i, r, fs)
      PROVE  TypeOK'
    <2>1. deploy' \in [DOMAIN Urls -> [release : Releases, todo : SUBSET Files]]
        BY <1>1, ReleasesAssumption DEF StartDeploy, Packed
    <2>2. QED
        BY <1>1, <2>1 DEF StartDeploy, hostVars, procVars, histVars
<1>2. ASSUME NEW i \in DOMAIN Urls, NEW f \in Files, DeployFile(i, f)
      PROVE  TypeOK'
    <2>1. deploy[i].release \in Releases
        OBVIOUS
    <2>. DEFINE c == FileOf(deploy[i].release, f)
    <2>. HIDE DEF c
    <2>2. c \in Content
        BY <2>1, FileOfType DEF c
    <2>3. srv' = [srv EXCEPT ![i][f] = c]
        BY <1>2 DEF DeployFile, c
    <2>4. srv' \in [DOMAIN Urls -> [Files -> Content]]
        BY <2>2, <2>3
    <2>5. deploy' \in [DOMAIN Urls -> [release : Releases, todo : SUBSET Files]]
        BY <1>2 DEF DeployFile
    <2>6. QED
        BY <1>2, <2>4, <2>5 DEF DeployFile, hostVars, procVars, histVars
<1>3. CASE StartRun
    BY <1>3, UrlsAssumption DEF StartRun, hostVars, srvVars, histVars
<1>4. ASSUME NEW i \in DOMAIN Urls, TryUrl(i)
      PROVE  TypeOK'
    <2>1. i \in 0..Len(Urls)
        BY UrlsAssumption
    <2>2. NoFiles \in [Files -> Content]
        BY DEF NoFiles, Content
    <2>3. QED
        BY <1>4, <2>1, <2>2 DEF TryUrl, hostVars, srvVars, histVars, Files
<1>5. CASE EndRun
    BY <1>5 DEF EndRun, hostVars, srvVars, histVars
<1>6. CASE HeadFile
    BY <1>6 DEF HeadFile, GiveUp, hostVars, srvVars, histVars
<1>7. CASE RequestFails
    <2>1. dl' \in [Files -> Content]
        BY <1>7 DEF RequestFails, Content
    <2>2. QED
        BY <1>7, <2>1 DEF RequestFails, GiveUp, hostVars, srvVars, histVars
<1>8. CASE GetFile
    <2>1. dl' \in [Files -> Content]
        BY <1>8 DEF GetFile
    <2>2. QED
        BY <1>8, <2>1
        DEF GetFile, GiveUp, StageAfter, hostVars, srvVars, histVars, Files
<1>9. CASE GetTruncated
    <2>1. dl' \in [Files -> Content]
        BY <1>9 DEF GetTruncated, Content
    <2>2. QED
        BY <1>9, <2>1
        DEF GetTruncated, StageAfter, hostVars, srvVars, histVars, Files
<1>10. CASE CheckVersion
    BY <1>10 DEF CheckVersion, GiveUp, hostVars, srvVars, histVars, Files
<1>11. CASE CheckPackage
    BY <1>11 DEF CheckPackage, GiveUp, hostVars, srvVars, histVars
<1>12. CASE Unpack
    BY <1>12, PackagesAssumption
    DEF Unpack, GiveUp, hostVars, srvVars, histVars
<1>13. CASE UnpackFails
    BY <1>13 DEF UnpackFails, GiveUp, hostVars, srvVars, histVars
<1>14. ASSUME NEW t \in Targets, CopyTarget(t)
       PROVE  TypeOK'
    <2>1. dl["json"] \in Releases
        BY <1>14 DEF CopyTarget, AcceptedInv, Accepted
    <2>2. applied' \in [Targets -> [by : Releases, whole : BOOLEAN]]
        BY <1>14, <2>1 DEF CopyTarget
    <2>3. QED
        BY <1>14, <2>2 DEF CopyTarget, srvVars
<1>15. ASSUME NEW t \in Targets, CopyFails(t)
       PROVE  TypeOK'
    BY <1>15 DEF CopyFails, hostVars, srvVars
<1>16. CASE OpenRecorded
    BY <1>16 DEF OpenRecorded, srvVars, histVars
<1>17. CASE WriteRecorded
    <2>1. dl["json"] \in Releases
        BY <1>17 DEF WriteRecorded, AcceptedInv, Accepted
    <2>2. QED
        BY <1>17, <2>1 DEF WriteRecorded, srvVars
<1>18. CASE Kill
    <2>1. pc = "install" => dl["json"] \in Releases
        BY DEF AcceptedInv, Accepted
    <2>2. ASSUME NEW t \in todo, pc = "install",
                 applied' = [applied EXCEPT
                               ![t] = [by |-> dl["json"], whole |-> FALSE]]
          PROVE  applied' \in [Targets -> [by : Releases, whole : BOOLEAN]]
        BY <2>1, <2>2
    <2>3. applied' \in [Targets -> [by : Releases, whole : BOOLEAN]]
        BY <1>18, <2>2 DEF Kill
    <2>4. QED
        BY <1>18, <2>3 DEF Kill, srvVars, histVars
<1>19. CASE RecordFails
    BY <1>19 DEF RecordFails, hostVars, srvVars, histVars
<1>20. CASE UNCHANGED vars
    BY <1>20 DEF vars
<1>21. QED
    BY <1>1, <1>2, <1>3, <1>4, <1>5, <1>6, <1>7, <1>8, <1>9, <1>10, <1>11,
       <1>12, <1>13, <1>14, <1>15, <1>16, <1>17, <1>18, <1>19, <1>20
    DEF Next, Server, AgentStep, Trouble

-----------------------------------------------------------------------------
(* What the steps of a run establish for the steps after them.             *)

\* An action that leaves the process and the host alone, as the server's do.
LEMMA OthersUntouched ==
    ASSUME IInv, UNCHANGED <<hostVars, procVars, histVars>>
    PROVE  /\ AcceptedInv' /\ PackageInv' /\ RecordedInv' /\ CopiedInv'
           /\ RecordedIsInstalled'
BY DEF IInv, hostVars, procVars, histVars, AcceptedInv, Accepted, PackageInv,
       RecordedInv, CopiedInv, RecordedIsInstalled

\* A step of a run before anything is installed: what is on the host, and
\* what was recorded of it, stays as it is.
LEMMA HostUntouched ==
    ASSUME IInv, UNCHANGED <<hostVars, histVars>>,
           pc' \notin {"install", "record"}
    PROVE  RecordedInv' /\ CopiedInv' /\ RecordedIsInstalled'
BY DEF IInv, hostVars, histVars, RecordedInv, CopiedInv, RecordedIsInstalled

LEMMA DownloadStep ==
    ASSUME IInv,
           \/ StartRun \/ EndRun \/ (\E i \in DOMAIN Urls : TryUrl(i))
           \/ HeadFile \/ RequestFails \/ GetFile \/ GetTruncated
    PROVE  /\ AcceptedInv' /\ PackageInv' /\ RecordedInv' /\ CopiedInv'
           /\ RecordedIsInstalled'
<1> USE DEF AcceptedInv, Accepted, PackageInv
<1>0. TypeOK /\ AcceptedInv /\ PackageInv
    BY DEF IInv
<1>1. CASE StartRun \/ EndRun \/ (\E i \in DOMAIN Urls : TryUrl(i))
    <2>1. AcceptedInv' /\ PackageInv'
        BY <1>1 DEF StartRun, EndRun, TryUrl
    <2>2. QED
        BY <1>1, <2>1, HostUntouched DEF StartRun, EndRun, TryUrl
<1>2. CASE HeadFile \/ RequestFails
    <2>1. AcceptedInv' /\ PackageInv'
        BY <1>0, <1>2 DEF HeadFile, RequestFails, GiveUp, histVars
    <2>2. QED
        BY <1>2, <2>1, HostUntouched DEF HeadFile, RequestFails, GiveUp
<1>3. CASE GetFile \/ GetTruncated
    <2>1. /\ file \in Files
          /\ dl \in [Files -> Content]
        BY <1>0 DEF TypeOK
    <2>2. /\ pc = "get"
          /\ UNCHANGED <<hostVars, histVars>>
          /\ \/ pc' = "next"
             \/ /\ pc' = StageAfter[file]
                /\ \E x : dl' = [dl EXCEPT ![file] = x]
                /\ file' = CASE file = "json" -> "jsonSig"
                             [] file = "pkg"  -> "pkgSig"
                             [] OTHER -> file
        BY <1>3 DEF GetFile, GetTruncated, GiveUp
    <2>3. /\ pc' \notin {"unpack", "install", "record"}
          /\ pc' \in {"head", "get", "package"} /\ file' \in {"pkg", "pkgSig"}
                => file \in {"pkg", "pkgSig"}
          /\ pc' = "package" => file \in {"pkg", "pkgSig"}
        BY <2>1, <2>2 DEF StageAfter, Files
    <2>4. file \in {"pkg", "pkgSig"}
             => \/ /\ dl'["json"] = dl["json"]
                   /\ dl'["jsonSig"] = dl["jsonSig"]
                \/ pc' = "next"
        BY <2>1, <2>2 DEF Files
    <2>5. AcceptedInv' /\ PackageInv'
        BY <1>0, <2>2, <2>3, <2>4 DEF histVars
    <2>6. QED
        BY <2>2, <2>3, <2>5, HostUntouched
<1>4. QED
    BY <1>1, <1>2, <1>3

LEMMA CheckStep ==
    ASSUME IInv, CheckVersion \/ CheckPackage \/ UnpackFails
    PROVE  /\ AcceptedInv' /\ PackageInv' /\ RecordedInv' /\ CopiedInv'
           /\ RecordedIsInstalled'
<1> USE DEF AcceptedInv, Accepted, PackageInv
<1>0. TypeOK /\ AcceptedInv /\ PackageInv /\ RecordedInv
    BY DEF IInv
<1>1. CASE CheckVersion
    <2>1. VersionAccepted(recorded, dl["json"], dl["jsonSig"])
            => /\ dl["json"] \in Releases
               /\ dl["jsonSig"] = dl["json"]
               /\ Lt(last.version, dl["json"].version)
        <3>1. HAVE VersionAccepted(recorded, dl["json"], dl["jsonSig"])
        <3>2. /\ recorded \in Releases
              /\ dl["json"] \in Releases
              /\ dl["jsonSig"] = dl["json"]
              /\ Lt(recorded.version, dl["json"].version)
            BY <3>1, AcceptedIsNewer
        <3>3. recorded = last
            BY <1>0, <3>2, ContentsAssumption DEF RecordedInv
        <3>4. QED
            BY <3>2, <3>3
    <2>2. AcceptedInv' /\ PackageInv'
        BY <1>1, <2>1 DEF CheckVersion, GiveUp, histVars
    <2>3. QED
        BY <1>1, <2>2, HostUntouched DEF CheckVersion, GiveUp
<1>2. CASE CheckPackage
    <2>1. PackageAccepted(dl["json"], dl["pkg"], dl["pkgSig"])
            => dl["pkg"] = dl["json"].checksum /\ dl["pkgSig"] = dl["pkg"]
        BY DEF PackageAccepted, Signed
    <2>2. AcceptedInv' /\ PackageInv'
        BY <1>0, <1>2, <2>1 DEF CheckPackage, GiveUp, histVars
    <2>3. QED
        BY <1>2, <2>2, HostUntouched DEF CheckPackage, GiveUp
<1>3. CASE UnpackFails
    BY <1>3, HostUntouched DEF UnpackFails, GiveUp
<1>4. QED
    BY <1>1, <1>2, <1>3

LEMMA UnpackStep ==
    ASSUME IInv, Unpack
    PROVE  /\ AcceptedInv' /\ PackageInv' /\ RecordedInv' /\ CopiedInv'
           /\ RecordedIsInstalled'
<1>1. AcceptedInv /\ PackageInv /\ RecordedInv /\ RecordedIsInstalled
    BY DEF IInv
<1>2. AcceptedInv' /\ PackageInv'
    BY <1>1
    DEF Unpack, GiveUp, AcceptedInv, Accepted, PackageInv, histVars
<1>3. RecordedInv' /\ RecordedIsInstalled'
    BY <1>1 DEF Unpack, GiveUp, RecordedInv, RecordedIsInstalled, hostVars,
                histVars
<1>4. CopiedInv'
    BY <1>1 DEF Unpack, GiveUp, CopiedInv, PackageInv
<1>5. QED
    BY <1>2, <1>3, <1>4

\* A target that something newer than the last recorded release is written
\* to does not disturb what that release stands for.
LEMMA NewerOverwrites ==
    ASSUME TypeOK, RecordedIsInstalled, NEW t \in Targets,
           last' = last, failed \ {t} \subseteq failed',
           Lt(last.version, applied'[t].by.version),
           \A s \in Targets \ {t} : applied'[s] = applied[s]
    PROVE  RecordedIsInstalled'
<1>1. Payload[last.checksum] \subseteq Targets
    BY ReleaseType, PayloadType DEF TypeOK
<1>2. SUFFICES ASSUME NEW s \in Payload[last.checksum], s \notin failed'
               PROVE  \/ applied'[s] = [by |-> last, whole |-> TRUE]
                      \/ Lt(last.version, applied'[s].by.version)
    BY DEF RecordedIsInstalled
<1>3. CASE s = t
    BY <1>3
<1>4. CASE s # t
    <2>1. s \notin failed /\ applied'[s] = applied[s]
        BY <1>1, <1>2, <1>4
    <2>2. QED
        BY <2>1 DEF RecordedIsInstalled
<1>5. QED
    BY <1>3, <1>4

\* install.py writes a target, or fails to, or is killed half way through it:
\* in each case the targets of the last recorded package keep what they hold
\* or get something newer.
LEMMA CopyStep ==
    ASSUME IInv,
           \/ \E t \in Targets : CopyTarget(t) \/ CopyFails(t)
           \/ Kill
    PROVE  /\ AcceptedInv' /\ PackageInv' /\ RecordedInv' /\ CopiedInv'
           /\ RecordedIsInstalled'
<1>0. /\ TypeOK /\ AcceptedInv /\ PackageInv /\ RecordedInv /\ CopiedInv
      /\ RecordedIsInstalled
    BY DEF IInv
<1>1. pc = "install" =>
        dl["json"] \in Releases /\ Lt(last.version, dl["json"].version)
    BY <1>0 DEF AcceptedInv, Accepted
<1>2. applied \in [Targets -> [by : Releases, whole : BOOLEAN]]
    BY <1>0 DEF TypeOK
<1>3. ASSUME NEW t \in Targets, CopyTarget(t)
      PROVE  /\ AcceptedInv' /\ PackageInv' /\ RecordedInv' /\ CopiedInv'
             /\ RecordedIsInstalled'
    <2>1. AcceptedInv' /\ PackageInv' /\ RecordedInv'
        BY <1>0, <1>3
        DEF CopyTarget, AcceptedInv, Accepted, PackageInv, RecordedInv
    <2>2. /\ applied'[t] = [by |-> dl["json"], whole |-> TRUE]
          /\ \A s \in Targets \ {t} : applied'[s] = applied[s]
        BY <1>2, <1>3 DEF CopyTarget
    <2>3. CopiedInv'
        <3>1. SUFFICES ASSUME NEW s \in Payload[dl["json"].checksum],
                              s \notin todo', s \notin failed'
                       PROVE  applied'[s] = [by |-> dl["json"], whole |-> TRUE]
            BY <1>3 DEF CopyTarget, CopiedInv
        <3>2. s \in Targets
            BY <1>3, <1>1, ReleaseType, PayloadType DEF CopyTarget
        <3>3. CASE s = t
            BY <2>2, <3>3
        <3>4. CASE s # t
            BY <1>0, <1>3, <2>2, <3>1, <3>2, <3>4 DEF CopyTarget, CopiedInv
        <3>5. QED
            BY <3>3, <3>4
    <2>4. RecordedIsInstalled'
        <3>1. /\ last' = last
              /\ failed' = failed \ {t}
              /\ Lt(last.version, applied'[t].by.version)
            BY <1>3, <1>1, <2>2 DEF CopyTarget
        <3>2. QED
            BY <1>0, <2>2, <3>1, NewerOverwrites
    <2>5. QED
        BY <2>1, <2>3, <2>4
<1>4. ASSUME NEW t \in Targets, CopyFails(t)
      PROVE  /\ AcceptedInv' /\ PackageInv' /\ RecordedInv' /\ CopiedInv'
             /\ RecordedIsInstalled'
    BY <1>0, <1>4
    DEF CopyFails, AcceptedInv, Accepted, PackageInv, RecordedInv, CopiedInv,
        RecordedIsInstalled, hostVars
<1>5. CASE Kill
    <2>1. AcceptedInv' /\ PackageInv' /\ RecordedInv' /\ CopiedInv'
        BY <1>0, <1>5
        DEF Kill, AcceptedInv, Accepted, PackageInv, RecordedInv, CopiedInv,
            histVars
    <2>2. last' = last /\ failed' = failed
        BY <1>5 DEF Kill, histVars
    <2>3. ASSUME applied' = applied
          PROVE  RecordedIsInstalled'
        <3>1. SUFFICES ASSUME NEW s \in Payload[last.checksum], s \notin failed'
                       PROVE  \/ applied'[s] = [by |-> last, whole |-> TRUE]
                              \/ Lt(last.version, applied'[s].by.version)
            BY <2>2 DEF RecordedIsInstalled
        <3>2. s \notin failed
            BY <2>2, <3>1
        <3>3. \/ applied[s] = [by |-> last, whole |-> TRUE]
              \/ Lt(last.version, applied[s].by.version)
            BY <1>0, <3>1, <3>2 DEF RecordedIsInstalled
        <3>4. QED
            BY <2>3, <3>3
    <2>4. ASSUME pc = "install", NEW t \in todo,
                 applied' = [applied EXCEPT
                               ![t] = [by |-> dl["json"], whole |-> FALSE]]
          PROVE  RecordedIsInstalled'
        <3>1. /\ t \in Targets
              /\ applied'[t].by = dl["json"]
              /\ \A s \in Targets \ {t} : applied'[s] = applied[s]
            BY <1>0, <1>2, <2>4 DEF TypeOK
        <3>2. QED
            BY <1>0, <1>1, <2>2, <2>4, <3>1, NewerOverwrites
    <2>5. QED
        BY <1>5, <2>1, <2>3, <2>4 DEF Kill
<1>6. QED
    BY <1>3, <1>4, <1>5

\* The two halves of the copy over the recorded version.json, and a copy that
\* fails.
LEMMA RecordStep ==
    ASSUME IInv, OpenRecorded \/ WriteRecorded \/ RecordFails
    PROVE  /\ AcceptedInv' /\ PackageInv' /\ RecordedInv' /\ CopiedInv'
           /\ RecordedIsInstalled'
<1>0. /\ AcceptedInv /\ PackageInv /\ RecordedInv /\ CopiedInv
      /\ RecordedIsInstalled
    BY DEF IInv
<1>1. CASE OpenRecorded
    BY <1>0, <1>1
    DEF OpenRecorded, AcceptedInv, Accepted, PackageInv, RecordedInv,
        CopiedInv, RecordedIsInstalled, histVars
<1>2. CASE WriteRecorded
    BY <1>0, <1>2
    DEF WriteRecorded, AcceptedInv, Accepted, PackageInv, RecordedInv,
        CopiedInv, RecordedIsInstalled
<1>3. CASE RecordFails
    BY <1>0, <1>3
    DEF RecordFails, AcceptedInv, Accepted, PackageInv, RecordedInv,
        CopiedInv, RecordedIsInstalled, hostVars, histVars
<1>4. QED
    BY <1>1, <1>2, <1>3

-----------------------------------------------------------------------------
LEMMA InductiveInit == Init => IInv
<1>1. SUFFICES ASSUME Init PROVE IInv
    OBVIOUS
<1>2. TypeOK
    BY <1>1, TypeInit
<1>3. Payload[Base.checksum] \subseteq Targets
    BY ReleasesAssumption, ReleaseType, PayloadType
<1>4. QED
    BY <1>1, <1>2, <1>3
    DEF Init, IInv, AcceptedInv, Accepted, PackageInv, RecordedInv, CopiedInv,
        RecordedIsInstalled

LEMMA InductiveStep == IInv /\ [Next]_vars => IInv'
<1>1. SUFFICES ASSUME IInv, [Next]_vars PROVE IInv'
    OBVIOUS
<1>2. TypeOK'
    BY <1>1, TypeStep DEF IInv
<1>3. CASE Server
    BY <1>1, <1>2, <1>3, OthersUntouched
    DEF Server, StartDeploy, DeployFile, IInv
<1>4. CASE AgentStep
    BY <1>1, <1>2, <1>4, DownloadStep, CheckStep, UnpackStep, CopyStep,
       RecordStep
    DEF AgentStep, IInv
<1>5. CASE Trouble
    BY <1>1, <1>2, <1>5, DownloadStep, CheckStep, CopyStep, RecordStep
    DEF Trouble, IInv
<1>6. CASE UNCHANGED vars
    BY <1>1, <1>2, <1>6, OthersUntouched
    DEF vars, IInv, hostVars, procVars, histVars
<1>7. QED
    BY <1>1, <1>3, <1>4, <1>5, <1>6 DEF Next

LEMMA Inductive == Spec => []IInv
BY InductiveInit, InductiveStep, PTL DEF Spec

\* Every reachable state is well typed; in particular what is written to the
\* recorded version.json is always a release.
THEOREM TypeCorrect == Spec => []TypeOK
<1>1. IInv => TypeOK
    BY DEF IInv
<1>2. QED
    BY <1>1, Inductive, PTL

\* The agent never installs a package other than the one that the signed
\* version.json it downloaded describes, whatever the server replaces while
\* it downloads (upgrade_once).
THEOREM InstallsWhatIsSigned == Spec => []NoMixedInstall
<1>1. IInv => NoMixedInstall
    BY DEF IInv, AcceptedInv, Accepted, PackageInv, NoMixedInstall
<1>2. QED
    BY <1>1, Inductive, PTL

\* The recorded version only goes up (upgrade_once, through kills).
THEOREM RecordedVersionGoesUp == Spec => VersionGoesUp
<1>1. IInv /\ [Next]_vars => [last' # last => Lt(last.version, last'.version)]_last
    <2>1. SUFFICES ASSUME IInv, Next, last' # last
                   PROVE  Lt(last.version, last'.version)
        BY DEF vars
    <2>2. WriteRecorded
        BY <2>1
        DEF Next, Server, AgentStep, Trouble, StartDeploy, DeployFile,
            StartRun, TryUrl, EndRun, HeadFile, RequestFails, GetFile,
            GetTruncated, CheckVersion, CheckPackage, Unpack, UnpackFails,
            CopyTarget, CopyFails, OpenRecorded, RecordFails, Kill, histVars
    <2>3. QED
        BY <2>1, <2>2 DEF WriteRecorded, IInv, AcceptedInv, Accepted
<1>2. QED
    BY <1>1, Inductive, PTL DEF Spec, VersionGoesUp

\* The recorded version tells what is installed, up to copies that failed
\* (run_install_script and copyfile, through kills).
THEOREM RecordedTellsInstalled == Spec => []RecordedIsInstalled
<1>1. IInv => RecordedIsInstalled
    BY DEF IInv
<1>2. QED
    BY <1>1, Inductive, PTL

-----------------------------------------------------------------------------
\* With an empty version.json no run gets past the test that reads it.
BrickedInv == recorded = Torn => pc = "record" \/ ~Accepted

LEMMA BrickedInit == Init => BrickedInv
BY ReleasesAssumption, ReleaseType DEF Init, BrickedInv

LEMMA BrickedStep == IInv /\ BrickedInv /\ [Next]_vars => BrickedInv'
<1>1. SUFFICES ASSUME IInv, BrickedInv, [Next]_vars PROVE BrickedInv'
    OBVIOUS
<1> USE <1>1 DEF BrickedInv, Accepted, hostVars, procVars, srvVars, histVars
<1>2. file \in Files
    BY DEF IInv, TypeOK
<1>3. CASE Server
    BY <1>3 DEF Server, StartDeploy, DeployFile
<1>4. CASE AgentStep
    <2>1. CASE StartRun \/ (\E i \in DOMAIN Urls : TryUrl(i)) \/ EndRun
        BY <2>1 DEF StartRun, TryUrl, EndRun
    <2>2. CASE HeadFile \/ GetFile
        BY <1>2, <2>2 DEF HeadFile, GetFile, GiveUp, StageAfter, Files
    <2>3. CASE CheckVersion
        BY <2>3, AcceptedIsNewer, ReleaseType DEF CheckVersion, GiveUp
    <2>4. CASE CheckPackage \/ Unpack
        BY <2>4 DEF CheckPackage, Unpack, GiveUp
    <2>5. CASE (\E t \in Targets : CopyTarget(t)) \/ OpenRecorded
        BY <2>5 DEF CopyTarget, OpenRecorded
    <2>6. CASE WriteRecorded
        BY <2>6, ReleaseType DEF WriteRecorded, IInv, AcceptedInv
    <2>7. QED
        BY <1>4, <2>1, <2>2, <2>3, <2>4, <2>5, <2>6 DEF AgentStep
<1>5. CASE Trouble
    <2>1. CASE RequestFails \/ UnpackFails \/ RecordFails \/ Kill
        BY <2>1 DEF RequestFails, UnpackFails, RecordFails, Kill, GiveUp
    <2>2. CASE GetTruncated
        BY <1>2, <2>2 DEF GetTruncated, StageAfter, Files
    <2>3. CASE \E t \in Targets : CopyFails(t)
        BY <2>3 DEF CopyFails
    <2>4. QED
        BY <1>5, <2>1, <2>2, <2>3 DEF Trouble
<1>6. CASE UNCHANGED vars
    BY <1>6 DEF vars
<1>7. QED
    BY <1>3, <1>4, <1>5, <1>6 DEF Next

\* A host whose version.json was left empty, by a kill or by a write that
\* failed, is never updated again: no later run repairs it or writes a target
\* (upgrade_once, copyfile).
THEOREM BrickedStaysBricked == Spec => BrickedForGood
<1>1. BrickedInv /\ [Next]_vars
        => [Bricked => recorded' = Torn /\ applied' = applied]_vars
    <2>1. SUFFICES ASSUME BrickedInv, Next, Bricked
                   PROVE  recorded' = Torn /\ applied' = applied
        BY DEF vars
    <2>2. pc \notin {"install", "record"}
        BY <2>1 DEF BrickedInv, Bricked, Accepted
    <2>3. QED
        BY <2>1, <2>2
        DEF Bricked, Next, Server, AgentStep, Trouble, StartDeploy, DeployFile,
            StartRun, TryUrl, EndRun, HeadFile, RequestFails, GetFile,
            GetTruncated, CheckVersion, CheckPackage, Unpack, UnpackFails,
            CopyTarget, CopyFails, OpenRecorded, WriteRecorded, RecordFails,
            Kill, hostVars
<1>2. QED
    BY <1>1, BrickedInit, BrickedStep, Inductive, PTL DEF Spec, BrickedForGood

=============================================================================

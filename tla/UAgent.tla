------------------------------- MODULE UAgent -------------------------------
(***************************************************************************)
(* The update agent of a monitored host: class UAgent of                   *)
(* template/umanager/bin/uagent.py, and the install.py it runs, which is   *)
(* template/umanager/scripts/copy_configs.py in every configuration        *)
(* package.                                                                *)
(*                                                                         *)
(* supervisord starts the agent again and again.  A run tries the release  *)
(* directories of the update server in turn (UAgent.run); at each of them  *)
(* upgrade_once downloads version.json and its signature, compares it with *)
(* the version.json recorded on the host, downloads the package and its    *)
(* signature, verifies, unpacks, runs install.py and overwrites the        *)
(* recorded version.json.  Meanwhile the server's files are replaced one   *)
(* at a time, downloads fail or are cut short, and supervisord kills the   *)
(* agent (stopsignal KILL, killasgroup) between any two steps.             *)
(*                                                                         *)
(* A file is modelled by what was written to it: a version.json by the     *)
(* release it describes, a package by its checksum, a .sig file by the     *)
(* content it is a signature of.                                           *)
(***************************************************************************)
EXTENDS VersionNumber

CONSTANTS
    Releases,      \* contents of version.json files, see Release
    Offered,       \* the releases that are deployed to the update server
    Packages,      \* checksums of the package files
    Targets,       \* files that install.py replaces on the host
    Payload,       \* the targets in the [copy] section of each package
    Scripted,      \* the packages that hold an install.py
    Oversized,     \* the packages larger than max_package_file_size
    Urls,          \* the release directories, in the order a run tries them
    OffhourOnly,   \* those that a run tries only while is_offhour() holds
    Platform,      \* the agent's platform, from uagent.conf
    Base,          \* the release recorded when the agent was installed
    NoFile, Torn,  \* a missing file; a file that was cut short
    MaxDeploys, MaxFaults, MaxKills   \* bounds on what the environment does

\* The attributes that validate_attributes requires of a version.json.
Release == [version: Version, upgrade_min: Version, upgrade_max: Version,
            platform: STRING, checksum: Packages]

ASSUME ReleasesAssumption ==
    /\ Releases \subseteq Release
    /\ Offered \subseteq Releases
    /\ Base \in Releases
    /\ Base.platform = Platform

ASSUME PackagesAssumption ==
    /\ Payload \in [Packages -> SUBSET Targets]
    /\ Scripted \subseteq Packages
    /\ Oversized \subseteq Packages

ASSUME ContentsAssumption ==
    /\ Releases \cap Packages = {}
    /\ {NoFile, Torn} \cap (Releases \cup Packages) = {}
    /\ NoFile # Torn

ASSUME UrlsAssumption == Urls \in Seq(STRING)

ASSUME BoundsAssumption ==
    MaxDeploys \in Nat /\ MaxFaults \in Nat /\ MaxKills \in Nat

Files == {"json", "jsonSig", "pkg", "pkgSig"}

Content == Releases \cup Packages \cup {NoFile, Torn}

NoFiles == [f \in Files |-> NoFile]

\* What deploying release r writes to each file of a directory.
FileOf(r, f) == IF f \in {"json", "jsonSig"} THEN r ELSE r.checksum

\* What packaging a release can leave behind: the packager writes the package
\* and then version.json, and signs both; it may fail half way, and a
\* signature that gpg fails to make is missing without an error.
Packed == {fs \in SUBSET Files :
              /\ fs # {}
              /\ "json" \in fs => "pkg" \in fs
              /\ fs \cap {"pkgSig", "jsonSig"} # {} => "json" \in fs}

VARIABLES
    \* the host
    recorded,   \* install_root/version.json: a release, or Torn
    applied,    \* applied[t]: the release whose install.py wrote target t
                \* last, and whether it wrote the whole file
    dl,         \* the download directory
    pc, url, file, todo,   \* where the process is; todo: targets to copy
    \* the update server
    srv,        \* srv[i][f]: file f of the i-th release directory
    deploy,     \* deploy[i]: the release being copied there, files to go
    \* history and bounds
    last,       \* the last release that was recorded whole
    failed,     \* the targets whose last copy failed
    deploys, faults, kills

hostVars == <<recorded, applied>>
procVars == <<dl, pc, url, file, todo>>
srvVars  == <<srv, deploy>>
histVars == <<last, failed>>
vars == <<recorded, applied, dl, pc, url, file, todo, srv, deploy, last,
          failed, deploys, faults, kills>>

Init ==
    /\ recorded = Base
    /\ applied = [t \in Targets |-> [by |-> Base, whole |-> TRUE]]
    /\ dl = NoFiles
    /\ pc = "idle"
    /\ url = 0
    /\ file = "json"
    /\ todo = {}
    /\ srv = [i \in DOMAIN Urls |-> NoFiles]
    /\ deploy = [i \in DOMAIN Urls |-> [release |-> Base, todo |-> {}]]
    /\ last = Base
    /\ failed = {}
    /\ deploys = 0
    /\ faults = 0
    /\ kills = 0

-----------------------------------------------------------------------------
(* The update server, as the agent sees it.                                *)

\* A release is copied over a directory: the files that packaging it left.
\* The copying of an earlier one may have been interrupted.
StartDeploy(i, r, fs) ==
    /\ deploys < MaxDeploys
    /\ deploy' = [deploy EXCEPT ![i] = [release |-> r, todo |-> fs]]
    /\ deploys' = deploys + 1
    /\ UNCHANGED <<hostVars, procVars, srv, histVars, faults, kills>>

\* cp -rf replaces one file.
DeployFile(i, f) ==
    /\ f \in deploy[i].todo
    /\ srv' = [srv EXCEPT ![i][f] = FileOf(deploy[i].release, f)]
    /\ deploy' = [deploy EXCEPT ![i].todo = @ \ {f}]
    /\ UNCHANGED <<hostVars, procVars, histVars, deploys, faults, kills>>

-----------------------------------------------------------------------------
(* UAgent.run                                                              *)

\* supervisord (run-uagent.sh) starts the agent.
StartRun ==
    /\ pc = "idle"
    /\ pc' = "next"
    /\ url' = 0
    /\ UNCHANGED <<hostVars, dl, file, todo, srvVars, histVars,
                   deploys, faults, kills>>

\* The run goes on to directory i; a directory in between is skipped only
\* when it is for off hours.  upgrade_once begins by clearing the downloads.
TryUrl(i) ==
    /\ pc = "next"
    /\ i \in DOMAIN Urls
    /\ url < i
    /\ \A j \in DOMAIN Urls : url < j /\ j < i => Urls[j] \in OffhourOnly
    /\ url' = i
    /\ dl' = NoFiles
    /\ file' = "json"
    /\ pc' = "head"
    /\ UNCHANGED <<hostVars, todo, srvVars, histVars, deploys, faults, kills>>

\* No directory is left: the run ends with ERR_DOWNLOAD_FAILED.
EndRun ==
    /\ pc = "next"
    /\ \A j \in DOMAIN Urls : url < j => Urls[j] \in OffhourOnly
    /\ pc' = "idle"
    /\ UNCHANGED <<hostVars, dl, url, file, todo, srvVars, histVars,
                   deploys, faults, kills>>

-----------------------------------------------------------------------------
(* UAgent.download_file, for each of the four files in turn.               *)

\* upgrade_once returns something else than OK: run() goes on.
GiveUp == pc' = "next"

\* The request fails (ERR_DOWNLOAD_FAILED); some of the file may be on disk.
RequestFails ==
    /\ pc \in {"head", "get"}
    /\ faults < MaxFaults
    /\ faults' = faults + 1
    /\ GiveUp
    /\ dl' \in {dl, [dl EXCEPT ![file] = Torn]}
    /\ UNCHANGED <<hostVars, url, file, todo, srvVars, histVars,
                   deploys, kills>>

\* requests.head: 404 for a missing file, and the size limit.
HeadFile ==
    /\ pc = "head"
    /\ IF srv[url][file] = NoFile \/ srv[url][file] \in Oversized
       THEN GiveUp
       ELSE pc' = "get"
    /\ UNCHANGED <<hostVars, dl, url, file, todo, srvVars, histVars,
                   deploys, faults, kills>>

\* What follows the download of each file.
StageAfter == [json   |-> "head",  jsonSig |-> "version",
               pkg    |-> "head",  pkgSig  |-> "package"]

\* requests.get, once more: the file may have been replaced since the head
\* request.  The content is streamed to the disk.
GetFile ==
    /\ pc = "get"
    /\ IF srv[url][file] = NoFile
       THEN /\ GiveUp
            /\ UNCHANGED <<dl, file>>
       ELSE /\ dl' = [dl EXCEPT ![file] = srv[url][file]]
            /\ pc' = StageAfter[file]
            /\ file' = CASE file = "json" -> "jsonSig"
                         [] file = "pkg"  -> "pkgSig"
                         [] OTHER -> file
    /\ UNCHANGED <<hostVars, url, todo, srvVars, histVars,
                   deploys, faults, kills>>

\* The connection closes early: what arrived is kept and counts as success.
GetTruncated ==
    /\ pc = "get"
    /\ faults < MaxFaults
    /\ faults' = faults + 1
    /\ srv[url][file] # NoFile
    /\ dl' = [dl EXCEPT ![file] = Torn]
    /\ pc' = StageAfter[file]
    /\ file' = CASE file = "json" -> "jsonSig"
                 [] file = "pkg"  -> "pkgSig"
                 [] OTHER -> file
    /\ UNCHANGED <<hostVars, url, todo, srvVars, histVars, deploys, kills>>

-----------------------------------------------------------------------------
(* UAgent.upgrade_once                                                     *)

\* verify_file: the .sig file beside the file is a signature of its content.
Signed(content, sig) == content \in Releases \cup Packages /\ sig = content

\* Faulty variant: the two versions are not compared.
VersionAcceptedUnordered(old, new, sig) ==
    /\ Signed(new, sig)
    /\ old \in Releases
    /\ old.platform = Platform
    /\ new \in Releases
    /\ new.platform = Platform
    /\ Le(new.upgrade_max, new.version)
    /\ ~Lt(old.version, new.upgrade_min)

\* Faulty variant: the recorded version.json is not validated.
VersionAcceptedBlind(old, new, sig) ==
    /\ Signed(new, sig)
    /\ new \in Releases
    /\ new.platform = Platform
    /\ Le(new.upgrade_max, new.version)
    /\ old \in Releases =>
          /\ ~Le(new.version, old.version)
          /\ ~Lt(old.version, new.upgrade_min)
          /\ ~Le(new.upgrade_max, old.version)

\* Every test between the download of version.json and that of the package.
VersionAccepted(old, new, sig) ==
    /\ Signed(new, sig)
    /\ old \in Releases
    /\ old.platform = Platform
    /\ new \in Releases
    /\ new.platform = Platform
    /\ Le(new.upgrade_max, new.version)
    /\ ~Le(new.version, old.version)
    /\ ~Lt(old.version, new.upgrade_min)
    /\ ~Le(new.upgrade_max, old.version)

\* Faulty variant: the checksum is not compared with version.json.
PackageAcceptedUnchecked(new, pkg, sig) == pkg # NoFile /\ Signed(pkg, sig)

\* validate_package_file, and the second verify_file after it.
PackageAccepted(new, pkg, sig) ==
    /\ pkg # NoFile
    /\ pkg = new.checksum
    /\ Signed(pkg, sig)

CheckVersion ==
    /\ pc = "version"
    /\ IF VersionAccepted(recorded, dl["json"], dl["jsonSig"])
       THEN pc' = "head" /\ file' = "pkg"
       ELSE GiveUp /\ UNCHANGED file
    /\ UNCHANGED <<hostVars, dl, url, todo, srvVars, histVars,
                   deploys, faults, kills>>

CheckPackage ==
    /\ pc = "package"
    /\ IF PackageAccepted(dl["json"], dl["pkg"], dl["pkgSig"])
       THEN pc' = "unpack"
       ELSE GiveUp
    /\ UNCHANGED <<hostVars, dl, url, file, todo, srvVars, histVars,
                   deploys, faults, kills>>

\* unpack_package_file, then the start of install.py if the package has one.
Unpack ==
    /\ pc = "unpack"
    /\ IF dl["pkg"] \in Scripted
       THEN pc' = "install" /\ todo' = Payload[dl["pkg"]]
       ELSE GiveUp /\ UNCHANGED todo
    /\ UNCHANGED <<hostVars, dl, url, file, srvVars, histVars,
                   deploys, faults, kills>>

\* The package cannot be unpacked, or install.py cannot be started at all
\* (ERR_UNPACK_TARFILE, ERR_INSTALL_SCRIPT_FAILED).
UnpackFails ==
    /\ pc = "unpack"
    /\ faults < MaxFaults
    /\ faults' = faults + 1
    /\ GiveUp
    /\ UNCHANGED <<hostVars, dl, url, file, todo, srvVars, histVars,
                   deploys, kills>>

\* copy_configs.py copies one file of its [copy] section.
CopyTarget(t) ==
    /\ pc = "install"
    /\ t \in todo
    /\ applied' = [applied EXCEPT ![t] = [by |-> dl["json"], whole |-> TRUE]]
    /\ failed' = failed \ {t}
    /\ todo' = todo \ {t}
    /\ UNCHANGED <<recorded, dl, pc, url, file, srvVars, last,
                   deploys, faults, kills>>

\* Copying a file fails: copy_configs.py notes exit code 1 and goes on.
CopyFails(t) ==
    /\ pc = "install"
    /\ t \in todo
    /\ faults < MaxFaults
    /\ faults' = faults + 1
    /\ failed' = failed \cup {t}
    /\ todo' = todo \ {t}
    /\ UNCHANGED <<hostVars, dl, pc, url, file, srvVars, last,
                   deploys, kills>>

\* Faulty variant: version.json is recorded while install.py still copies.
OpenRecordedEarly ==
    /\ pc = "install"
    /\ recorded' = Torn
    /\ pc' = "record"
    /\ UNCHANGED <<applied, dl, url, file, todo, srvVars, histVars,
                   deploys, faults, kills>>

\* Faulty variant: version.json is never recorded.
OpenRecordedNever ==
    /\ pc = "install"
    /\ todo = {}
    /\ pc' = "idle"
    /\ UNCHANGED <<recorded, applied, dl, url, file, todo, srvVars, histVars,
                   deploys, faults, kills>>

\* install.py has ended; its exit code is not looked at.  copyfile opens the
\* recorded version.json for writing, which empties it ...
OpenRecorded ==
    /\ pc = "install"
    /\ todo = {}
    /\ recorded' = Torn
    /\ pc' = "record"
    /\ UNCHANGED <<applied, dl, url, file, todo, srvVars, histVars,
                   deploys, faults, kills>>

\* Faulty variant: the package is copied in its place.
WriteRecordedPackage ==
    /\ pc = "record"
    /\ recorded' = dl["pkg"]
    /\ last' = dl["json"]
    /\ pc' = "idle"
    /\ UNCHANGED <<applied, dl, url, file, todo, srvVars, failed,
                   deploys, faults, kills>>

\* ... and writes the new one.  run() returns OK: no other directory is
\* tried.
WriteRecorded ==
    /\ pc = "record"
    /\ recorded' = dl["json"]
    /\ last' = dl["json"]
    /\ pc' = "idle"
    /\ UNCHANGED <<applied, dl, url, file, todo, srvVars, failed,
                   deploys, faults, kills>>

\* copyfile raises, at the open or at the write, and nothing catches it: the
\* process ends, and supervisord starts the next one.
RecordFails ==
    /\ \/ pc = "install" /\ todo = {}
       \/ pc = "record"
    /\ faults < MaxFaults
    /\ faults' = faults + 1
    /\ pc' = "idle"
    /\ UNCHANGED <<hostVars, dl, url, file, todo, srvVars, histVars, deploys,
                   kills>>

\* supervisord kills the agent and its install.py, or the host goes down.  A
\* file that was being copied is left cut short.
Kill ==
    /\ pc # "idle"
    /\ kills < MaxKills
    /\ kills' = kills + 1
    /\ pc' = "idle"
    /\ todo' = {}
    /\ \/ UNCHANGED applied
       \/ /\ pc = "install"
          /\ \E t \in todo :
                applied' = [applied EXCEPT
                              ![t] = [by |-> dl["json"], whole |-> FALSE]]
    /\ UNCHANGED <<recorded, dl, url, file, srvVars, histVars,
                   deploys, faults>>

-----------------------------------------------------------------------------
Server ==
    \E i \in DOMAIN Urls :
        \/ \E r \in Offered, fs \in Packed : StartDeploy(i, r, fs)
        \/ \E f \in Files : DeployFile(i, f)

\* What the agent does when nothing goes wrong.
AgentStep ==
    \/ StartRun
    \/ \E i \in DOMAIN Urls : TryUrl(i)
    \/ EndRun
    \/ HeadFile
    \/ GetFile
    \/ CheckVersion
    \/ CheckPackage
    \/ Unpack
    \/ \E t \in Targets : CopyTarget(t)
    \/ OpenRecorded
    \/ WriteRecorded

Trouble ==
    \/ RequestFails
    \/ GetTruncated
    \/ UnpackFails
    \/ \E t \in Targets : CopyFails(t)
    \/ RecordFails
    \/ Kill

Next == Server \/ AgentStep \/ Trouble

Spec == Init /\ [][Next]_vars

\* supervisord restarts the agent for ever, and the agent takes its steps;
\* off hours come back, so no directory is skipped for ever.
FairSpec ==
    /\ Spec
    /\ WF_vars(AgentStep)
    /\ \A i \in DOMAIN Urls : SF_vars(TryUrl(i))

-----------------------------------------------------------------------------
(* Properties                                                              *)

PCs == {"idle", "next", "head", "get", "version", "package", "unpack",
        "install", "record"}

\* The type invariant.
TypeOK ==
    /\ recorded \in Releases \cup {Torn}
    /\ applied \in [Targets -> [by : Releases, whole : BOOLEAN]]
    /\ dl \in [Files -> Content]
    /\ pc \in PCs
    /\ url \in 0..Len(Urls)
    /\ pc \notin {"idle", "next"} => url \in DOMAIN Urls
    /\ file \in Files
    /\ todo \subseteq Targets
    /\ srv \in [DOMAIN Urls -> [Files -> Content]]
    /\ deploy \in [DOMAIN Urls -> [release : Releases, todo : SUBSET Files]]
    /\ last \in Releases
    /\ failed \subseteq Targets
    /\ deploys \in Nat
    /\ faults \in Nat
    /\ kills \in Nat

\* While a package is unpacked, installed and recorded, it is the package
\* that the signed version.json in the download directory describes, however
\* the server's files were replaced between the four downloads, and that
\* release is newer than the one recorded before.
NoMixedInstall ==
    pc \in {"unpack", "install", "record"} =>
        /\ dl["json"] \in Releases
        /\ dl["jsonSig"] = dl["json"]
        /\ dl["pkg"] = dl["json"].checksum
        /\ dl["pkgSig"] = dl["pkg"]
        /\ Lt(last.version, dl["json"].version)

\* The version recorded on a host only ever goes up, across downloads that
\* are cut short, kills and whatever the server offers.
VersionGoesUp == [][last' # last => Lt(last.version, last'.version)]_last

\* What the recorded version says about the host: every target of its
\* package was written whole by that package, or by a newer release whose
\* installation was interrupted later.  Only a copy that failed is excused.
RecordedIsInstalled ==
    \A t \in Payload[last.checksum] \ failed :
        \/ applied[t] = [by |-> last, whole |-> TRUE]
        \/ Lt(last.version, applied[t].by.version)

\* What an exit code of its own for a failed install.py stands for: a release
\* is recorded only when all its targets have been copied.
RecordedMeansCopied ==
    \A t \in Payload[last.checksum] :
        \/ applied[t] = [by |-> last, whole |-> TRUE]
        \/ Lt(last.version, applied[t].by.version)

\* What download_file promises: no file larger than the limit is ever stored,
\* whatever the server puts in its place after the head request.
NoOversizedDownload == \A f \in Files : dl[f] \notin Oversized

\* A release in directory i that the agent would install from start to end.
Installable(i) ==
    /\ VersionAccepted(recorded, srv[i]["json"], srv[i]["jsonSig"])
    /\ PackageAccepted(srv[i]["json"], srv[i]["pkg"], srv[i]["pkgSig"])
    /\ srv[i]["pkg"] \in Scripted \ Oversized

\* A recorded version.json that a kill or a failed write left empty fails every
\* later run.
Bricked == recorded = Torn /\ pc # "record"

\* When the server's files have stopped changing, the agent ends up with
\* nothing left to install, whatever was killed or cut short before: unless
\* a kill or a failed write hit the two steps that replace the recorded
\* version.json.
EventuallyCurrent ==
    <>[](Bricked \/ \A i \in DOMAIN Urls : ~Installable(i))

\* Nothing repairs an empty version.json: no later run gets past
\* ERR_PARSING_OLD_VERSION, no target is ever written again.
BrickedForGood == [][Bricked => recorded' = Torn /\ applied' = applied]_vars

=============================================================================

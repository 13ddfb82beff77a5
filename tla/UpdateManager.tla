---------------------------- MODULE UpdateManager ---------------------------
(***************************************************************************)
(* One iteration after the other of the update manager: class              *)
(* UpdateManager of template/umanager/bin/update_manager.py.               *)
(*                                                                         *)
(* run() fetches the configurations edited in a window, writes each to the *)
(* temporary directory of its host (fetcher), makes a signed package and a *)
(* signed version.json for each host (packager) and copies the directories *)
(* to those that nginx serves (deployer); then um_daemon reloads the       *)
(* module.  Every error is logged and passed over where it happens, and    *)
(* run() returns 0, so what an error leaves behind is served.              *)
(*                                                                         *)
(* Editors work all the time, the agent's version in the CMDB is bumped,   *)
(* and the daemon can be killed between any two steps.  A host stands for  *)
(* an org, a system and a hostname.  Which edits a window returns is the   *)
(* subject of UMDaemon; here it is any window that passes no edit by.      *)
(***************************************************************************)
EXTENDS VersionNumber, FiniteSets

CONSTANTS
    Hosts,
    Confs,          \* the configuration files of a host
    Platforms,
    FirstPlatform,  \* of each host
    Missing,        \* no such file, no such entry
    MaxEdits, MaxRuns, MaxBumps, MaxFaults   \* bounds

ASSUME PlatformsAssumption ==
    /\ FirstPlatform \in Platforms
    /\ Missing \notin Platforms

ASSUME BoundsAssumption ==
    /\ MaxEdits \in Nat
    /\ MaxRuns \in Nat
    /\ MaxBumps \in Nat
    /\ MaxFaults \in Nat

Files == {"pkg", "pkgSig", "json", "jsonSig"}

NoFiles == [f \in Files |-> Missing]

\* A configuration of a host in its temporary directory: nothing of it,
\* nothing but the directory, named in install.conf but without a file, cut
\* short, or written whole.
NoConfs == [c \in Confs |-> "unlisted"]

\* What an item that failed leaves behind of its configuration.
Failures == {"unlisted", "tried", "named", "cut"}

VARIABLES
    \* the databases
    seq,        \* the last configVersion given out
    cur,        \* cur[h][c]: the configVersion of the configuration, 0: none
    pending,    \* the configVersion of an edit that is not committed, or 0
    plat,       \* the platform each host is registered with
    cmdb,       \* agent.version.minor and .patch (.major works like .minor)
    \* the update manager
    VERSIONS, PLATFORMS,
    pc,
    batch,      \* what getUpdatedConfig returned
    items,      \* the ones of batch that fetcher is not through with
    from,       \* the window: the configVersions greater than this
    confs,      \* the configurations in TMP_DIR
    tmp,        \* the release files in TMP_DIR
    left,       \* the hosts to package
    host, minor,    \* the host being packaged, the minor version read
    copies,     \* the files to copy to nginx
    \* what nginx serves
    nginx,
    \* history and bounds
    run,        \* the number of the run, which makes checksums differ
    asked,      \* the configVersions that a finished run has fetched
    offered,    \* the version of the last complete release of each host
    served,     \* what the complete releases of each host held: a
                \* configuration and its configVersion
    torn,       \* the hosts whose version was read while it was bumped
    amiss,      \* the configVersions that a run left out: an error, or a
                \* commit after later ones were fetched
    bumps, faults

dbVars   == <<seq, cur, pending, plat, cmdb>>
memVars  == <<VERSIONS, PLATFORMS>>
runVars  == <<batch, from, run>>
tmpVars  == <<confs, tmp>>
packVars == <<left, host, minor>>
webVars  == <<nginx, offered, served>>
vars == <<seq, cur, pending, plat, cmdb, VERSIONS, PLATFORMS, batch, from,
          run, pc, items, confs, tmp, left, host, minor, copies, nginx,
          offered, served, asked, torn, amiss, bumps, faults>>

FirstVersion == [major |-> 1, minor |-> 0, patch |-> 0, build |-> 0]

Init ==
    /\ seq = 0
    /\ cur = [h \in Hosts |-> [c \in Confs |-> 0]]
    /\ pending = [h \in Hosts |-> [c \in Confs |-> 0]]
    /\ plat = [h \in Hosts |-> FirstPlatform]
    /\ cmdb = [minor |-> 0, patch |-> 1]
    /\ VERSIONS = [h \in Hosts |-> 0]
    /\ PLATFORMS = [h \in Hosts |-> Missing]
    /\ pc = "idle"
    /\ batch = {}
    /\ items = {}
    /\ from = 0
    /\ confs = [h \in Hosts |-> NoConfs]
    /\ tmp = [h \in Hosts |-> NoFiles]
    /\ left = {}
    /\ host = Missing
    /\ minor = 0
    /\ copies = {}
    /\ nginx = [h \in Hosts |-> NoFiles]
    /\ run = 0
    /\ asked = {}
    /\ offered = [h \in Hosts |-> FirstVersion]
    /\ served = [h \in Hosts |-> {}]
    /\ torn = {}
    /\ amiss = {}
    /\ bumps = 0
    /\ faults = 0

-----------------------------------------------------------------------------
(* The databases, written by others.                                       *)

\* An editor's transaction draws the next configVersion ...
EditConfig(h, c) ==
    /\ seq < MaxEdits
    /\ pending[h][c] = 0
    /\ seq' = seq + 1
    /\ pending' = [pending EXCEPT ![h][c] = seq + 1]
    /\ UNCHANGED <<cur, plat, cmdb, memVars, runVars, pc, items, tmpVars,
                   packVars, copies, webVars, asked, torn, amiss, bumps, faults>>

\* ... and commits.
CommitConfig(h, c) ==
    /\ pending[h][c] # 0
    /\ cur' = [cur EXCEPT ![h][c] = pending[h][c]]
    /\ pending' = [pending EXCEPT ![h][c] = 0]
    /\ UNCHANGED <<seq, plat, cmdb, memVars, runVars, pc, items, tmpVars,
                   packVars, copies, webVars, asked, torn, amiss, bumps, faults>>

\* A host is installed anew, with another operating system.
ChangePlatform(h, p) ==
    /\ p # plat[h]
    /\ bumps < MaxBumps
    /\ bumps' = bumps + 1
    /\ plat' = [plat EXCEPT ![h] = p]
    /\ UNCHANGED <<seq, cur, pending, cmdb, memVars, runVars, pc, items,
                   tmpVars, packVars, copies, webVars, asked, torn, amiss,
                   faults>>

\* A new version of the agent.
BumpVersion ==
    /\ bumps < MaxBumps
    /\ bumps' = bumps + 1
    /\ cmdb' \in {[cmdb EXCEPT !.patch = @ + 1],
                  [minor |-> cmdb.minor + 1, patch |-> 0]}
    /\ UNCHANGED <<seq, cur, pending, plat, memVars, runVars, pc, items,
                   tmpVars, packVars, copies, webVars, asked, torn, amiss,
                   faults>>

-----------------------------------------------------------------------------
(* fetcher                                                                 *)

Pairs == Hosts \X Confs

\* What alertd answers for the window after configVersion v: every
\* configuration as it is committed now.
Updated(v) ==
    {[host |-> x[1], conf |-> x[2], version |-> cur[x[1]][x[2]],
      platform |-> plat[x[1]]] : x \in {y \in Pairs : cur[y[1]][y[2]] > v}}

\* No window passes by an edit that is not committed yet, or one that no
\* finished run has fetched.
Reaches(v) ==
    \A x \in Pairs :
        /\ pending[x[1]][x[2]] # 0 => v < pending[x[1]][x[2]]
        /\ cur[x[1]][x[2]] \notin asked \cup {0} => v < cur[x[1]][x[2]]

Uncommitted == {pending[x[1]][x[2]] : x \in Pairs} \ {0}

\* Faulty variant: TMP_DIR is not cleared.
BeginRunKeeping(v, answer) ==
    /\ pc = "idle"
    /\ run < MaxRuns
    /\ run' = run + 1
    /\ from' = v
    /\ batch' = answer
    /\ items' = answer
    /\ pc' = "items"
    /\ UNCHANGED <<dbVars, memVars, tmpVars, packVars, copies, webVars, torn,
                   bumps>>

\* TMP_DIR is cleared and the window asked for.
BeginRun(v, answer) ==
    /\ pc = "idle"
    /\ run < MaxRuns
    /\ run' = run + 1
    /\ from' = v
    /\ batch' = answer
    /\ items' = answer
    /\ pc' = "items"
    /\ confs' = [h \in Hosts |-> NoConfs]
    /\ tmp' = [h \in Hosts |-> NoFiles]
    /\ UNCHANGED <<dbVars, memVars, packVars, copies, webVars, torn, bumps>>

Fetch ==
    /\ \E v \in 0..seq : Reaches(v) /\ BeginRun(v, Updated(v))
    /\ amiss' = amiss \cup Uncommitted
    /\ UNCHANGED <<asked, faults>>

\* The answer for a token, a host's, is not JSON and passed over.
FetchGarbage(h) ==
    /\ faults < MaxFaults
    /\ faults' = faults + 1
    /\ \E v \in 0..seq :
          LET skipped == {i \in Updated(v) : i.host = h}
              versions == {i.version : i \in skipped}
          IN  /\ Reaches(v)
              /\ BeginRun(v, Updated(v) \ skipped)
              /\ amiss' = amiss \cup Uncommitted \cup versions
              /\ asked' = asked \cup versions

\* Faulty variant: the last item's version wins.
RememberLast(i) ==
    /\ VERSIONS' = [VERSIONS EXCEPT ![i.host] = i.version]
    /\ PLATFORMS' = [PLATFORMS EXCEPT ![i.host] =
                       IF @ = Missing THEN i.platform ELSE @]

\* Remember the version of an item, if it is the greatest of its host, and
\* the platform, if it is the first.
Remember(i) ==
    /\ VERSIONS' = [VERSIONS EXCEPT ![i.host] =
                      IF @ < i.version THEN i.version ELSE @]
    /\ PLATFORMS' = [PLATFORMS EXCEPT ![i.host] =
                       IF @ = Missing THEN i.platform ELSE @]

\* An item is named in install.conf, remembered, and its file written.
ProcessItem(i) ==
    /\ pc = "items"
    /\ i \in items
    /\ items' = items \ {i}
    /\ confs' = [confs EXCEPT ![i.host][i.conf] = "whole"]
    /\ Remember(i)
    /\ UNCHANGED <<dbVars, runVars, pc, tmp, packVars, copies, webVars, asked,
                   torn, amiss, bumps, faults>>

\* An item without a platform: its version is remembered all the same.
RememberVersion(i) ==
    /\ VERSIONS' = [VERSIONS EXCEPT ![i.host] =
                      IF @ < i.version THEN i.version ELSE @]
    /\ UNCHANGED PLATFORMS

\* An exception on the way is logged; what was done before it stays: nothing,
\* for an item without a host; the host's directory, for one without a path;
\* the name in install.conf and what is remembered until then; part of the
\* file.  An unknown service has a name and a version, and no file.
ItemFails(i, how) ==
    /\ pc = "items"
    /\ i \in items
    /\ faults < MaxFaults
    /\ faults' = faults + 1
    /\ items' = items \ {i}
    /\ amiss' = amiss \cup {i.version}
    /\ confs' = [confs EXCEPT ![i.host][i.conf] = how]
    /\ \/ how # "cut" /\ UNCHANGED memVars
       \/ how = "named" /\ RememberVersion(i)
       \/ how \in {"named", "cut"} /\ Remember(i)
    /\ UNCHANGED <<dbVars, runVars, pc, tmp, packVars, copies, webVars, asked,
                   torn, bumps>>

-----------------------------------------------------------------------------
(* packager                                                                *)

\* Faulty variant: the packager does not wait for the fetcher.
StartPackagingEarly ==
    /\ pc = "items"
    /\ pc' = "pack"
    /\ left' = {h \in Hosts : confs[h] # NoConfs}
    /\ UNCHANGED <<dbVars, memVars, runVars, items, tmpVars, host, minor,
                   copies, webVars, asked, torn, amiss, bumps, faults>>

StartPackaging ==
    /\ pc = "items"
    /\ items = {}
    /\ pc' = "pack"
    /\ left' = {h \in Hosts : confs[h] # NoConfs}
    /\ UNCHANGED <<dbVars, memVars, runVars, items, tmpVars, host, minor,
                   copies, webVars, asked, torn, amiss, bumps, faults>>

\* The package of a host: the configurations whose files were written, and
\* those of which a part was.
Package(h) ==
    [run |-> run, from |-> from,
     holds |-> {<<i.conf, i.version>> : i \in {j \in batch :
                    j.host = h /\ confs[h][j.conf] = "whole"}},
     cut |-> {c \in Confs : confs[h][c] = "cut"}]

\* make_targz
PackHost(h) ==
    /\ pc = "pack"
    /\ h \in left
    /\ left' = left \ {h}
    /\ host' = h
    /\ tmp' = [tmp EXCEPT ![h]["pkg"] = Package(h)]
    /\ pc' = "minor"
    /\ UNCHANGED <<dbVars, memVars, runVars, items, confs, minor, copies,
                   webVars, asked, torn, amiss, bumps, faults>>

\* The items of a host.
HostItems(h) == {i.version : i \in {j \in batch : j.host = h}}

\* install.conf, install.py or the package cannot be written: the host is given
\* up, without a package or with one cut short, which nothing refers to.
PackFails(h) ==
    /\ pc = "pack"
    /\ h \in left
    /\ faults < MaxFaults
    /\ faults' = faults + 1
    /\ left' = left \ {h}
    /\ host' = h
    /\ amiss' = amiss \cup HostItems(h)
    /\ \/ UNCHANGED tmp
       \/ tmp' = [tmp EXCEPT ![h]["pkg"] =
                     [Package(h) EXCEPT !.holds = {}, !.cut = {}]]
    /\ UNCHANGED <<dbVars, memVars, runVars, pc, items, confs, minor, copies,
                   webVars, asked, torn, bumps>>

\* get_current_version asks the CMDB for one number at a time.
ReadMinor ==
    /\ pc = "minor"
    /\ minor' = cmdb.minor
    /\ pc' = "json"
    /\ UNCHANGED <<dbVars, memVars, runVars, items, tmpVars, left, host,
                   copies, webVars, asked, torn, amiss, bumps, faults>>

\* Faulty variant: the configuration's version is left out.
JsonNoBuild(h) ==
    [version  |-> [major |-> 1, minor |-> minor, patch |-> cmdb.patch,
                   build |-> 0],
     platform |-> PLATFORMS[h],
     checksum |-> tmp[h]["pkg"]]

\* version.json, with the last number read.
Json(h) ==
    [version  |-> [major |-> 1, minor |-> minor, patch |-> cmdb.patch,
                   build |-> VERSIONS[h]],
     platform |-> PLATFORMS[h],
     checksum |-> tmp[h]["pkg"]]

\* Faulty variant: a host of which nothing is remembered is not given up.
WriteJsonAnyway ==
    /\ pc = "json"
    /\ pc' = "sign"
    /\ tmp' = [tmp EXCEPT ![host]["json"] = Json(host)]
    /\ torn' = IF minor = cmdb.minor THEN torn ELSE torn \cup {host}
    /\ UNCHANGED <<dbVars, memVars, runVars, items, confs, packVars, copies,
                   webVars, asked, amiss, bumps, faults>>

Remembered(h) == VERSIONS[h] # 0 /\ PLATFORMS[h] # Missing

\* A host of which no version or no platform is remembered is given up.
WriteJson ==
    /\ pc = "json"
    /\ IF Remembered(host)
       THEN /\ pc' = "sign"
            /\ tmp' = [tmp EXCEPT ![host]["json"] = Json(host)]
            /\ torn' = IF minor = cmdb.minor THEN torn ELSE torn \cup {host}
       ELSE pc' = "pack" /\ UNCHANGED <<tmp, torn>>
    /\ UNCHANGED <<dbVars, memVars, runVars, items, confs, packVars, copies,
                   webVars, asked, amiss, bumps, faults>>

\* A request to the CMDB fails: the host is given up, its package stays.
ReadFails ==
    /\ pc \in {"minor", "json"}
    /\ faults < MaxFaults
    /\ faults' = faults + 1
    /\ amiss' = amiss \cup HostItems(host)
    /\ pc' = "pack"
    /\ UNCHANGED <<dbVars, memVars, runVars, items, tmpVars, packVars, copies,
                   webVars, asked, torn, bumps>>

Sign(fs) ==
    tmp' = [tmp EXCEPT
              ![host]["pkgSig"] = IF "pkg" \in fs THEN tmp[host]["pkg"] ELSE @,
              ![host]["jsonSig"] = IF "json" \in fs THEN tmp[host]["json"] ELSE @]

SignFiles ==
    /\ pc = "sign"
    /\ Sign({"pkg", "json"})
    /\ pc' = "pack"
    /\ UNCHANGED <<dbVars, memVars, runVars, items, confs, packVars, copies,
                   webVars, asked, torn, amiss, bumps, faults>>

\* gpg fails to make a signature, which nobody notices.
SignFails(fs) ==
    /\ pc = "sign"
    /\ faults < MaxFaults
    /\ faults' = faults + 1
    /\ amiss' = amiss \cup HostItems(host)
    /\ Sign(fs)
    /\ pc' = "pack"
    /\ UNCHANGED <<dbVars, memVars, runVars, items, confs, packVars, copies,
                   webVars, asked, torn, bumps>>

-----------------------------------------------------------------------------
(* deployer, and the reload of the module                                  *)

StartDeploying ==
    /\ pc = "pack"
    /\ left = {}
    /\ pc' = "deploy"
    /\ copies' = {x \in Hosts \X Files : tmp[x[1]][x[2]] # Missing}
    /\ UNCHANGED <<dbVars, memVars, runVars, items, tmpVars, packVars, webVars,
                   asked, torn, amiss, bumps, faults>>

\* A release that an agent would accept: package, version and signatures
\* belong together.
Complete(files) ==
    /\ files["json"] # Missing
    /\ files["jsonSig"] = files["json"]
    /\ files["pkg"] = files["json"].checksum
    /\ files["pkgSig"] = files["pkg"]

\* cp -rf copies one file.
DeployFile(h, f) ==
    /\ pc = "deploy"
    /\ <<h, f>> \in copies
    /\ copies' = copies \ {<<h, f>>}
    /\ nginx' = [nginx EXCEPT ![h][f] = tmp[h][f]]
    /\ IF Complete(nginx'[h])
       THEN /\ offered' = [offered EXCEPT ![h] = nginx'[h]["json"].version]
            /\ served' = [served EXCEPT ![h] = @ \cup nginx'[h]["pkg"].holds]
       ELSE UNCHANGED <<offered, served>>
    /\ UNCHANGED <<dbVars, memVars, runVars, pc, items, tmpVars, packVars,
                   asked, torn, amiss, bumps, faults>>

\* Faulty variant: the memory survives the reload.
ReloadKeeping == UNCHANGED memVars

\* run() returns 0, whatever went wrong.  reload() runs the module's code
\* once more, VERSIONS = {} and PLATFORMS = {} included.
Reload ==
    /\ VERSIONS' = [h \in Hosts |-> 0]
    /\ PLATFORMS' = [h \in Hosts |-> Missing]

FinishRun ==
    /\ pc = "deploy"
    /\ copies = {}
    /\ pc' = "idle"
    /\ asked' = asked \cup {i.version : i \in batch}
    /\ Reload
    /\ UNCHANGED <<dbVars, runVars, items, tmpVars, packVars, copies, webVars,
                   torn, amiss, bumps, faults>>

\* The daemon is killed, and starts again with an empty memory.
Crash ==
    /\ pc # "idle"
    /\ faults < MaxFaults
    /\ faults' = faults + 1
    /\ pc' = "idle"
    /\ items' = {}
    /\ left' = {}
    /\ copies' = {}
    /\ Reload
    /\ UNCHANGED <<dbVars, runVars, tmpVars, host, minor, webVars, asked, torn,
                   amiss, bumps>>

-----------------------------------------------------------------------------
Databases ==
    \/ \E h \in Hosts, c \in Confs : EditConfig(h, c) \/ CommitConfig(h, c)
    \/ \E h \in Hosts, p \in Platforms : ChangePlatform(h, p)
    \/ BumpVersion

Manager ==
    \/ Fetch
    \/ \E i \in items : ProcessItem(i)
    \/ StartPackaging
    \/ \E h \in Hosts : PackHost(h)
    \/ ReadMinor
    \/ WriteJson
    \/ SignFiles
    \/ StartDeploying
    \/ \E h \in Hosts, f \in Files : DeployFile(h, f)
    \/ FinishRun

Trouble ==
    \/ \E h \in Hosts : FetchGarbage(h)
    \/ \E i \in items, how \in Failures : ItemFails(i, how)
    \/ \E h \in Hosts : PackFails(h)
    \/ ReadFails
    \/ \E fs \in {{}, {"pkg"}, {"json"}} : SignFails(fs)
    \/ Crash

Next == Databases \/ Manager \/ Trouble

Spec == Init /\ [][Next]_vars

-----------------------------------------------------------------------------
(* Properties                                                              *)

PackageType == [run : Nat, from : Nat, holds : SUBSET (Confs \X Nat),
                cut : SUBSET Confs]

JsonType == [version : Version, platform : Platforms, checksum : PackageType]

\* Missing is told from every package and every version.json.
ASSUME MissingAssumption == Missing \notin PackageType \cup JsonType

DirType == [Files -> PackageType \cup JsonType \cup {Missing}]

\* The run that made a file, or what it signs.
RunOf(f, content) ==
    IF f \in {"pkg", "pkgSig"} THEN content.run ELSE content.checksum.run

\* The type invariant.
TypeOK ==
    /\ seq \in Nat
    /\ cur \in [Hosts -> [Confs -> Nat]]
    /\ pending \in [Hosts -> [Confs -> Nat]]
    /\ plat \in [Hosts -> Platforms]
    /\ cmdb \in [minor : Nat, patch : Nat]
    /\ VERSIONS \in [Hosts -> Nat]
    /\ PLATFORMS \in [Hosts -> Platforms \cup {Missing}]
    /\ pc \in {"idle", "items", "pack", "minor", "json", "sign", "deploy"}
    /\ items \subseteq batch
    /\ \A i \in batch :
          /\ i.host \in Hosts /\ i.conf \in Confs
          /\ i.version \in Nat /\ i.platform \in Platforms
    /\ confs \in [Hosts -> [Confs -> Failures \cup {"whole"}]]
    /\ left \subseteq Hosts
    /\ copies \subseteq Hosts \X Files
    /\ tmp \in [Hosts -> DirType]
    /\ nginx \in [Hosts -> DirType]
    /\ offered \in [Hosts -> Version]

\* The version of a release stands for all it should hold: of the edits in
\* the window of its run, up to its version, none is missing from the package
\* but those left out by an error or by a late commit.
VersionCoversRun ==
    \A h \in Hosts : Complete(nginx[h]) =>
        \A c \in Confs :
            LET p == nginx[h]["pkg"]
            IN  p.from < cur[h][c]
                /\ cur[h][c] <= nginx[h]["json"].version.build
                => <<c, cur[h][c]>> \in p.holds \/ cur[h][c] \in amiss

\* The run left nothing of host h out, and read one version of the agent.
Clean(h) ==
    /\ h \notin torn
    /\ \A i \in batch : i.host = h => i.version \notin amiss

\* The version offered to a host never goes down, although the manager
\* forgets it after each run and windows reach back: unless an item was left
\* out, or the version of the agent was bumped while it was read.
OfferedVersionGoesUp ==
    [][\A h \in Hosts : offered'[h] # offered[h] /\ Clean(h)'
            => Lt(offered[h], offered'[h])]_vars

\* What a host is offered for the first time comes under a version it has
\* not been offered before: an agent ignores a release of the version it
\* has.  Only what a run left out earlier comes too late.
NothingNewUnderOldVersion ==
    [][\A h \in Hosts : served'[h] # served[h] /\ ~Lt(offered[h], offered'[h])
            => (\A x \in served'[h] \ served[h] : x[2] \in amiss) \/ h \in torn]_vars

\* A release is for the platform that its host had when it was fetched, not
\* for one remembered from before.
PlatformOfRun ==
    pc = "deploy" =>
        \A h \in Hosts : tmp[h]["json"] # Missing =>
            \E i \in batch :
                i.host = h /\ i.platform = tmp[h]["json"].platform

\* "Remember versions and platforms of all hosts": a version that the manager
\* has seen for a host is not forgotten while it runs.
VersionsRemembered ==
    [][faults' = faults => \A h \in Hosts : VERSIONS'[h] >= VERSIONS[h]]_vars

=============================================================================

----------------------------- MODULE UpdateSystem -----------------------------
(***************************************************************************)
(* The update manager and the update agent of one host, end to end: the    *)
(* directory that the manager fills for the host (UpdateManager, deployer) *)
(* is the one that the agent (UAgent) downloads from.                      *)
(*                                                                         *)
(* A release holds the configurations edited in the window of one run, not *)
(* those of earlier runs, and replaces the release before it: a host that  *)
(* was away in between goes without the edits that only the former held.   *)
(***************************************************************************)
EXTENDS UpdateManager

CONSTANTS
    Host,           \* the host whose agent is modelled
    Torn,           \* a file that was cut short
    MaxAgentFaults, MaxKills,
    MaxTroubles     \* bounds: the last one of faults and kills together

ASSUME HostAssumption == Host \in Hosts

ASSUME TroublesAssumption == {MaxAgentFaults, MaxKills, MaxTroubles} \subseteq Nat

VARIABLES
    \* the agent, see UAgent
    recorded, applied, dl, apc, url, file, todo, last, failed, afaults, kills,
    \* history
    made,       \* the edits of the host that were committed
    lost        \* the edits that went with a release the host has not
                \* installed, or with a copy on the host that failed

agentVars == <<recorded, applied, dl, apc, url, file, todo, last, failed,
               afaults, kills>>
systemVars == <<vars, agentVars, made, lost>>

-----------------------------------------------------------------------------
(* What the manager's files are to the agent.                              *)

Packages ==
    [run : 0..MaxRuns, from : 0..MaxEdits,
     holds : SUBSET (Confs \X (1..MaxEdits)), cut : SUBSET Confs]

Releases ==
    [version : Version, upgrade_min : {FirstVersion}, upgrade_max : Version,
     platform : Platforms, checksum : Packages]

\* The targets in install.conf that package p brings.
Brought == [p \in Packages |-> {x[1] : x \in p.holds} \cup p.cut]

\* version.json: the packager writes upgradeFrom 1.0.0.0-<version>.
AsRelease(j) ==
    [version |-> j.version, upgrade_min |-> FirstVersion,
     upgrade_max |-> j.version, platform |-> j.platform,
     checksum |-> j.checksum]

Base ==
    [version |-> FirstVersion, upgrade_min |-> FirstVersion,
     upgrade_max |-> FirstVersion, platform |-> FirstPlatform,
     checksum |-> [run |-> 0, from |-> 0, holds |-> {}, cut |-> {}]]

\* The host's directory as nginx serves it.
Directory ==
    [f \in Files |->
        IF nginx[Host][f] # Missing /\ f \in {"json", "jsonSig"}
        THEN AsRelease(nginx[Host][f])
        ELSE nginx[Host][f]]

Agent ==
    INSTANCE UAgent WITH
        Releases <- Releases, Offered <- {}, Packages <- Packages,
        Targets <- Confs, Payload <- Brought, Scripted <- Packages,
        Oversized <- {}, Urls <- <<"singles">>, OffhourOnly <- {},
        Platform <- FirstPlatform, Base <- Base, NoFile <- Missing,
        MaxDeploys <- 0, MaxFaults <- MaxAgentFaults,
        pc <- apc, srv <- <<Directory>>,
        deploy <- <<[release |-> Base, todo |-> {}]>>,
        deploys <- 0, faults <- afaults

\* Missing and cut files are told from the others.
ASSUME TornAssumption ==
    /\ Torn # Missing
    /\ {Missing, Torn} \cap (Releases \cup Packages) = {}

-----------------------------------------------------------------------------
SystemInit ==
    /\ Init
    /\ Agent!Init
    /\ made = {}
    /\ lost = {}

\* The configVersion of configuration c on the host, 0 when the file is not
\* one that a release brought whole.
Held(c) ==
    LET brought == {x \in applied[c].by.checksum.holds : x[1] = c}
    IN  IF applied[c].whole /\ brought # {}
        THEN (CHOOSE x \in brought : TRUE)[2]
        ELSE 0

\* The edits that go with a release when its package is replaced: a complete
\* release held them, the new package does not, and the host has not got them.
Replaced ==
    IF nginx'[Host]["pkg"] = nginx[Host]["pkg"]
    THEN {}
    ELSE {x \in served[Host] \ nginx'[Host]["pkg"].holds : Held(x[1]) < x[2]}

\* What a step of the editors or of the manager is to the host.
Observed ==
    /\ made' = made \cup {<<c, cur'[Host][c]>> :
                             c \in {d \in Confs : cur'[Host][d] # cur[Host][d]}}
    /\ lost' = lost \cup Replaced
    /\ UNCHANGED agentVars

ManagerStep == Next /\ Observed

\* The edits whose copy fails, or is cut short when the server has a package
\* without them by now.
FailedNow ==
    IF apc # "install"
    THEN {}
    ELSE {x \in dl["json"].checksum.holds :
             \/ apc' = "install" /\ x[1] \in todo \ todo'
             \/ /\ applied'[x[1]] # applied[x[1]]
                /\ x \notin nginx[Host]["pkg"].holds}

\* The agent's steps.
AgentStep ==
    /\ UNCHANGED <<vars, made, lost>>
    /\ Agent!AgentStep

AgentTrouble ==
    /\ UNCHANGED <<vars, made>>
    /\ Agent!Trouble
    /\ lost' = lost \cup FailedNow

SystemNext ==
    /\ ManagerStep \/ AgentStep \/ AgentTrouble
    /\ faults' + afaults' + kills' <= MaxTroubles

SystemSpec == SystemInit /\ [][SystemNext]_systemVars

-----------------------------------------------------------------------------
(* Properties                                                              *)

Delivery ==
    INSTANCE ConfigDelivery WITH
        held <- [c \in Confs |-> Held(c)],
        claim <- last.version.build,
        givenUp <- (Confs \X amiss) \cup lost

\* Manager and agent keep the promise of ConfigDelivery to the host.
ConfigDelivered == Delivery!Spec

\* What UAgent takes for granted of its server, and the manager provides:
\* the files it copies to a directory are ones that packaging leaves, and they
\* are of one release.
DeploysOneRelease ==
    pc = "deploy" =>
        LET there == {f \in Files : tmp[Host][f] # Missing}
        IN  /\ there \in Agent!Packed \cup {{}}
            /\ \A f \in there :
                  /\ "json" \in there =>
                        AsRelease(tmp[Host]["json"]) \in Releases
                  /\ f # "pkg" => 
                        tmp[Host][f] = IF f = "pkgSig" THEN tmp[Host]["pkg"]
                                       ELSE tmp[Host]["json"]
                  /\ f = "json" => tmp[Host][f].checksum = tmp[Host]["pkg"]

\* A run that was interrupted while it deployed has left files of two releases:
\* the agent refuses what is there until the next one.
Broken ==
    \E f, g \in {x \in Files : nginx[Host][x] # Missing} :
        RunOf(f, nginx[Host][f]) # RunOf(g, nginx[Host][g])

\* The file was cut short by a kill, and the release that the agent was
\* installing has been replaced by one of a lower version.
Rewound(c) ==
    /\ ~applied[c].whole
    /\ nginx[Host]["json"] # Missing
    /\ Lt(nginx[Host]["json"].version, applied[c].by.version)

\* The host has got another operating system, and its release is for that.
Reinstalled ==
    /\ nginx[Host]["json"] # Missing
    /\ nginx[Host]["json"].platform # FirstPlatform

\* The last edit of a configuration that a run has fetched is on the host, or
\* in a release that the agent will install, at any time but while version.json
\* is replaced on the host; otherwise it was given up on the way, the version of
\* the agent was bumped while it was read, a later run is deploying or was
\* interrupted there, or the agent's version.json was left empty.  With
\* EventuallyCurrent of UAgent, an edit arrives.
NothingStuck ==
    apc # "record" =>
        \A c \in Confs :
            LET v == cur[Host][c]
            IN  v \in asked =>
                    \/ Held(c) = v
                    \/ v \in amiss \/ <<c, v>> \in lost \/ Host \in torn
                    \/ Agent!Bricked \/ Rewound(c) \/ Reinstalled
                    \/ Agent!Installable(1)
                    \/ Broken

=============================================================================

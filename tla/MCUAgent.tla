------------------------------ MODULE MCUAgent ------------------------------
(***************************************************************************)
(* A host with two configuration files, an update server with a directory  *)
(* for the host and one for everybody, and three releases to install.      *)
(***************************************************************************)
EXTENDS UAgent

CONSTANTS p0, p1, p1b, p2, a, b

V(minor, build) == [major |-> 1, minor |-> minor, patch |-> 0, build |-> build]

\* Configuration packages carry upgradeFrom 1.0.0.0-<version> (packager).
R(version, checksum) ==
    [version |-> version, upgrade_min |-> V(0, 0), upgrade_max |-> version,
     platform |-> "RedHat", checksum |-> checksum]

MCBase == R(V(0, 0), p0)

\* The overlap of the manager's windows packs the same version twice, with
\* another checksum; the newer release replaces fewer files.
MCOffered == {R(V(0, 1), p1), R(V(0, 1), p1b), R(V(0, 2), p2)}

MCReleases == MCOffered \cup {MCBase}

MCPackages == {p0, p1, p1b, p2}

MCPayload == [p \in MCPackages |->
                IF p = p2 THEN {a} ELSE IF p = p0 THEN {} ELSE {a, b}]

MCUrls == <<"singles", "latest">>

\* The liveness run: one target, two releases, one directory, for off hours.
LiveOffered == {R(V(0, 1), p1), R(V(0, 2), p2)}

LiveReleases == LiveOffered \cup {MCBase}

LivePayload == [p \in MCPackages |-> IF p = p0 THEN {} ELSE {a}]

LiveUrls == <<"offhour">>

=============================================================================

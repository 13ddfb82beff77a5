CONSTANTS
    MaxSize = 9
    Absent = Absent
    Releases <- MCReleases
    Offered <- MCOffered
    Packages <- MCPackages
    Targets = {a, b}
    a = a
    b = b
    p0 = p0
    p1 = p1
    p1b = p1b
    p2 = p2
    Payload <- MCPayload
    Scripted <- MCPackages
    Oversized = {}
    Urls <- MCUrls
    OffhourOnly = {}
    Platform = "RedHat"
    Base <- MCBase
    NoFile = NoFile
    Torn = Torn
    MaxDeploys = 2
    MaxFaults = 1
    MaxKills = 1
SPECIFICATION Spec
INVARIANTS
    TypeOK
    NoMixedInstall
    RecordedIsInstalled
PROPERTIES
    VersionGoesUp
CHECK_DEADLOCK FALSE

CONSTANTS
    MaxSize = 9
    Absent = Absent
    Releases <- LiveReleases
    Offered <- LiveOffered
    Packages <- MCPackages
    Targets = {a}
    a = a
    b = b
    p0 = p0
    p1 = p1
    p1b = p1b
    p2 = p2
    Payload <- LivePayload
    Scripted <- MCPackages
    Oversized = {}
    Urls <- LiveUrls
    OffhourOnly = {"offhour"}
    Platform = "RedHat"
    Base <- MCBase
    NoFile = NoFile
    Torn = Torn
    MaxDeploys = 2
    MaxFaults = 1
    MaxKills = 1
SPECIFICATION FairSpec
PROPERTIES
    EventuallyCurrent
    BrickedForGood
CHECK_DEADLOCK FALSE

CONSTANTS
    MaxSize = 9
    Absent = Absent
    Hosts = {h1}
    Confs = {c1, c2}
    Platforms = {"RedHat", "Ubuntu"}
    FirstPlatform = "RedHat"
    Missing = Missing
    MaxEdits = 3
    MaxRuns = 2
    MaxBumps = 1
    MaxFaults = 1
SYMMETRY ConfSymmetry
SPECIFICATION Spec
INVARIANTS
    TypeOK
    VersionCoversRun
    PlatformOfRun
PROPERTIES
    OfferedVersionGoesUp
    
CHECK_DEADLOCK FALSE

CONSTANTS
    MaxSize = 9
    Absent = Absent
    Hosts = {h1}
    Confs = {c1, c2}
    Platforms = {"RedHat", "Ubuntu"}
    FirstPlatform = "RedHat"
    Missing = Missing
    MaxEdits = 1
    MaxRuns = 2
    MaxBumps = 1
    MaxFaults = 0
SYMMETRY ConfSymmetry
SPECIFICATION Spec
PROPERTIES
    VersionsRemembered
CHECK_DEADLOCK FALSE

CONSTANTS
    MaxSize = 9
    Absent = Absent
    Hosts = {h1}
    Host = h1
    Confs = {c1, c2}
    Platforms = {"RedHat"}
    FirstPlatform = "RedHat"
    Missing = Missing
    Torn = Torn
    MaxEdits = 2
    MaxRuns = 2
    MaxBumps = 0
    MaxFaults = 1
    MaxAgentFaults = 1
    MaxKills = 1
    MaxTroubles = 1
SYMMETRY ConfSymmetry
SPECIFICATION SystemSpec
INVARIANTS
    DeploysOneRelease
    

    
CHECK_DEADLOCK FALSE

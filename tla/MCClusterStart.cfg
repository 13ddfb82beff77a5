SPECIFICATION FairSpec
CONSTANTS
    Tables <- MCTables
    Groups <- MCGroups
    Clients = {"opentsdb"}
    ReadyNeeded = 2
    FormatSteps = 2
    DbSteps = 3
    DbMark = 2
    KeySteps = 2
    MaxFaults = 2
INVARIANTS TypeOK StartedOnWholeSchema
PROPERTIES InterruptedForGood EventuallyServing
CHECK_DEADLOCK FALSE
